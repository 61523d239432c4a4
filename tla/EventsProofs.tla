----------------------------- MODULE EventsProofs -----------------------------
(***************************************************************************)
(* TLAPS proofs about Events, for all events, groups, values and bounds.   *)
(***************************************************************************)
EXTENDS Events, MailsProofs, FiniteSetTheorems

\* The jobs of the event process.
GroupTopics == UNION {{g} \X (0..Len(Complex(g))) : g \in DOMAIN Group}
JobSet == [do : {"mail"}, about : Topics, arg : Recipients]
          \cup [do : {"level", "record"}, about : GroupTopics, arg : {None}]
          \cup [do : {"set"}, about : Variables, arg : Int]

\* The types of the variables of Events itself.
EventTypeOK ==
    /\ value \in [Variables -> Int \cup {None}] /\ recent \subseteq Variables
    /\ open \in [Owners -> Nat] /\ last_level \in [DOMAIN Group -> Int]
    /\ active \in [ComplexKeys -> BOOLEAN]
    /\ inside \in [ItemKeys -> BOOLEAN]
    /\ worker.turn \in 1..Len(Agenda)
    /\ changes \in [Topics -> Nat]
    /\ samples \in 0..MaxSamples /\ kills \in 0..MaxKills /\ mailKills \in Nat

\* The worker is between two checks, or it is at a group of the agenda and has found one of
\* its complex events.
WorkerInv ==
    /\ worker \in [turn : 1..Len(Agenda), item : Nat \ {0}, found : Nat, any : BOOLEAN,
                   jobs : Seq(JobSet)]
    /\ worker.found > 0 => Turn \in DOMAIN Group /\ worker.found <= Len(Complex(Turn))

\* A value saved in the last hour is known.
KnownInv == \A v \in recent : value[v] \in Int

\* LimitCheck for an event with a fixed limit.
FixedCheck(e, x, on) ==
    LET h == IF on THEN -Event[e].hysteresis ELSE Event[e].hysteresis
        l == Event[e].limit
    IN  CASE Event[e].limit_type = 0 -> x < l - h
          [] Event[e].limit_type = 1 -> x <= l - h
          [] Event[e].limit_type = 2 -> x > l + h
          [] Event[e].limit_type = 3 -> x >= l + h
          [] Event[e].limit_type = 4 -> l + Event[e].hysteresis >= x /\ x >= l - Event[e].hysteresis

\* The value an event last changed at was beyond the limit, as seen from the other side of
\* the hysteresis, exactly if the event is recorded now.
EdgeInv ==
    /\ edge \in [DOMAIN Event -> Int \cup {None}]
    /\ \A e \in DOMAIN Event : edge[e] # None =>
          /\ Event[e].variable_limit = None
          /\ FixedCheck(e, edge[e], open[e] = 0) <=> open[e] > 0

EventIInv == EventTypeOK /\ WorkerInv /\ KnownInv /\ OneOpenRecord /\ EdgeInv

LEMMA GroupTopic ==
    ASSUME NEW g \in DOMAIN Group, NEW k \in 0..Len(Complex(g))
    PROVE  <<g, k>> \in GroupTopics /\ <<g, k>> \in Topics
BY DEF GroupTopics, Topics

LEMMA TopicOfGroup ==
    ASSUME NEW t \in GroupTopics
    PROVE  /\ t[1] \in DOMAIN Group /\ t[2] \in 0..Len(Complex(t[1])) /\ t \in Topics
BY DEF GroupTopics, Topics

LEMMA EventTopic ==
    ASSUME NEW e \in DOMAIN Event, NEW k \in {0, 1}
    PROVE  <<e, k>> \in Topics
BY DEF Topics

LEMMA MailJobsTyped ==
    ASSUME NEW t \in Topics, NEW to \in Seq(Recipients)
    PROVE  MailJobs(t, to) \in Seq(JobSet)
<1>1. Len(to) \in Nat /\ \A i \in 1..Len(to) : JobTo("mail", t, to[i]) \in JobSet
  BY ElementOfSeq, LenProperties DEF JobTo, JobSet
<1> QED
  BY <1>1 DEF MailJobs

LEMMA GroupJobsTyped ==
    ASSUME NEW g \in DOMAIN Group, NEW k \in 0..Len(Complex(g))
    PROVE  /\ LevelJob(g, k) \in Seq(JobSet) /\ RecordJob(g, k) \in Seq(JobSet)
           /\ GroupMails(g, k) \in Seq(JobSet)
<1>1. JobTo("level", <<g, k>>, None) \in JobSet /\ JobTo("record", <<g, k>>, None) \in JobSet
  BY GroupTopic DEF JobTo, JobSet
<1>2. MailJobs(<<g, k>>, Group[g].mail_recipients) \in Seq(JobSet)
  BY GroupTopic, MailJobsTyped, EventAssumption
<1> QED
  BY <1>1, <1>2 DEF LevelJob, RecordJob, GroupMails

LEMMA SetJobsTyped ==
    ASSUME NEW g \in DOMAIN Group, Group[g].variable_to_change \in Variables, NEW x \in Int
    PROVE  SetJobs(g, x) \in Seq(JobSet)
BY DEF SetJobs, JobTo, JobSet

LEMMA FoundJobsTyped ==
    ASSUME NEW g \in DOMAIN Group, NEW k \in 1..Len(Complex(g))
    PROVE  FoundJobs(g, k) \in Seq(JobSet)
<1> DEFINE rest == IF Complex(g)[k].new_value # None /\ Group[g].variable_to_change # None
                   THEN SetJobs(g, Complex(g)[k].new_value) ELSE <<>>
<1>1. rest \in Seq(JobSet)
  BY SMTT(30), SetJobsTyped, EventAssumption
<1>2. GroupMails(g, k) \in Seq(JobSet)
  BY GroupJobsTyped, EventAssumption
<1>3. FoundJobs(g, k) = GroupMails(g, k) \o rest
  BY DEF FoundJobs
<1> HIDE DEF rest
<1> QED
  BY <1>1, <1>2, <1>3, ConcatProperties

LEMMA DefaultJobsTyped ==
    ASSUME NEW g \in DOMAIN Group
    PROVE  DefaultJobs(g) \in Seq(JobSet)
<1> DEFINE middle == IF Group[g].default_value \in {None, 0} THEN <<>>
                     ELSE SetJobs(g, Group[g].default_value)
<1>1. middle \in Seq(JobSet)
  BY SMTT(30), SetJobsTyped, EventAssumption, DefaultAssumption
<1>2. /\ LevelJob(g, 0) \in Seq(JobSet) /\ GroupMails(g, 0) \in Seq(JobSet)
      /\ RecordJob(g, 0) \in Seq(JobSet)
  BY GroupJobsTyped, EventAssumption
<1>3. DefaultJobs(g) = LevelJob(g, 0) \o middle \o GroupMails(g, 0) \o RecordJob(g, 0)
  BY DEF DefaultJobs
<1> HIDE DEF middle
<1> QED
  BY <1>1, <1>2, <1>3, ConcatProperties

LEMMA FixedLimit ==
    ASSUME NEW e \in DOMAIN Event, Event[e].variable_limit = None, NEW x, NEW on
    PROVE  LimitCheck(e, x, on) <=> FixedCheck(e, x, on)
BY DEF LimitCheck, FixedCheck, Limit

LEMMA LimitCheckBoolean ==
    ASSUME NEW e \in DOMAIN Event, NEW x, NEW on
    PROVE  LimitCheck(e, x, on) \in BOOLEAN
<1>1. \/ Event[e].limit_type = 0 \/ Event[e].limit_type = 1 \/ Event[e].limit_type = 2
      \/ Event[e].limit_type = 3 \/ Event[e].limit_type = 4
  BY EventAssumption
<1>2. CASE Event[e].limit_type = 0
  BY <1>2 DEF LimitCheck
<1>3. CASE Event[e].limit_type = 1
  BY <1>3 DEF LimitCheck
<1>4. CASE Event[e].limit_type = 2
  BY <1>4 DEF LimitCheck
<1>5. CASE Event[e].limit_type = 3
  BY <1>5 DEF LimitCheck
<1>6. CASE Event[e].limit_type = 4
  BY <1>6 DEF LimitCheck
<1> QED
  BY <1>1, <1>2, <1>3, <1>4, <1>5, <1>6

LEMMA EventInitInv == Init => EventIInv
<1> SUFFICES ASSUME Init PROVE EventIInv
  OBVIOUS
<1>0. Len(Agenda) \in Nat \ {0}
  BY EventAssumption, EmptySeq
<1>1. EventTypeOK
  BY <1>0, EventAssumption DEF Init, EventTypeOK, Start, MailInit
<1>2. WorkerInv
  BY <1>0, EmptySeq DEF Init, WorkerInv, Start
<1>3. KnownInv /\ OneOpenRecord /\ EdgeInv
  BY DEF Init, KnownInv, OneOpenRecord, EdgeInv
<1> QED
  BY <1>1, <1>2, <1>3 DEF EventIInv

\* A check that ends with jobs, or without.
LEMMA FreshWorker ==
    ASSUME NEW n \in 1..Len(Agenda), NEW jobs \in Seq(JobSet),
           worker' = [turn |-> n, item |-> 1, found |-> 0, any |-> FALSE, jobs |-> jobs]
    PROVE  WorkerInv' /\ worker'.turn \in 1..Len(Agenda)
<1>1. worker' \in [turn : 1..Len(Agenda), item : Nat \ {0}, found : Nat, any : BOOLEAN,
                   jobs : Seq(JobSet)]
  OBVIOUS
<1>2. ~(worker'.found > 0)
  OBVIOUS
<1> QED
  BY <1>1, <1>2 DEF WorkerInv

LEMMA TurnEnds ==
    ASSUME WorkerInv, NEW jobs \in Seq(JobSet), worker' = [NextTurn EXCEPT !.jobs = jobs]
    PROVE  WorkerInv' /\ worker'.turn \in 1..Len(Agenda)
<1>1. Len(Agenda) \in Nat \ {0}
  BY EventAssumption, EmptySeq
<1>2. worker.turn \in 1..Len(Agenda)
  BY DEF WorkerInv
<1>3. CASE worker.turn = Len(Agenda)
  <2>1. worker' = [turn |-> 1, item |-> 1, found |-> 0, any |-> FALSE, jobs |-> jobs]
    BY <1>3 DEF NextTurn, Start
  <2>2. 1 \in 1..Len(Agenda)
    BY <1>1
  <2> QED
    BY <2>1, <2>2, FreshWorker
<1>4. CASE worker.turn # Len(Agenda)
  <2>1. worker.turn + 1 \in 1..Len(Agenda)
    BY <1>1, <1>2, <1>4
  <2>2. worker' = [turn |-> worker.turn + 1, item |-> 1, found |-> 0, any |-> FALSE,
                   jobs |-> jobs]
    BY <1>4 DEF NextTurn, Start
  <2> QED
    BY <2>1, <2>2, FreshWorker
<1> QED
  BY <1>3, <1>4

LEMMA IdleTurnEnds ==
    ASSUME WorkerInv, worker' = NextTurn
    PROVE  WorkerInv' /\ worker'.turn \in 1..Len(Agenda)
<1>1. Len(Agenda) \in Nat \ {0} /\ 1 \in 1..Len(Agenda)
  BY EventAssumption, EmptySeq
<1>2. worker.turn \in 1..Len(Agenda)
  BY DEF WorkerInv
<1>3. CASE worker.turn = Len(Agenda)
  <2>1. worker' = [turn |-> 1, item |-> 1, found |-> 0, any |-> FALSE, jobs |-> <<>>]
    BY <1>3 DEF NextTurn, Start
  <2> QED
    BY <1>1, <2>1, EmptySeq, FreshWorker
<1>4. CASE worker.turn # Len(Agenda)
  <2>1. worker.turn + 1 \in 1..Len(Agenda)
    BY <1>1, <1>2, <1>4
  <2>2. worker' = [turn |-> worker.turn + 1, item |-> 1, found |-> 0, any |-> FALSE,
                   jobs |-> <<>>]
    BY <1>4 DEF NextTurn, Start
  <2> QED
    BY <2>1, <2>2, EmptySeq, FreshWorker
<1> QED
  BY <1>3, <1>4

LEMMA StartAgain ==
    ASSUME worker' = Start
    PROVE  WorkerInv' /\ worker'.turn \in 1..Len(Agenda)
<1>1. Len(Agenda) \in Nat \ {0}
  BY EventAssumption, EmptySeq
<1> QED
  BY <1>1, EmptySeq DEF WorkerInv, Start

\* The jobs after the first.
LEMMA NextJob ==
    ASSUME WorkerInv, worker.jobs # <<>>, worker' = [worker EXCEPT !.jobs = Tail(@)]
    PROVE  WorkerInv' /\ Head(worker.jobs) \in JobSet
<1>1. Head(worker.jobs) \in JobSet /\ Tail(worker.jobs) \in Seq(JobSet)
  BY HeadTailProperties DEF WorkerInv
<1>2. WorkerInv'
  BY <1>1 DEF WorkerInv, Turn
<1> QED
  BY <1>1, <1>2

\* A change of value, or of the records of groups, leaves the edges of the events alone.
LEMMA EdgeKept ==
    ASSUME EdgeInv, edge' = edge, \A e \in DOMAIN Event : open'[e] = open[e]
    PROVE  EdgeInv'
BY DEF EdgeInv

LEMMA EventStepInv ==
    ASSUME EventIInv, [Next]_vars
    PROVE  EventIInv'
<1> USE EventAssumption
<1>0. EventTypeOK /\ WorkerInv /\ KnownInv /\ OneOpenRecord /\ EdgeInv
  BY DEF EventIInv
<1>1. ASSUME NEW v \in Variables, Sample(v) PROVE EventIInv'
  <2>1. PICK x \in Values : value' = [value EXCEPT ![v] = x]
    BY <1>1 DEF Sample
  <2>2. EventTypeOK'
    BY <1>0, <1>1, <2>1 DEF Sample, EventTypeOK, records, mailVars
  <2>3. KnownInv'
    BY <1>0, <1>1, <2>1 DEF Sample, KnownInv, EventTypeOK, mailVars
  <2>4. WorkerInv'
    BY <1>0, <1>1 DEF Sample, WorkerInv, Turn
  <2>5. OneOpenRecord' /\ EdgeInv'
    BY <1>0, <1>1, EdgeKept DEF Sample, OneOpenRecord, records
  <2> QED
    BY <2>2, <2>3, <2>4, <2>5 DEF EventIInv
<1>2. ASSUME NEW v \in Variables, Expire(v) PROVE EventIInv'
  <2>1. EventTypeOK' /\ KnownInv'
    BY <1>0, <1>2 DEF Expire, EventTypeOK, KnownInv, records, history, mailVars
  <2>2. WorkerInv'
    BY <1>0, <1>2 DEF Expire, WorkerInv, Turn
  <2>3. OneOpenRecord' /\ EdgeInv'
    BY <1>0, <1>2, EdgeKept DEF Expire, OneOpenRecord, records, history
  <2> QED
    BY <2>1, <2>2, <2>3 DEF EventIInv
<1>3. ASSUME NEW e \in DOMAIN Event, Change(e) PROVE EventIInv'
  <2> DEFINE x == value[Event[e].variable]
             on == LimitCheck(e, x, open[e] > 0)
             k == IF on THEN 1 ELSE 0
             jobs == IF Wants(e, on) THEN MailJobs(<<e, k>>, Event[e].mail_recipients) ELSE <<>>
  <2>1. /\ Known(e) /\ Event[e].variable_limit = None /\ IsChange(e, on)
        /\ open' = [open EXCEPT ![e] = IF on THEN @ + 1 ELSE @ - 1]
        /\ changes' = [changes EXCEPT ![<<e, k>>] = @ + 1]
        /\ edge' = [edge EXCEPT ![e] = x]
        /\ worker' = [NextTurn EXCEPT !.jobs = jobs]
        /\ UNCHANGED <<data, last_level, active, inside, samples, kills, mailVars>>
    BY <1>3 DEF Change
  <2>2. x \in Int /\ e \in Owners /\ on \in BOOLEAN
    <3>1. x \in Int /\ e \in Owners
      BY <1>0, <2>1 DEF Known, KnownInv, Owners
    <3>2. on \in BOOLEAN
      BY LimitCheckBoolean
    <3> QED
      BY <3>1, <3>2
  <2>3. jobs \in Seq(JobSet)
    BY EventTopic, MailJobsTyped, EmptySeq
  <2>4. WorkerInv' /\ worker'.turn \in 1..Len(Agenda)
    <3> HIDE DEF jobs
    <3> QED
      BY <1>0, <2>1, <2>3, TurnEnds
  <2>5. open[e] \in {0, 1} /\ (on <=> open[e] = 0)
    BY <1>0, <2>1, <2>2 DEF OneOpenRecord, EventTypeOK, IsChange, mailVars
  <2>6. open' = [open EXCEPT ![e] = k] /\ open'[e] = k /\ k \in {0, 1}
    <3>1. CASE on
      <4>1. open' = [open EXCEPT ![e] = open[e] + 1] /\ k = 1
        BY <2>1, <3>1
      <4>2. open[e] = 0
        BY <2>5, <3>1
      <4>3. open[e] + 1 = k
        BY <4>1, <4>2
      <4>4. k \in {0, 1} /\ e \in Owners
        BY <2>2, <4>1
      <4> HIDE DEF k, on, x
      <4> QED
        BY <1>0, <4>1, <4>3, <4>4 DEF EventTypeOK
    <3>2. CASE ~on
      <4>1. open' = [open EXCEPT ![e] = open[e] - 1] /\ k = 0
        BY <2>1, <3>2
      <4>2. open[e] = 1
        BY <2>5, <3>2
      <4>3. open[e] - 1 = k
        BY <4>1, <4>2
      <4>4. k \in {0, 1} /\ e \in Owners
        BY <2>2, <4>1
      <4> HIDE DEF k, on, x
      <4> QED
        BY <1>0, <4>1, <4>3, <4>4 DEF EventTypeOK
    <3> HIDE DEF on
    <3> QED
      BY <3>1, <3>2
  <2>7. EventTypeOK'
    <3>1. changes' \in [Topics -> Nat]
      <4> HIDE DEF k
      <4>1. <<e, k>> \in Topics
        BY <2>6, EventTopic
      <4> QED
        BY <1>0, <2>1, <4>1 DEF EventTypeOK
    <3>2. open' \in [Owners -> Nat]
      <4> HIDE DEF k
      <4> QED
        BY <1>0, <2>2, <2>6 DEF EventTypeOK
    <3> QED
      BY <1>0, <2>1, <2>4, <3>1, <3>2 DEF EventTypeOK, data, mailVars
  <2>8. KnownInv' /\ OneOpenRecord'
    BY <1>0, <2>1, <2>6 DEF KnownInv, OneOpenRecord, EventTypeOK, data, mailVars
  <2>9. EdgeInv'
    <3>1. FixedCheck(e, x, open'[e] = 0) <=> open'[e] > 0
      <4>1. LimitCheck(e, x, open[e] > 0) <=> FixedCheck(e, x, open[e] > 0)
        BY <2>1, FixedLimit
      <4>2. (open[e] > 0) = (open'[e] = 0)
        BY <2>5, <2>6
      <4>3. on <=> open'[e] > 0
        BY <2>5, <2>6
      <4> QED
        BY <4>1, <4>2, <4>3
    <3>2. edge'[e] = x /\ \A f \in DOMAIN Event : f # e => edge'[f] = edge[f] /\ open'[f] = open[f]
      BY <1>0, <2>1, <2>6 DEF EdgeInv, EventTypeOK, Owners, mailVars
    <3>3. edge' \in [DOMAIN Event -> Int \cup {None}]
      BY <1>0, <2>1, <2>2 DEF EdgeInv
    <3> HIDE DEF x
    <3> QED
      BY <1>0, <2>1, <3>1, <3>2, <3>3 DEF EdgeInv
  <2> QED
    BY <2>4, <2>7, <2>8, <2>9 DEF EventIInv
<1>4. ASSUME NEW e \in DOMAIN Event, Stay(e) PROVE EventIInv'
  <2>1. WorkerInv' /\ worker'.turn \in 1..Len(Agenda)
    BY <1>0, <1>4, IdleTurnEnds DEF Stay
  <2> QED
    BY <1>0, <1>4, <2>1, EdgeKept
    DEF Stay, data, records, history, EventIInv, EventTypeOK, KnownInv, OneOpenRecord, mailVars
<1>5. ASSUME NEW e \in DOMAIN Event, Raise(e) PROVE EventIInv'
  BY <1>0, <1>5, StartAgain, EdgeKept
  DEF Raise, data, records, history, EventIInv, EventTypeOK, KnownInv, OneOpenRecord, mailVars
<1>6. ASSUME NEW g \in DOMAIN Group, CheckItem(g) PROVE EventIInv'
  <2> DEFINE k == worker.item
             jobs == IF Found(g, k) THEN LevelJob(g, k) \o RecordJob(g, k) ELSE <<>>
  <2>1. /\ Turn = g /\ k <= Len(Complex(g))
        /\ active' = [active EXCEPT ![<<g, k>>] = IsValid(g, k)]
        /\ inside' = [key \in ItemKeys |->
                         IF key[1] = g /\ key[2] = k /\ Judged(Items(g, k)[key[3]])
                         THEN InLimit(Items(g, k)[key[3]], inside[key]) ELSE inside[key]]
        /\ worker' = [worker EXCEPT !.item = k + 1, !.any = @ \/ IsValid(g, k),
                                    !.found = IF Found(g, k) THEN k ELSE @, !.jobs = jobs]
        /\ UNCHANGED <<data, open, last_level, history, mailVars>>
    BY <1>6 DEF CheckItem
  <2>2. k \in 1..Len(Complex(g)) /\ k \in 0..Len(Complex(g))
    BY <1>0, <2>1 DEF WorkerInv
  <2>3. jobs \in Seq(JobSet)
    <3>1. LevelJob(g, k) \in Seq(JobSet) /\ RecordJob(g, k) \in Seq(JobSet)
      BY <2>2, GroupJobsTyped
    <3> QED
      BY <3>1, ConcatProperties, EmptySeq
  <2>4. WorkerInv' /\ worker'.turn \in 1..Len(Agenda)
    <3> DEFINE f == IF Found(g, k) THEN k ELSE worker.found
               a == worker.any \/ IsValid(g, k)
    <3>1. worker' = [turn |-> worker.turn, item |-> k + 1, any |-> a, found |-> f, jobs |-> jobs]
      BY <1>0, <2>1 DEF WorkerInv
    <3>2. f \in Nat /\ (f > 0 => f <= Len(Complex(g))) /\ a \in BOOLEAN
      BY <1>0, <2>1, <2>2 DEF WorkerInv
    <3>3. worker.turn \in 1..Len(Agenda) /\ k + 1 \in Nat \ {0} /\ Agenda[worker.turn] = g
      BY <1>0, <2>1, <2>2 DEF WorkerInv, Turn
    <3> HIDE DEF f, a, jobs, k
    <3> QED
      BY <2>3, <3>1, <3>2, <3>3 DEF WorkerInv, Turn
  <2>5. active' \in [ComplexKeys -> BOOLEAN] /\ inside' \in [ItemKeys -> BOOLEAN]
    <3>1. IsValid(g, k) \in BOOLEAN
      BY DEF IsValid
    <3>2. \A i, on : InLimit(i, on) \in BOOLEAN
      BY DEF InLimit
    <3> HIDE DEF k
    <3> QED
      BY <1>0, <2>1, <3>1, <3>2 DEF EventTypeOK, mailVars
  <2>6. EventTypeOK'
    BY <1>0, <2>1, <2>4, <2>5 DEF EventTypeOK, data, history, mailVars
  <2> QED
    BY <1>0, <2>1, <2>4, <2>6, EdgeKept DEF EventIInv, KnownInv, OneOpenRecord, data, history
<1>7. ASSUME NEW g \in DOMAIN Group, EndItems(g) PROVE EventIInv'
  <2> DEFINE jobs == IF worker.found > 0 THEN FoundJobs(g, worker.found)
                     ELSE IF ~worker.any /\ last_level[g] # -1 THEN DefaultJobs(g)
                     ELSE <<>>
  <2>1. /\ Turn = g /\ worker' = [NextTurn EXCEPT !.jobs = jobs]
        /\ UNCHANGED <<data, records, history, mailVars>>
    BY <1>7 DEF EndItems, EndTurn
  <2>2. jobs \in Seq(JobSet)
    <3>1. worker.found > 0 => worker.found \in 1..Len(Complex(g))
      BY <1>0, <2>1 DEF WorkerInv
    <3> QED
      BY <3>1, FoundJobsTyped, DefaultJobsTyped, EmptySeq
  <2>3. WorkerInv' /\ worker'.turn \in 1..Len(Agenda)
    <3> HIDE DEF jobs
    <3> QED
      BY <1>0, <2>1, <2>2, TurnEnds
  <2> QED
    BY <1>0, <2>1, <2>3, EdgeKept
    DEF data, records, history, EventIInv, EventTypeOK, KnownInv, OneOpenRecord, mailVars
<1>8. CASE SaveLevel
  <2> DEFINE t == Subject
  <2>1. /\ worker.jobs # <<>> /\ Head(worker.jobs).do = "level"
        /\ worker' = [worker EXCEPT !.jobs = Tail(@)]
        /\ last_level' = [last_level EXCEPT ![t[1]] = Level(t[1], t[2])]
        /\ changes' = [changes EXCEPT ![t] = @ + 1]
        /\ UNCHANGED <<data, open, active, inside, edge, samples, kills, mailVars>>
    BY <1>8 DEF SaveLevel, Job, JobDone
  <2>2. WorkerInv' /\ Head(worker.jobs) \in JobSet
    BY <1>0, <2>1, NextJob
  <2>3. t \in GroupTopics
    BY <2>1, <2>2 DEF JobSet, Subject
  <2>4. t[1] \in DOMAIN Group /\ t[2] \in 0..Len(Complex(t[1])) /\ t \in Topics
    BY <2>3, TopicOfGroup
  <2>5. Level(t[1], t[2]) \in Int
    BY <2>4 DEF Level
  <2>6. EventTypeOK'
    <3> HIDE DEF t
    <3>1. last_level' \in [DOMAIN Group -> Int] /\ changes' \in [Topics -> Nat]
      BY SMTT(30), <1>0, <2>1, <2>4, <2>5 DEF EventTypeOK
    <3> QED
      BY <1>0, <2>1, <2>2, <3>1 DEF EventTypeOK, WorkerInv, data, mailVars
  <2> QED
    BY <1>0, <2>1, <2>2, <2>6, EdgeKept DEF EventIInv, KnownInv, OneOpenRecord, data
<1>9. CASE SaveRecord
  <2> DEFINE t == Subject
  <2>1. /\ worker.jobs # <<>> /\ Head(worker.jobs).do = "record"
        /\ worker' = [worker EXCEPT !.jobs = Tail(@)]
        /\ open' = [open EXCEPT ![t[1]] = Recorded(t[1], t[2])]
        /\ UNCHANGED <<data, last_level, active, inside, history, mailVars>>
    BY <1>9 DEF SaveRecord, Job, JobDone
  <2>2. WorkerInv' /\ Head(worker.jobs) \in JobSet
    BY <1>0, <2>1, NextJob
  <2>3. t \in GroupTopics
    BY <2>1, <2>2 DEF JobSet, Subject
  <2>4. t[1] \in DOMAIN Group /\ t[1] \in Owners
    BY <2>3, TopicOfGroup DEF Owners
  <2>5. Recorded(t[1], t[2]) \in {0, 1}
    BY <1>0, <2>4 DEF Recorded, OneOpenRecord, EventTypeOK, mailVars
  <2>6. EventTypeOK' /\ OneOpenRecord'
    <3> HIDE DEF t
    <3>1. open' \in [Owners -> Nat] /\ OneOpenRecord'
      BY SMTT(30), <1>0, <2>1, <2>4, <2>5 DEF EventTypeOK, OneOpenRecord
    <3> QED
      BY <1>0, <2>1, <2>2, <3>1 DEF EventTypeOK, WorkerInv, data, history, mailVars
  <2>7. \A e \in DOMAIN Event : open'[e] = open[e]
    BY <1>0, <2>1, <2>4 DEF EventTypeOK, Owners, mailVars
  <2> QED
    BY <1>0, <2>1, <2>2, <2>6, <2>7, EdgeKept DEF EventIInv, KnownInv, data, history
<1>10. CASE HandOver
  <2>1. WorkerInv'
    BY <1>0, <1>10, NextJob DEF HandOver, Job, JobDone
  <2> QED
    BY <1>0, <1>10, <2>1, EdgeKept
    DEF HandOver, PostMail, data, records, history, WorkerInv, EventIInv, EventTypeOK, KnownInv,
        OneOpenRecord, mailVars
<1>11. CASE SetValue
  <2>1. WorkerInv' /\ Head(worker.jobs) \in JobSet
    BY <1>0, <1>11, NextJob DEF SetValue, Job, JobDone
  <2>2. Subject \in Variables /\ Head(worker.jobs).arg \in Int
    BY <1>11, <2>1 DEF SetValue, Job, JobSet, Subject
  <2>3. EventTypeOK' /\ KnownInv'
    BY ZenonT(40), <1>0, <1>11, <2>1, <2>2
    DEF SetValue, EventTypeOK, KnownInv, WorkerInv, records, history, mailVars
  <2> QED
    BY <1>0, <1>11, <2>1, <2>3, EdgeKept DEF SetValue, EventIInv, OneOpenRecord, records, history
<1>12. CASE Kill
  BY <1>0, <1>12, StartAgain, EdgeKept
  DEF Kill, data, records, EventIInv, EventTypeOK, KnownInv, OneOpenRecord, mailVars
<1>13. ASSUME UNCHANGED <<data, records, worker, history>>, mailKills' \in Nat
       PROVE  EventIInv'
  BY <1>0, <1>13, EdgeKept
  DEF data, records, history, WorkerInv, Turn, EventIInv, EventTypeOK, KnownInv, OneOpenRecord,
      mailVars
<1>14. CASE MailProcess
  <2>1. mailKills' = mailKills
    BY <1>14 DEF MailProcess, MailWork, BeginPass, DeliverMail, SaveMail, DeleteMails
  <2> QED
    BY <1>0, <1>13, <1>14, <2>1 DEF MailProcess, EventTypeOK
<1>15. CASE KillMails
  BY <1>0, <1>13, <1>15 DEF KillMails, KillSender, EventTypeOK
<1>16. CASE UNCHANGED vars
  BY <1>0, <1>13, <1>16 DEF vars, mailVars, EventTypeOK
<1> QED
  BY <1>1, <1>2, <1>3, <1>4, <1>5, <1>6, <1>7, <1>8, <1>9, <1>10, <1>11, <1>12, <1>14, <1>15, <1>16
  DEF Next, EventWork, Devices

\* Whatever another process does, the table of mails changes as Mails allows: the event
\* process only adds mails to it, about its own subjects and to its own recipients.
LEMMA MailStep ==
    ASSUME EventIInv, [Next]_vars
    PROVE  [MailNext]_mailVars
<1>1. CASE HandOver
  <2>1. Head(worker.jobs) \in JobSet
    BY <1>1, NextJob DEF EventIInv, HandOver, Job, JobDone
  <2>2. Subject \in Subjects /\ Head(worker.jobs).arg \in Recipients
    BY <1>1, <2>1, EventAssumption DEF HandOver, Job, Subject, JobSet
  <2> QED
    BY <1>1, <2>2 DEF HandOver, MailNext
<1>2. CASE MailProcess \/ KillMails
  BY <1>2 DEF MailProcess, KillMails, MailNext
<1>3. CASE UNCHANGED mailVars
  BY <1>3
<1>4. ASSUME NEW v \in Variables, Sample(v) \/ Expire(v) PROVE UNCHANGED mailVars
  BY <1>4 DEF Sample, Expire
<1>5. ASSUME NEW e \in DOMAIN Event, Change(e) \/ Stay(e) \/ Raise(e) PROVE UNCHANGED mailVars
  BY <1>5 DEF Change, Stay, Raise
<1>6. ASSUME NEW g \in DOMAIN Group, CheckItem(g) \/ EndItems(g) PROVE UNCHANGED mailVars
  BY <1>6 DEF CheckItem, EndItems
<1>7. ASSUME SaveLevel \/ SaveRecord \/ SetValue \/ Kill PROVE UNCHANGED mailVars
  BY <1>7 DEF SaveLevel, SaveRecord, SetValue, Kill
<1> QED
  BY <1>1, <1>2, <1>3, <1>4, <1>5, <1>6, <1>7 DEF Next, EventWork, Devices, vars

\* If a value y is on one side of the hysteresis and x is on the other, they are apart by
\* twice the hysteresis.
LEMMA Apart ==
    ASSUME NEW e \in DOMAIN Event, Event[e].variable_limit = None, Event[e].limit_type # 4,
           NEW x \in Int, NEW y \in Int, NEW b \in BOOLEAN,
           FixedCheck(e, y, ~b) <=> b, FixedCheck(e, x, b) <=> ~b
    PROVE  (IF x - y < 0 THEN -(x - y) ELSE x - y) >= 2 * Event[e].hysteresis
<1>1. Event[e].limit \in Int /\ Event[e].hysteresis \in Int /\ Event[e].limit_type \in 0..3
  BY EventAssumption
<1>2. CASE b
  <2>1. FixedCheck(e, y, FALSE) /\ ~FixedCheck(e, x, TRUE)
    BY <1>2
  <2>2. CASE Event[e].limit_type = 0
    BY <1>1, <2>1, <2>2 DEF FixedCheck
  <2>3. CASE Event[e].limit_type = 1
    BY <1>1, <2>1, <2>3 DEF FixedCheck
  <2>4. CASE Event[e].limit_type = 2
    BY <1>1, <2>1, <2>4 DEF FixedCheck
  <2>5. CASE Event[e].limit_type = 3
    BY <1>1, <2>1, <2>5 DEF FixedCheck
  <2> QED
    BY <1>1, <2>2, <2>3, <2>4, <2>5
<1>3. CASE ~b
  <2>1. ~FixedCheck(e, y, TRUE) /\ FixedCheck(e, x, FALSE)
    BY <1>3
  <2>2. CASE Event[e].limit_type = 0
    BY <1>1, <2>1, <2>2 DEF FixedCheck
  <2>3. CASE Event[e].limit_type = 1
    BY <1>1, <2>1, <2>3 DEF FixedCheck
  <2>4. CASE Event[e].limit_type = 2
    BY <1>1, <2>1, <2>4 DEF FixedCheck
  <2>5. CASE Event[e].limit_type = 3
    BY <1>1, <2>1, <2>5 DEF FixedCheck
  <2> QED
    BY <1>1, <2>2, <2>3, <2>4, <2>5
<1> QED
  BY <1>2, <1>3

\* Only Change opens or closes the record of an event.
LEMMA WhoOpens ==
    ASSUME EventIInv, [Next]_vars, NEW e \in DOMAIN Event, open'[e] # open[e]
    PROVE  Change(e)
<1>0. e \in Owners /\ open \in [Owners -> Nat]
  BY DEF EventIInv, EventTypeOK, Owners
<1>1. ASSUME NEW f \in DOMAIN Event, Change(f) PROVE f = e
  BY <1>0, <1>1 DEF Change
<1>2. ~SaveRecord
  <2> SUFFICES ASSUME SaveRecord PROVE FALSE
    OBVIOUS
  <2>1. Head(worker.jobs) \in JobSet
    BY NextJob DEF EventIInv, SaveRecord, Job, JobDone
  <2>2. Subject \in GroupTopics
    BY <2>1 DEF SaveRecord, Job, Subject, JobSet
  <2>3. Subject[1] # e
    BY <2>2, TopicOfGroup, EventAssumption
  <2> QED
    BY <1>0, <2>3 DEF SaveRecord
<1>3. UNCHANGED records => FALSE
  BY DEF records
<1>4. ASSUME NEW v \in Variables, Sample(v) \/ Expire(v) PROVE FALSE
  BY <1>3, <1>4 DEF Sample, Expire
<1>5. ASSUME NEW f \in DOMAIN Event, Stay(f) \/ Raise(f) PROVE FALSE
  BY <1>3, <1>5 DEF Stay, Raise
<1>6. ASSUME NEW g \in DOMAIN Group, CheckItem(g) \/ EndItems(g) PROVE FALSE
  BY <1>3, <1>6 DEF CheckItem, EndItems
<1>7. ASSUME SaveLevel \/ HandOver \/ SetValue \/ Kill PROVE FALSE
  BY <1>3, <1>7 DEF SaveLevel, HandOver, SetValue, Kill
<1>8. ASSUME MailProcess \/ KillMails \/ UNCHANGED vars PROVE FALSE
  BY <1>3, <1>8 DEF MailProcess, KillMails, vars, records
<1> QED
  BY <1>1, <1>2, <1>4, <1>5, <1>6, <1>7, <1>8 DEF Next, EventWork, Devices

THEOREM EventInductive == Spec => []EventIInv
BY EventInitInv, EventStepInv, PTL DEF Spec

\* The event process uses the table of mails as Mails allows: the event process and the mail
\* process together implement Mails (Mail(...).save() of models.py, mail/worker.py).
THEOREM EventsImplementMails == Spec => MailSpec
<1>1. Init => MailInit
  BY DEF Init
<1> QED
  BY <1>1, MailStep, EventInductive, PTL DEF Spec, MailSpec

\* Whatever the devices record and whichever process is killed when, the tables and the
\* jobs of the event process keep their types.
THEOREM EventsTypeCorrect == Spec => []TypeOK
<1>1. EventIInv /\ MailTypeOK => TypeOK
  BY DEF EventIInv, EventTypeOK, TypeOK
<1> QED
  BY <1>1, EventInductive, EventsImplementMails, MailTypeCorrect, PTL

\* No event or group has two open records (RecordedEvent with active = True), although
\* finding and saving one are not a transaction and the process may be killed.
THEOREM OneOpenRecordAlways == Spec => []OneOpenRecord
<1>1. EventIInv => OneOpenRecord
  BY DEF EventIInv
<1> QED
  BY <1>1, EventInductive, PTL

\* A mail about an event is tried three times and delivered once at most, but for kills.
THEOREM EventMailsDeliveredOnce == Spec => []DeliveredOnce
BY EventsImplementMails, MailsDeliveredOnce, PTL

\* Between an event and its end the value has moved by twice the hysteresis, whatever the
\* limit, its type, the hysteresis and the values (Event.do_event_check).
THEOREM HysteresisHolds == Spec => NoFlapping
<1> DEFINE A == \A e \in DOMAIN Event :
                   open'[e] # open[e] /\ edge[e] # None /\ Event[e].limit_type # 4 =>
                      LET d == value[Event[e].variable] - edge[e]
                      IN  (IF d < 0 THEN -d ELSE d) >= 2 * Event[e].hysteresis
<1>1. EventIInv /\ [Next]_vars => A
  <2> SUFFICES ASSUME EventIInv, [Next]_vars, NEW e \in DOMAIN Event,
                      open'[e] # open[e], edge[e] # None, Event[e].limit_type # 4
               PROVE  LET d == value[Event[e].variable] - edge[e]
                      IN  (IF d < 0 THEN -d ELSE d) >= 2 * Event[e].hysteresis
    OBVIOUS
  <2> DEFINE x == value[Event[e].variable]
             y == edge[e]
  <2>1. Change(e)
    BY WhoOpens
  <2>2. /\ Event[e].variable_limit = None /\ x \in Int
        /\ IsChange(e, LimitCheck(e, x, open[e] > 0))
    BY <2>1 DEF Change, Known, EventIInv, KnownInv
  <2>3. y \in Int /\ (FixedCheck(e, y, open[e] = 0) <=> open[e] > 0)
    BY DEF EventIInv, EdgeInv
  <2>4. open[e] \in Nat /\ (open[e] = 0) = (~(open[e] > 0))
    BY DEF EventIInv, EventTypeOK, Owners
  <2> DEFINE b == open[e] > 0
  <2>5. FixedCheck(e, x, b) <=> ~b
    BY <2>2, FixedLimit, LimitCheckBoolean DEF IsChange
  <2>6. (FixedCheck(e, y, ~b) <=> b) /\ b \in BOOLEAN
    BY <2>3, <2>4
  <2> HIDE DEF x, y, b
  <2>7. (IF x - y < 0 THEN -(x - y) ELSE x - y) >= 2 * Event[e].hysteresis
    BY <2>2, <2>3, <2>5, <2>6, Apart
  <2> QED
    BY <2>7 DEF x, y
<1> QED
  BY <1>1, EventInductive, PTL DEF Spec, NoFlapping
----------------------------------------------------------------------------
(* The levels of a group.                                                  *)

\* No two complex events of a group have the same level, and none the level of no event.
LevelsDiffer ==
    \A g \in DOMAIN Group : \A k, l \in 0..Len(Complex(g)) : Level(g, k) = Level(g, l) => k = l

\* Jobs that save neither level nor record, and those that do not save them for group g.
PlainJobs == {j \in JobSet : j.do \in {"mail", "set"}}
OtherJobs(g) == {j \in JobSet : j.do \in {"level", "record"} => j.about[1] # g}

\* Complex event k is the first of the group that was valid (0: none was); what is recorded
\* of the group follows from complex event k.
IsFirst(g, k) ==
    /\ k > 0 => active[<<g, k>>]
    /\ \A l \in 1..Len(Complex(g)) : active[<<g, l>>] => k > 0 /\ k <= l
Follows(g, k) ==
    /\ last_level[g] = Level(g, k)
    /\ open[g] = (IF Stops(g, k) THEN 0 ELSE 1)

\* The check of the group is at one of its complex events: none was valid so far, or f was
\* and is, or becomes, the one of the group.
NoneYet(g) ==
    /\ \A l \in 1..(worker.item - 1) : ~active[<<g, l>>]
    /\ ~worker.any /\ worker.found = 0 /\ worker.jobs = <<>>
    /\ \E k \in 0..Len(Complex(g)) : Follows(g, k)
OneYet(g, f) ==
    /\ active[<<g, f>>] /\ \A l \in 1..(f - 1) : ~active[<<g, l>>]
    /\ worker.any
    /\ \/ worker.found = f /\ worker.jobs = LevelJob(g, f) \o RecordJob(g, f)
       \/ worker.found = f /\ worker.jobs = RecordJob(g, f) /\ last_level[g] = Level(g, f)
       \/ worker.found \in {0, f} /\ worker.jobs = <<>> /\ Follows(g, f)
Midway(g) ==
    /\ worker.item <= Len(Complex(g)) + 1
    /\ NoneYet(g) \/ \E f \in 1..(worker.item - 1) : OneYet(g, f)

\* It is not: the group follows, or returns to no event.
Following(g) ==
    /\ worker.jobs \in Seq(OtherJobs(g))
    /\ \E k \in 0..Len(Complex(g)) : IsFirst(g, k) /\ Follows(g, k)
Returning(g) ==
    /\ IsFirst(g, 0)
    /\ \E s \in Seq(PlainJobs) :
          \/ worker.jobs = LevelJob(g, 0) \o (s \o RecordJob(g, 0))
          \/ last_level[g] = -1 /\ worker.jobs = s \o RecordJob(g, 0)

AtWork(g) == Turn = g /\ worker.item > 1
GroupInv(g) == IF AtWork(g) THEN Midway(g) ELSE Following(g) \/ Returning(g)
FollowInv ==
    /\ worker.item = 1 => worker.found = 0 /\ ~worker.any
    /\ kills = 0 => \A g \in DOMAIN Group : GroupInv(g)

LEMMA ConsProperties ==
    ASSUME NEW S, NEW x \in S, NEW q \in Seq(S)
    PROVE  /\ <<x>> \o q \in Seq(S) /\ <<x>> \o q # <<>>
           /\ Head(<<x>> \o q) = x /\ Tail(<<x>> \o q) = q
<1>1. <<x>> \in Seq(S) /\ Len(<<x>>) = 1
  OBVIOUS
<1>2. /\ <<x>> \o q \in Seq(S) /\ Len(<<x>> \o q) = 1 + Len(q) /\ Len(q) \in Nat
      /\ \A i \in 1..(1 + Len(q)) : (<<x>> \o q)[i] = IF i <= 1 THEN x ELSE q[i - 1]
  BY <1>1, ConcatProperties, LenProperties
<1> DEFINE c == <<x>> \o q
<1> HIDE DEF c
<1>3. c \in Seq(S) /\ Len(c) = 1 + Len(q) /\ c[1] = x
  BY <1>2 DEF c
<1>4. c # <<>>
  BY <1>2, <1>3, EmptySeq
<1>5. /\ Tail(c) \in Seq(S) /\ Len(Tail(c)) = Len(q)
      /\ \A i \in 1..Len(q) : Tail(c)[i] = c[i + 1]
  BY <1>2, <1>3, <1>4, HeadTailProperties
<1>6. \A i \in 1..Len(q) : c[i + 1] = q[i]
  BY <1>2 DEF c
<1>7. Tail(c) = q
  BY <1>5, <1>6, SeqEqual
<1>8. Head(c) = x
  BY <1>3, <1>4
<1> QED
  BY <1>3, <1>4, <1>7, <1>8 DEF c

LEMMA GroupJob ==
    ASSUME NEW g \in DOMAIN Group, NEW k \in 0..Len(Complex(g))
    PROVE  /\ JobTo("level", <<g, k>>, None) \in JobSet
           /\ JobTo("record", <<g, k>>, None) \in JobSet
           /\ LevelJob(g, k) = <<JobTo("level", <<g, k>>, None)>>
           /\ RecordJob(g, k) = <<JobTo("record", <<g, k>>, None)>>
BY GroupTopic DEF JobTo, JobSet, LevelJob, RecordJob

\* The first of the jobs of a group that becomes, or returns.
LEMMA LevelFirst ==
    ASSUME NEW g \in DOMAIN Group, NEW k \in 0..Len(Complex(g)), NEW q \in Seq(JobSet)
    PROVE  /\ LevelJob(g, k) \o q # <<>> /\ Tail(LevelJob(g, k) \o q) = q
           /\ Head(LevelJob(g, k) \o q) = JobTo("level", <<g, k>>, None)
<1> DEFINE x == JobTo("level", <<g, k>>, None)
<1>1. x \in JobSet /\ LevelJob(g, k) = <<x>>
  BY GroupJob
<1> HIDE DEF x
<1>2. <<x>> \o q # <<>> /\ Head(<<x>> \o q) = x /\ Tail(<<x>> \o q) = q
  BY <1>1, ConsProperties
<1> QED
  BY <1>1, <1>2 DEF x

LEMMA RecordFirst ==
    ASSUME NEW g \in DOMAIN Group, NEW k \in 0..Len(Complex(g))
    PROVE  /\ RecordJob(g, k) # <<>> /\ Tail(RecordJob(g, k)) = <<>>
           /\ Head(RecordJob(g, k)) = JobTo("record", <<g, k>>, None)
           /\ RecordJob(g, k) \in Seq(JobSet)
BY GroupJob

LEMMA PlainFirst ==
    ASSUME NEW g \in DOMAIN Group, NEW s \in Seq(PlainJobs)
    PROVE  LET q == s \o RecordJob(g, 0)
           IN  /\ q \in Seq(JobSet) /\ q # <<>>
               /\ \/ s = <<>> /\ q = RecordJob(g, 0)
                  \/ /\ s # <<>> /\ Head(q) \in PlainJobs
                     /\ Tail(s) \in Seq(PlainJobs) /\ Tail(q) = Tail(s) \o RecordJob(g, 0)
<1> DEFINE r == RecordJob(g, 0)
           q == s \o r
<1>0. 0 \in 0..Len(Complex(g))
  BY EventAssumption
<1>1. r \in Seq(JobSet) /\ r # <<>>
  BY <1>0, RecordFirst
<1>2. s \in Seq(JobSet)
  BY SeqMonotonic DEF PlainJobs
<1> HIDE DEF r
<1>3. q \in Seq(JobSet) /\ q # <<>>
  BY <1>1, <1>2, ConcatProperties, ConcatEqualIffEmpty
<1>4. CASE s = <<>>
  BY <1>1, <1>3, <1>4, ConcatEmptySeq DEF r
<1>5. CASE s # <<>>
  <2>1. Head(s) \in PlainJobs /\ Tail(s) \in Seq(PlainJobs) /\ Tail(s) \in Seq(JobSet)
    BY <1>2, <1>5, HeadTailProperties
  <2>2. Head(s) \in JobSet
    BY <2>1 DEF PlainJobs
  <2>3. s = <<Head(s)>> \o Tail(s)
    <3> DEFINE t == <<Head(s)>> \o Tail(s)
    <3>1. /\ <<Head(s)>> \in Seq(JobSet) /\ Len(<<Head(s)>>) = 1 /\ <<Head(s)>>[1] = Head(s)
          /\ Len(Tail(s)) = Len(s) - 1 /\ Len(s) \in Nat \ {0} /\ Head(s) = s[1]
          /\ \A i \in 1..Len(Tail(s)) : Tail(s)[i] = s[i + 1]
      BY <1>2, <1>5, <2>2, HeadTailProperties, EmptySeq
    <3>2. /\ t \in Seq(JobSet) /\ Len(t) = 1 + Len(Tail(s))
          /\ \A i \in 1..(1 + Len(Tail(s))) :
                t[i] = IF i <= 1 THEN <<Head(s)>>[i] ELSE Tail(s)[i - 1]
      BY <2>1, <3>1, ConcatProperties
    <3>3. Len(s) = Len(t)
      BY <3>1, <3>2
    <3>4. ASSUME NEW i \in 1..Len(s) PROVE s[i] = t[i]
      <4>1. CASE i = 1
        BY <3>1, <3>2, <4>1
      <4>2. CASE i # 1
        <5>1. i - 1 \in 1..Len(Tail(s)) /\ i \in 1..(1 + Len(Tail(s))) /\ ~(i <= 1)
          BY <3>1, <4>2
        <5>2. t[i] = Tail(s)[i - 1] /\ Tail(s)[i - 1] = s[(i - 1) + 1]
          BY <3>1, <3>2, <5>1
        <5> QED
          BY <5>2
      <4> QED
        BY <4>1, <4>2
    <3> HIDE DEF t
    <3>5. s = t
      BY <1>2, <3>2, <3>3, <3>4, SeqEqual
    <3> QED
      BY <3>5 DEF t
  <2>4. q = <<Head(s)>> \o (Tail(s) \o r)
    BY <1>1, <2>1, <2>2, <2>3, ConcatAssociative
  <2>5. Tail(s) \o r \in Seq(JobSet)
    BY <1>1, <2>1, ConcatProperties
  <2>6. Head(q) = Head(s) /\ Tail(q) = Tail(s) \o r
    BY <2>2, <2>4, <2>5, ConsProperties
  <2> QED
    BY <1>3, <1>5, <2>1, <2>6 DEF r
<1> QED
  BY <1>4, <1>5

\* Jobs that follow from the complex event found, or from the end of the last one.
LEMMA PlainIsOther ==
    ASSUME NEW g \in DOMAIN Group, NEW s \in Seq(PlainJobs)
    PROVE  s \in Seq(OtherJobs(g))
BY SeqMonotonic DEF PlainJobs, OtherJobs

LEMMA MailJobsPlain ==
    ASSUME NEW t \in Topics, NEW to \in Seq(Recipients)
    PROVE  MailJobs(t, to) \in Seq(PlainJobs)
<1>1. Len(to) \in Nat /\ \A i \in 1..Len(to) : JobTo("mail", t, to[i]) \in PlainJobs
  BY ElementOfSeq, LenProperties DEF JobTo, JobSet, PlainJobs
<1> QED
  BY <1>1 DEF MailJobs

LEMMA GroupMailsPlain ==
    ASSUME NEW g \in DOMAIN Group, NEW k \in 0..Len(Complex(g))
    PROVE  GroupMails(g, k) \in Seq(PlainJobs)
<1>1. MailJobs(<<g, k>>, Group[g].mail_recipients) \in Seq(PlainJobs)
  BY GroupTopic, MailJobsPlain, EventAssumption
<1> QED
  BY <1>1 DEF GroupMails

LEMMA SetJobsPlain ==
    ASSUME NEW g \in DOMAIN Group, Group[g].variable_to_change \in Variables, NEW x \in Int
    PROVE  SetJobs(g, x) \in Seq(PlainJobs)
BY DEF SetJobs, JobTo, JobSet, PlainJobs

LEMMA FoundJobsPlain ==
    ASSUME NEW g \in DOMAIN Group, NEW k \in 1..Len(Complex(g))
    PROVE  FoundJobs(g, k) \in Seq(PlainJobs)
<1> DEFINE rest == IF Complex(g)[k].new_value # None /\ Group[g].variable_to_change # None
                   THEN SetJobs(g, Complex(g)[k].new_value) ELSE <<>>
<1>1. rest \in Seq(PlainJobs)
  BY SMTT(30), SetJobsPlain, EventAssumption
<1>2. GroupMails(g, k) \in Seq(PlainJobs)
  BY GroupMailsPlain, EventAssumption
<1>3. FoundJobs(g, k) = GroupMails(g, k) \o rest
  BY DEF FoundJobs
<1> HIDE DEF rest
<1> QED
  BY <1>1, <1>2, <1>3, ConcatProperties

LEMMA DefaultJobsForm ==
    ASSUME NEW g \in DOMAIN Group
    PROVE  \E s \in Seq(PlainJobs) : DefaultJobs(g) = LevelJob(g, 0) \o (s \o RecordJob(g, 0))
<1> DEFINE middle == IF Group[g].default_value \in {None, 0} THEN <<>>
                     ELSE SetJobs(g, Group[g].default_value)
<1>1. middle \in Seq(PlainJobs)
  BY SMTT(30), SetJobsPlain, EventAssumption, DefaultAssumption
<1>2. GroupMails(g, 0) \in Seq(PlainJobs)
  BY GroupMailsPlain, EventAssumption
<1>3. DefaultJobs(g) = ((LevelJob(g, 0) \o middle) \o GroupMails(g, 0)) \o RecordJob(g, 0)
  BY DEF DefaultJobs
<1> HIDE DEF middle
<1>4. LevelJob(g, 0) \in Seq(JobSet) /\ RecordJob(g, 0) \in Seq(JobSet)
  BY GroupJobsTyped, EventAssumption
<1>5. middle \in Seq(JobSet) /\ GroupMails(g, 0) \in Seq(JobSet)
  BY <1>1, <1>2, SeqMonotonic DEF PlainJobs
<1> DEFINE s == middle \o GroupMails(g, 0)
<1>6. s \in Seq(PlainJobs) /\ s \in Seq(JobSet)
  BY <1>1, <1>2, <1>5, ConcatProperties
<1>7. DefaultJobs(g) = (LevelJob(g, 0) \o s) \o RecordJob(g, 0)
  <2>1. (LevelJob(g, 0) \o middle) \o GroupMails(g, 0) = LevelJob(g, 0) \o s
    BY <1>4, <1>5, ConcatAssociative
  <2> QED
    BY <1>3, <2>1
<1> HIDE DEF s
<1>8. DefaultJobs(g) = LevelJob(g, 0) \o (s \o RecordJob(g, 0))
  BY <1>4, <1>6, <1>7, ConcatAssociative
<1> QED
  BY <1>6, <1>8

\* The jobs of a group that is returning are not done yet.
LEMMA ReturningBusy ==
    ASSUME NEW g \in DOMAIN Group, Returning(g)
    PROVE  worker.jobs # <<>>
<1>1. 0 \in 0..Len(Complex(g))
  BY EventAssumption
<1>2. PICK s \in Seq(PlainJobs) :
         \/ worker.jobs = LevelJob(g, 0) \o (s \o RecordJob(g, 0))
         \/ worker.jobs = s \o RecordJob(g, 0)
  BY DEF Returning
<1>3. s \o RecordJob(g, 0) \in Seq(JobSet) /\ s \o RecordJob(g, 0) # <<>>
  BY PlainFirst
<1>4. LevelJob(g, 0) \o (s \o RecordJob(g, 0)) # <<>>
  BY <1>1, <1>3, LevelFirst
<1> QED
  BY <1>2, <1>3, <1>4

\* A step that changes nothing a group depends on.
LEMMA GroupKept ==
    ASSUME NEW g \in DOMAIN Group, GroupInv(g), worker' = worker, active' = active,
           last_level'[g] = last_level[g], open'[g] = open[g]
    PROVE  GroupInv(g)'
<1>1. \A k : Follows(g, k)' <=> Follows(g, k)
  BY DEF Follows
<1>2. \A k : IsFirst(g, k)' <=> IsFirst(g, k)
  BY DEF IsFirst
<1>3. CASE AtWork(g)
  <2>1. Midway(g)'
    BY <1>1, <1>3 DEF GroupInv, Midway, NoneYet, OneYet
  <2> QED
    BY <1>3, <2>1 DEF GroupInv, AtWork, Turn
<1>4. CASE ~AtWork(g)
  <2>1. Following(g)' \/ Returning(g)'
    BY <1>1, <1>2, <1>4 DEF GroupInv, Following, Returning
  <2> QED
    BY <1>4, <2>1 DEF GroupInv, AtWork, Turn
<1> QED
  BY <1>3, <1>4

\* The end of a check the group has no part in, or of its process.
LEMMA GroupWaits ==
    ASSUME NEW g \in DOMAIN Group, GroupInv(g), ~AtWork(g), worker.jobs = <<>>,
           active' = active, last_level'[g] = last_level[g], open'[g] = open[g],
           worker'.item = 1, worker'.jobs \in Seq(OtherJobs(g))
    PROVE  GroupInv(g)'
<1>1. Following(g)
  BY ReturningBusy DEF GroupInv
<1>2. Following(g)'
  BY <1>1 DEF Following, IsFirst, Follows
<1>3. ~AtWork(g)'
  BY DEF AtWork
<1> QED
  BY <1>2, <1>3 DEF GroupInv

\* The first of the jobs, and what it says of group g.
LEMMA HeadJob ==
    ASSUME EventIInv, NEW g \in DOMAIN Group, GroupInv(g), worker.jobs # <<>>
    PROVE  LET h == Head(worker.jobs) IN
           \/ /\ Following(g) /\ ~AtWork(g) /\ h \in OtherJobs(g)
              /\ Tail(worker.jobs) \in Seq(OtherJobs(g))
           \/ /\ Returning(g) /\ ~AtWork(g) /\ h = JobTo("level", <<g, 0>>, None)
              /\ \E s \in Seq(PlainJobs) : Tail(worker.jobs) = s \o RecordJob(g, 0)
           \/ /\ Returning(g) /\ ~AtWork(g) /\ h \in PlainJobs /\ last_level[g] = -1
              /\ \E s \in Seq(PlainJobs) : Tail(worker.jobs) = s \o RecordJob(g, 0)
           \/ /\ Returning(g) /\ ~AtWork(g) /\ h = JobTo("record", <<g, 0>>, None)
              /\ last_level[g] = -1 /\ Tail(worker.jobs) = <<>>
           \/ /\ Midway(g) /\ AtWork(g)
              /\ \E f \in 1..(worker.item - 1) :
                    /\ OneYet(g, f) /\ worker.found = f /\ f \in 1..Len(Complex(g))
                    /\ \/ /\ h = JobTo("level", <<g, f>>, None)
                          /\ Tail(worker.jobs) = RecordJob(g, f)
                       \/ /\ h = JobTo("record", <<g, f>>, None)
                          /\ Tail(worker.jobs) = <<>> /\ last_level[g] = Level(g, f)
<1> DEFINE h == Head(worker.jobs)
<1>0. 0 \in 0..Len(Complex(g)) /\ Len(Complex(g)) \in Nat /\ worker.item \in Nat \ {0}
  BY EventAssumption DEF EventIInv, WorkerInv
<1>1. CASE ~AtWork(g) /\ Following(g)
  <2>1. worker.jobs \in Seq(OtherJobs(g))
    BY <1>1 DEF Following
  <2>2. h \in OtherJobs(g) /\ Tail(worker.jobs) \in Seq(OtherJobs(g))
    BY <2>1, HeadTailProperties
  <2> QED
    BY <1>1, <2>2
<1>2. CASE ~AtWork(g) /\ Returning(g)
  <2>1. PICK s \in Seq(PlainJobs) :
           \/ worker.jobs = LevelJob(g, 0) \o (s \o RecordJob(g, 0))
           \/ last_level[g] = -1 /\ worker.jobs = s \o RecordJob(g, 0)
    BY <1>2 DEF Returning
  <2> DEFINE q == s \o RecordJob(g, 0)
  <2>2. /\ q \in Seq(JobSet)
        /\ \/ s = <<>> /\ q = RecordJob(g, 0)
           \/ /\ s # <<>> /\ Head(q) \in PlainJobs
              /\ Tail(s) \in Seq(PlainJobs) /\ Tail(q) = Tail(s) \o RecordJob(g, 0)
    BY PlainFirst
  <2>3. CASE worker.jobs = LevelJob(g, 0) \o q
    <3>1. h = JobTo("level", <<g, 0>>, None) /\ Tail(worker.jobs) = q
      BY <1>0, <2>2, <2>3, LevelFirst
    <3> QED
      BY <1>2, <3>1
  <2>4. CASE last_level[g] = -1 /\ worker.jobs = q
    <3>1. CASE s = <<>> /\ q = RecordJob(g, 0)
      <4>1. h = JobTo("record", <<g, 0>>, None) /\ Tail(worker.jobs) = <<>>
        BY <1>0, <2>4, <3>1, RecordFirst
      <4> QED
        BY <1>2, <2>4, <4>1
    <3>2. CASE /\ Head(q) \in PlainJobs /\ Tail(s) \in Seq(PlainJobs)
               /\ Tail(q) = Tail(s) \o RecordJob(g, 0)
      BY <1>2, <2>4, <3>2
    <3> QED
      BY <2>2, <3>1, <3>2
  <2> QED
    BY <2>1, <2>3, <2>4
<1>3. CASE AtWork(g)
  <2>1. Midway(g) /\ ~NoneYet(g)
    BY <1>3 DEF GroupInv, NoneYet
  <2>2. PICK f \in 1..(worker.item - 1) : OneYet(g, f)
    BY <2>1 DEF Midway
  <2>3. f \in 1..Len(Complex(g)) /\ f \in 0..Len(Complex(g))
    BY <1>0, <2>1, <2>2 DEF Midway
  <2>4. CASE worker.found = f /\ worker.jobs = LevelJob(g, f) \o RecordJob(g, f)
    <3>1. h = JobTo("level", <<g, f>>, None) /\ Tail(worker.jobs) = RecordJob(g, f)
      BY <2>3, <2>4, LevelFirst, RecordFirst
    <3> QED
      BY <1>3, <2>1, <2>2, <2>3, <2>4, <3>1
  <2>5. CASE worker.found = f /\ worker.jobs = RecordJob(g, f) /\ last_level[g] = Level(g, f)
    <3>1. h = JobTo("record", <<g, f>>, None) /\ Tail(worker.jobs) = <<>>
      BY <2>3, <2>5, RecordFirst
    <3> QED
      BY <1>3, <2>1, <2>2, <2>3, <2>5, <3>1
  <2> QED
    BY <2>2, <2>4, <2>5 DEF OneYet
<1> QED
  BY <1>1, <1>2, <1>3 DEF GroupInv

\* A mail is handed over, or a value is set: nothing a group depends on, but the jobs.
LEMMA PlainJobDone ==
    ASSUME EventIInv, NEW g \in DOMAIN Group, GroupInv(g), worker.jobs # <<>>,
           Head(worker.jobs).do \in {"mail", "set"}, worker' = [worker EXCEPT !.jobs = Tail(@)],
           active' = active, last_level' = last_level, open' = open
    PROVE  GroupInv(g)'
<1>1. /\ worker'.jobs = Tail(worker.jobs) /\ worker'.turn = worker.turn
      /\ worker'.item = worker.item
  BY DEF EventIInv, WorkerInv
<1>2. AtWork(g)' <=> AtWork(g)
  BY <1>1 DEF AtWork, Turn
<1>3. CASE ~AtWork(g) /\ Following(g) /\ Tail(worker.jobs) \in Seq(OtherJobs(g))
  <2>1. Following(g)'
    BY <1>1, <1>3 DEF Following, IsFirst, Follows
  <2> QED
    BY <1>2, <1>3, <2>1 DEF GroupInv
<1>4. CASE /\ Returning(g) /\ ~AtWork(g) /\ last_level[g] = -1
           /\ \E s \in Seq(PlainJobs) : Tail(worker.jobs) = s \o RecordJob(g, 0)
  <2>1. Returning(g)'
    BY <1>1, <1>4 DEF Returning, IsFirst
  <2> QED
    BY <1>2, <1>4, <2>1 DEF GroupInv
<1>5. \A about : Head(worker.jobs) # JobTo("level", about, None)
                 /\ Head(worker.jobs) # JobTo("record", about, None)
  BY DEF JobTo
<1> QED
  BY <1>3, <1>4, <1>5, HeadJob

LEMMA SaveLevelGroup ==
    ASSUME EventIInv, NEW g \in DOMAIN Group, GroupInv(g), SaveLevel
    PROVE  GroupInv(g)'
<1> DEFINE h == Head(worker.jobs)
<1>1. /\ worker.jobs # <<>> /\ h.do = "level" /\ h \in JobSet
      /\ last_level' = [last_level EXCEPT ![h.about[1]] = Level(h.about[1], h.about[2])]
      /\ open' = open /\ active' = active /\ worker' = [worker EXCEPT !.jobs = Tail(@)]
  <2>1. h \in JobSet
    BY NextJob DEF EventIInv, SaveLevel, Job, JobDone
  <2> QED
    BY <2>1 DEF SaveLevel, Job, JobDone, Subject
<1>2. /\ worker'.jobs = Tail(worker.jobs) /\ worker'.turn = worker.turn
      /\ worker'.item = worker.item /\ worker'.any = worker.any /\ worker'.found = worker.found
  BY <1>1 DEF EventIInv, WorkerInv
<1>3. AtWork(g)' <=> AtWork(g)
  BY <1>2 DEF AtWork, Turn
<1>4. last_level \in [DOMAIN Group -> Int]
  BY DEF EventIInv, EventTypeOK
<1>5. CASE /\ ~AtWork(g) /\ Following(g) /\ h \in OtherJobs(g)
           /\ Tail(worker.jobs) \in Seq(OtherJobs(g))
  <2>1. h.about[1] # g
    BY <1>1, <1>5 DEF OtherJobs
  <2>2. last_level'[g] = last_level[g]
    BY <1>1, <1>4, <2>1
  <2>3. Following(g)'
    BY <1>1, <1>2, <1>5, <2>2 DEF Following, IsFirst, Follows
  <2> QED
    BY <1>3, <1>5, <2>3 DEF GroupInv
<1>6. CASE /\ Returning(g) /\ ~AtWork(g) /\ h = JobTo("level", <<g, 0>>, None)
           /\ \E s \in Seq(PlainJobs) : Tail(worker.jobs) = s \o RecordJob(g, 0)
  <2>1. h.about[1] = g /\ h.about[2] = 0
    BY <1>6 DEF JobTo
  <2>2. last_level'[g] = -1
    BY <1>1, <1>4, <2>1 DEF Level
  <2>3. Returning(g)'
    BY <1>1, <1>2, <1>6, <2>2 DEF Returning, IsFirst
  <2> QED
    BY <1>3, <1>6, <2>3 DEF GroupInv
<1>7. ASSUME AtWork(g), Midway(g), NEW f \in 1..(worker.item - 1), OneYet(g, f), worker.found = f,
             f \in 1..Len(Complex(g)), h = JobTo("level", <<g, f>>, None),
             Tail(worker.jobs) = RecordJob(g, f)
      PROVE  GroupInv(g)'
  <2>1. h.about[1] = g /\ h.about[2] = f
    BY <1>7 DEF JobTo
  <2>2. last_level'[g] = Level(g, f)
    BY <1>1, <1>4, <2>1
  <2>3. OneYet(g, f)'
    BY <1>1, <1>2, <1>7, <2>2 DEF OneYet
  <2>4. Midway(g)'
    BY <1>2, <1>7, <2>3 DEF Midway
  <2> QED
    BY <1>3, <1>7, <2>4 DEF GroupInv
<1>8. h \notin PlainJobs /\ \A about : h # JobTo("record", about, None)
  BY <1>1 DEF JobTo, PlainJobs
<1> QED
  BY <1>1, <1>5, <1>6, <1>7, <1>8, HeadJob

\* The record of a group that has no more than one.
LEMMA RecordedAs ==
    ASSUME EventIInv, NEW g \in DOMAIN Group, NEW k
    PROVE  Recorded(g, k) = (IF Stops(g, k) THEN 0 ELSE 1)
<1>1. open[g] \in {0, 1}
  BY DEF EventIInv, EventTypeOK, OneOpenRecord, Owners
<1> QED
  BY <1>1 DEF Recorded

LEMMA SaveRecordGroup ==
    ASSUME EventIInv, NEW g \in DOMAIN Group, GroupInv(g), SaveRecord
    PROVE  GroupInv(g)'
<1> DEFINE h == Head(worker.jobs)
<1>1. /\ worker.jobs # <<>> /\ h.do = "record" /\ h \in JobSet
      /\ open' = [open EXCEPT ![h.about[1]] = Recorded(h.about[1], h.about[2])]
      /\ last_level' = last_level /\ active' = active
      /\ worker' = [worker EXCEPT !.jobs = Tail(@)]
  <2>1. h \in JobSet
    BY NextJob DEF EventIInv, SaveRecord, Job, JobDone
  <2> QED
    BY <2>1 DEF SaveRecord, Job, JobDone, Subject
<1>2. /\ worker'.jobs = Tail(worker.jobs) /\ worker'.turn = worker.turn
      /\ worker'.item = worker.item /\ worker'.any = worker.any /\ worker'.found = worker.found
  BY <1>1 DEF EventIInv, WorkerInv
<1>3. AtWork(g)' <=> AtWork(g)
  BY <1>2 DEF AtWork, Turn
<1>4. open \in [Owners -> Nat] /\ g \in Owners
  BY DEF EventIInv, EventTypeOK, Owners
<1>5. CASE /\ ~AtWork(g) /\ Following(g) /\ h \in OtherJobs(g)
           /\ Tail(worker.jobs) \in Seq(OtherJobs(g))
  <2>1. h.about[1] # g
    BY <1>1, <1>5 DEF OtherJobs
  <2>2. open'[g] = open[g]
    BY <1>1, <1>4, <2>1
  <2>3. Following(g)'
    BY <1>1, <1>2, <1>5, <2>2 DEF Following, IsFirst, Follows
  <2> QED
    BY <1>3, <1>5, <2>3 DEF GroupInv
<1>6. CASE /\ Returning(g) /\ ~AtWork(g) /\ h = JobTo("record", <<g, 0>>, None)
           /\ last_level[g] = -1 /\ Tail(worker.jobs) = <<>>
  <2>1. h.about[1] = g /\ h.about[2] = 0
    BY <1>6 DEF JobTo
  <2>2. Follows(g, 0)'
    BY <1>1, <1>4, <1>6, <2>1, RecordedAs DEF Follows, Level
  <2>3. IsFirst(g, 0)' /\ 0 \in 0..Len(Complex(g))
    <3>1. IsFirst(g, 0)'
      BY <1>1, <1>6 DEF Returning, IsFirst
    <3> QED
      BY <3>1, EventAssumption
  <2>4. worker'.jobs \in Seq(OtherJobs(g))
    BY <1>2, <1>6, EmptySeq
  <2>5. Following(g)'
    BY <2>2, <2>3, <2>4 DEF Following
  <2> QED
    BY <1>3, <1>6, <2>5 DEF GroupInv
<1>7. ASSUME AtWork(g), Midway(g), NEW f \in 1..(worker.item - 1), OneYet(g, f), worker.found = f,
             f \in 1..Len(Complex(g)), h = JobTo("record", <<g, f>>, None),
             Tail(worker.jobs) = <<>>, last_level[g] = Level(g, f)
      PROVE  GroupInv(g)'
  <2>1. h.about[1] = g /\ h.about[2] = f
    BY <1>7 DEF JobTo
  <2>2. Follows(g, f)'
    BY <1>1, <1>4, <1>7, <2>1, RecordedAs DEF Follows
  <2>3. OneYet(g, f)'
    BY <1>1, <1>2, <1>7, <2>2 DEF OneYet
  <2>4. Midway(g)'
    BY <1>2, <1>7, <2>3 DEF Midway
  <2> QED
    BY <1>3, <1>7, <2>4 DEF GroupInv
<1>8. h \notin PlainJobs /\ \A about : h # JobTo("level", about, None)
  BY <1>1 DEF JobTo, PlainJobs
<1> QED
  BY <1>1, <1>5, <1>6, <1>7, <1>8, HeadJob

\* The next complex event of the group is checked.
LEMMA CheckItemGroup ==
    ASSUME LevelsDiffer, EventIInv, NEW g \in DOMAIN Group, GroupInv(g), CheckItem(g),
           worker.item = 1 => worker.found = 0 /\ ~worker.any
    PROVE  GroupInv(g)'
<1>0. PICK k \in Nat : k = worker.item
  BY DEF EventIInv, WorkerInv
<1> DEFINE found == IF Found(g, k) THEN k ELSE worker.found
           jobs == IF Found(g, k) THEN LevelJob(g, k) \o RecordJob(g, k) ELSE <<>>
<1>1. /\ Turn = g /\ worker.jobs = <<>> /\ k <= Len(Complex(g))
      /\ active' = [active EXCEPT ![<<g, k>>] = IsValid(g, k)]
      /\ open' = open /\ last_level' = last_level
      /\ worker' = [worker EXCEPT !.item = k + 1, !.any = @ \/ IsValid(g, k),
                                  !.found = found, !.jobs = jobs]
  BY <1>0 DEF CheckItem
<1>2. /\ k \in 1..Len(Complex(g)) /\ k \in 0..Len(Complex(g)) /\ k \in Nat
      /\ Len(Complex(g)) \in Nat /\ k = worker.item
  BY <1>0, <1>1, EventAssumption DEF EventIInv, WorkerInv
<1>3. /\ worker'.turn = worker.turn /\ worker'.item = k + 1 /\ worker'.found = found
      /\ worker'.any = (worker.any \/ IsValid(g, k)) /\ worker'.jobs = jobs
  BY <1>1 DEF EventIInv, WorkerInv
<1>4. IsValid(g, k) \in BOOLEAN /\ worker.any \in BOOLEAN /\ worker.found \in Nat
  BY DEF IsValid, EventIInv, WorkerInv
<1>5. /\ active'[<<g, k>>] = IsValid(g, k)
      /\ \A l \in 1..Len(Complex(g)) : l # k => active'[<<g, l>>] = active[<<g, l>>]
  <2>1. \A l \in 1..Len(Complex(g)) : <<g, l>> \in ComplexKeys
    BY DEF ComplexKeys
  <2>2. active \in [ComplexKeys -> BOOLEAN]
    BY DEF EventIInv, EventTypeOK
  <2> QED
    BY <1>1, <1>2, <2>1, <2>2
<1>6. AtWork(g)' /\ k + 1 <= Len(Complex(g)) + 1
  BY <1>1, <1>2, <1>3 DEF AtWork, Turn
<1>7. \A l : Follows(g, l)' <=> Follows(g, l)
  BY <1>1 DEF Follows
<1>8. (k + 1) - 1 = k /\ \A l \in 1..k : l = k \/ l \in 1..(k - 1)
  BY <1>2
<1>9. \/ NoneYet(g)
      \/ \E f \in 1..(k - 1) : /\ active[<<g, f>>] /\ \A l \in 1..(f - 1) : ~active[<<g, l>>]
                               /\ worker.any /\ worker.found \in {0, f} /\ Follows(g, f)
  <2>1. CASE k > 1
    <3>1. Midway(g)
      BY <1>1, <1>2, <2>1 DEF GroupInv, AtWork
    <3>2. ASSUME NEW f \in 1..(k - 1), OneYet(g, f)
          PROVE  /\ active[<<g, f>>] /\ \A l \in 1..(f - 1) : ~active[<<g, l>>]
                 /\ worker.any /\ worker.found \in {0, f} /\ Follows(g, f)
      <4>1. f \in 0..Len(Complex(g))
        BY <1>2
      <4>2. LevelJob(g, f) \o RecordJob(g, f) # <<>> /\ RecordJob(g, f) # <<>>
        BY <4>1, LevelFirst, RecordFirst
      <4> QED
        BY <1>1, <3>2, <4>2 DEF OneYet
    <3> QED
      BY <1>2, <3>1, <3>2 DEF Midway
  <2>2. CASE k = 1
    <3>1. Following(g)
      BY <1>1, <1>2, <2>2, ReturningBusy DEF GroupInv, AtWork
    <3> QED
      BY <1>1, <1>2, <2>2, <3>1 DEF Following, NoneYet
  <2> QED
    BY <1>2, <2>1, <2>2
<1>10. CASE NoneYet(g)
  <2>1. PICK p \in 0..Len(Complex(g)) : Follows(g, p)
    BY <1>10 DEF NoneYet
  <2>2. \A l \in 1..(k - 1) : ~active'[<<g, l>>]
    BY <1>2, <1>5, <1>10 DEF NoneYet
  <2>3. CASE ~IsValid(g, k)
    <3>1. ~Found(g, k)
      BY <2>3 DEF Found
    <3>2. NoneYet(g)'
      <4>1. \A l \in 1..(worker'.item - 1) : ~active'[<<g, l>>]
        BY <1>3, <1>5, <1>8, <2>2, <2>3
      <4> QED
        BY <1>3, <1>7, <1>10, <2>1, <2>3, <3>1, <4>1 DEF NoneYet
    <3> QED
      BY <1>3, <1>6, <3>2 DEF GroupInv, Midway
  <2>4. CASE IsValid(g, k)
    <3>1. active'[<<g, k>>] /\ worker'.any
      BY <1>3, <1>5, <2>4
    <3>2. CASE Found(g, k)
      <4>1. worker'.found = k /\ worker'.jobs = LevelJob(g, k) \o RecordJob(g, k)
        BY <1>3, <3>2
      <4>2. OneYet(g, k)'
        BY <2>2, <3>1, <4>1 DEF OneYet
      <4> QED
        BY <1>2, <1>3, <1>6, <1>8, <4>2 DEF GroupInv, Midway
    <3>3. CASE ~Found(g, k)
      <4>1. worker'.found = 0 /\ worker'.jobs = <<>>
        BY <1>3, <1>10, <3>3 DEF NoneYet
      <4>2. last_level[g] = Level(g, k)
        BY <1>2, <1>10, <2>4, <3>3 DEF Found, NoneYet, Level
      <4>3. p = k
        BY <1>2, <2>1, <4>2 DEF Follows, LevelsDiffer
      <4>4. Follows(g, k)'
        BY <1>7, <2>1, <4>3
      <4>5. OneYet(g, k)'
        BY <2>2, <3>1, <4>1, <4>4 DEF OneYet
      <4> QED
        BY <1>2, <1>3, <1>6, <1>8, <4>5 DEF GroupInv, Midway
    <3> QED
      BY <3>2, <3>3
  <2> QED
    BY <2>3, <2>4
<1>11. ASSUME NEW f \in 1..(k - 1), active[<<g, f>>], \A l \in 1..(f - 1) : ~active[<<g, l>>],
              worker.any, worker.found \in {0, f}, Follows(g, f)
       PROVE  GroupInv(g)'
  <2>1. ~Found(g, k)
    BY <1>11 DEF Found
  <2>2. worker'.found = worker.found /\ worker'.jobs = <<>> /\ worker'.any
    BY <1>3, <1>11, <2>1
  <2>3. f \in 1..Len(Complex(g)) /\ f # k /\ \A l \in 1..(f - 1) : l \in 1..Len(Complex(g)) /\ l # k
    BY <1>2
  <2>4. OneYet(g, f)'
    BY <1>5, <1>7, <1>11, <2>2, <2>3 DEF OneYet
  <2>5. f \in 1..((k + 1) - 1)
    BY <1>2
  <2> QED
    BY <1>3, <1>6, <2>4, <2>5 DEF GroupInv, Midway
<1> QED
  BY <1>9, <1>10, <1>11

\* The check of a group leaves the others alone.
LEMMA CheckItemOther ==
    ASSUME EventIInv, NEW g \in DOMAIN Group, NEW h \in DOMAIN Group, h # g,
           GroupInv(h), CheckItem(g)
    PROVE  GroupInv(h)'
<1> DEFINE k == worker.item
           jobs == IF Found(g, k) THEN LevelJob(g, k) \o RecordJob(g, k) ELSE <<>>
<1>1. /\ Turn = g /\ worker.jobs = <<>> /\ k \in 1..Len(Complex(g)) /\ k \in 0..Len(Complex(g))
      /\ active' = [active EXCEPT ![<<g, k>>] = IsValid(g, k)]
      /\ open' = open /\ last_level' = last_level
      /\ worker'.turn = worker.turn /\ worker'.jobs = jobs
  BY EventAssumption DEF CheckItem, EventIInv, WorkerInv
<1>2. ~AtWork(h) /\ ~AtWork(h)'
  BY <1>1 DEF AtWork, Turn
<1>3. Following(h)
  BY <1>1, <1>2, ReturningBusy DEF GroupInv
<1>4. \A l \in 1..Len(Complex(h)) : active'[<<h, l>>] = active[<<h, l>>]
  <2>1. \A l \in 1..Len(Complex(h)) : <<h, l>> \in ComplexKeys /\ <<h, l>> # <<g, k>>
    BY DEF ComplexKeys
  <2>2. active \in [ComplexKeys -> BOOLEAN]
    BY DEF EventIInv, EventTypeOK
  <2> HIDE DEF k
  <2> QED
    BY <1>1, <2>1, <2>2
<1>5. jobs \in Seq(OtherJobs(h))
  <2>1. /\ JobTo("level", <<g, k>>, None) \in OtherJobs(h)
        /\ JobTo("record", <<g, k>>, None) \in OtherJobs(h)
    BY <1>1, GroupJob DEF OtherJobs, JobTo
  <2>2. LevelJob(g, k) \in Seq(OtherJobs(h)) /\ RecordJob(g, k) \in Seq(OtherJobs(h))
    BY <2>1 DEF LevelJob, RecordJob
  <2> QED
    BY <2>2, ConcatProperties, EmptySeq
<1>6. Following(h)'
  <2>1. PICK p \in 0..Len(Complex(h)) : IsFirst(h, p) /\ Follows(h, p)
    BY <1>3 DEF Following
  <2>2. IsFirst(h, p)'
    <3>1. p > 0 => p \in 1..Len(Complex(h))
      OBVIOUS
    <3> QED
      BY <1>4, <2>1, <3>1 DEF IsFirst
  <2>3. Follows(h, p)'
    BY <1>1, <2>1 DEF Follows
  <2> QED
    BY <1>1, <1>5, <2>2, <2>3 DEF Following
<1> QED
  BY <1>2, <1>6 DEF GroupInv

\* A turn that ends: the next begins with nothing found.
LEMMA TurnOver ==
    ASSUME NEW jobs, worker' = [NextTurn EXCEPT !.jobs = jobs]
    PROVE  worker'.item = 1 /\ worker'.found = 0 /\ ~worker'.any /\ worker'.jobs = jobs
BY DEF NextTurn, Start

LEMMA IdleTurnOver ==
    ASSUME worker' = NextTurn \/ worker' = Start
    PROVE  worker'.item = 1 /\ worker'.found = 0 /\ ~worker'.any /\ worker'.jobs = <<>>
BY DEF NextTurn, Start

\* The last complex event of the group has been checked.
LEMMA EndItemsGroup ==
    ASSUME LevelsDiffer, EventIInv, NEW g \in DOMAIN Group, GroupInv(g), EndItems(g),
           worker.item = 1 => worker.found = 0 /\ ~worker.any
    PROVE  GroupInv(g)'
<1> DEFINE jobs == IF worker.found > 0 THEN FoundJobs(g, worker.found)
                   ELSE IF ~worker.any /\ last_level[g] # -1 THEN DefaultJobs(g)
                   ELSE <<>>
<1>1. /\ Turn = g /\ worker.jobs = <<>> /\ worker.item > Len(Complex(g))
      /\ worker' = [NextTurn EXCEPT !.jobs = jobs]
      /\ open' = open /\ last_level' = last_level /\ active' = active
  BY DEF EndItems, EndTurn, records
<1>2. worker'.item = 1 /\ worker'.jobs = jobs
  <2> HIDE DEF jobs
  <2> QED
    BY <1>1, TurnOver
<1>3. ~AtWork(g)'
  BY <1>2 DEF AtWork
<1>4. /\ Len(Complex(g)) \in Nat /\ worker.item \in Nat \ {0} /\ worker.found \in Nat
      /\ 0 \in 0..Len(Complex(g))
  BY EventAssumption DEF EventIInv, WorkerInv
<1>5. ASSUME NEW f \in 0..Len(Complex(g)), IsFirst(g, f), Follows(g, f), jobs \in Seq(OtherJobs(g))
      PROVE  GroupInv(g)'
  <2>1. IsFirst(g, f)' /\ Follows(g, f)'
    BY <1>1, <1>5 DEF IsFirst, Follows
  <2>2. Following(g)'
    BY <1>2, <1>5, <2>1 DEF Following
  <2> QED
    BY <1>3, <2>2 DEF GroupInv
<1>6. <<>> \in Seq(OtherJobs(g))
  BY EmptySeq
<1>7. ASSUME IsFirst(g, 0), worker.found = 0, ~worker.any,
             NEW p \in 0..Len(Complex(g)), Follows(g, p)
      PROVE  GroupInv(g)'
  <2>1. CASE last_level[g] = -1
    <3>1. p = 0
      BY <1>4, <1>7, <2>1 DEF Follows, LevelsDiffer, Level
    <3>2. jobs = <<>>
      BY <1>7, <2>1
    <3> QED
      BY <1>5, <1>6, <1>7, <3>1, <3>2
  <2>2. CASE last_level[g] # -1
    <3>1. worker'.jobs = DefaultJobs(g)
      BY <1>2, <1>7, <2>2
    <3>2. IsFirst(g, 0)'
      BY <1>1, <1>7 DEF IsFirst
    <3>3. Returning(g)'
      BY <3>1, <3>2, DefaultJobsForm DEF Returning
    <3> QED
      BY <1>3, <3>3 DEF GroupInv
  <2> QED
    BY <2>1, <2>2
<1>8. CASE worker.item = 1
  <2>1. Following(g) /\ worker.found = 0 /\ ~worker.any /\ Len(Complex(g)) = 0
    BY <1>1, <1>4, <1>8, ReturningBusy DEF GroupInv, AtWork
  <2>2. IsFirst(g, 0)
    BY <2>1 DEF IsFirst
  <2> QED
    BY <1>7, <2>1, <2>2 DEF Following
<1>9. CASE worker.item > 1
  <2>1. Midway(g) /\ worker.item = Len(Complex(g)) + 1
    BY <1>1, <1>4, <1>9 DEF GroupInv, AtWork, Midway
  <2>2. worker.item - 1 = Len(Complex(g))
    BY <1>4, <2>1
  <2>3. CASE NoneYet(g)
    <3>1. IsFirst(g, 0)
      BY <2>2, <2>3 DEF NoneYet, IsFirst
    <3> QED
      BY <1>7, <2>3, <3>1 DEF NoneYet
  <2>4. ASSUME NEW f \in 1..(worker.item - 1), OneYet(g, f)
        PROVE  GroupInv(g)'
    <3>1. f \in 1..Len(Complex(g)) /\ f \in 0..Len(Complex(g)) /\ f > 0
      BY <2>2
    <3>2. LevelJob(g, f) \o RecordJob(g, f) # <<>> /\ RecordJob(g, f) # <<>>
      BY <3>1, LevelFirst, RecordFirst
    <3>3. /\ worker.any /\ worker.found \in {0, f} /\ Follows(g, f)
          /\ active[<<g, f>>] /\ \A l \in 1..(f - 1) : ~active[<<g, l>>]
      BY <1>1, <2>4, <3>2 DEF OneYet
    <3>4. IsFirst(g, f)
      <4>1. \A l \in 1..Len(Complex(g)) : f <= l \/ l \in 1..(f - 1)
        BY <1>4, <3>1
      <4> QED
        BY <3>1, <3>3, <4>1 DEF IsFirst
    <3>5. jobs \in Seq(OtherJobs(g))
      <4>1. CASE worker.found = f
        <5>1. jobs = FoundJobs(g, f)
          BY <3>1, <4>1
        <5> QED
          BY <3>1, <5>1, FoundJobsPlain, PlainIsOther
      <4>2. CASE worker.found = 0
        BY <1>6, <3>3, <4>2
      <4> QED
        BY <3>3, <4>1, <4>2
    <3> QED
      BY <1>5, <3>1, <3>3, <3>4, <3>5
  <2> QED
    BY <2>1, <2>3, <2>4 DEF Midway
<1> QED
  BY <1>4, <1>8, <1>9

\* The jobs of a check are about the group or event that was checked.
LEMMA EndItemsOther ==
    ASSUME EventIInv, NEW g \in DOMAIN Group, NEW h \in DOMAIN Group, h # g,
           GroupInv(h), EndItems(g)
    PROVE  GroupInv(h)'
<1> DEFINE jobs == IF worker.found > 0 THEN FoundJobs(g, worker.found)
                   ELSE IF ~worker.any /\ last_level[g] # -1 THEN DefaultJobs(g)
                   ELSE <<>>
<1>1. /\ Turn = g /\ worker.jobs = <<>>
      /\ worker' = [NextTurn EXCEPT !.jobs = jobs]
      /\ open' = open /\ last_level' = last_level /\ active' = active
  BY DEF EndItems, EndTurn, records
<1>2. worker'.item = 1 /\ worker'.jobs = jobs
  <2> HIDE DEF jobs
  <2> QED
    BY <1>1, TurnOver
<1>3. ~AtWork(h)
  BY <1>1 DEF AtWork
<1>4. FoundJobs(g, worker.found) \in Seq(OtherJobs(h)) \/ ~(worker.found > 0)
  <2>1. worker.found > 0 => worker.found \in 1..Len(Complex(g))
    BY <1>1, EventAssumption DEF EventIInv, WorkerInv
  <2> QED
    BY <2>1, FoundJobsPlain, PlainIsOther
<1>5. DefaultJobs(g) \in Seq(OtherJobs(h))
  <2>1. PICK s \in Seq(PlainJobs) : DefaultJobs(g) = LevelJob(g, 0) \o (s \o RecordJob(g, 0))
    BY DefaultJobsForm
  <2>2. /\ JobTo("level", <<g, 0>>, None) \in OtherJobs(h)
        /\ JobTo("record", <<g, 0>>, None) \in OtherJobs(h)
    <3>1. 0 \in 0..Len(Complex(g))
      BY EventAssumption
    <3> QED
      BY <3>1, GroupJob DEF OtherJobs, JobTo
  <2>3. /\ LevelJob(g, 0) \in Seq(OtherJobs(h)) /\ RecordJob(g, 0) \in Seq(OtherJobs(h))
        /\ s \in Seq(OtherJobs(h))
    BY <2>2, PlainIsOther DEF LevelJob, RecordJob
  <2> QED
    BY <2>1, <2>3, ConcatProperties
<1>6. jobs \in Seq(OtherJobs(h))
  BY <1>4, <1>5, EmptySeq
<1> HIDE DEF jobs
<1> QED
  BY <1>1, <1>2, <1>3, <1>6, GroupWaits

LEMMA FollowInit == Init => FollowInv
<1> SUFFICES ASSUME Init, NEW g \in DOMAIN Group PROVE GroupInv(g)
  BY DEF FollowInv, Init, Start
<1>1. worker.item = 1 /\ worker.found = 0 /\ ~worker.any /\ worker.jobs = <<>>
  BY DEF Init, Start
<1>2. Len(Complex(g)) \in Nat
  BY EventAssumption
<1>3. \A l \in 1..Len(Complex(g)) : ~active[<<g, l>>]
  <2>1. \A l \in 1..Len(Complex(g)) : <<g, l>> \in ComplexKeys
    BY DEF ComplexKeys
  <2> QED
    BY <2>1 DEF Init
<1>4. IsFirst(g, 0)
  BY <1>3 DEF IsFirst
<1>5. Follows(g, 0)
  BY DEF Init, Follows, Level, Stops, Owners
<1>6. Following(g)
  BY <1>1, <1>2, <1>4, <1>5, EmptySeq DEF Following
<1> QED
  BY <1>1, <1>6 DEF GroupInv, AtWork

LEMMA FollowStep ==
    ASSUME LevelsDiffer, EventIInv, FollowInv, [Next]_vars
    PROVE  FollowInv'
<1>0. kills \in Nat /\ worker.item \in Nat \ {0}
  BY EventAssumption DEF EventIInv, EventTypeOK, WorkerInv
\* A step of the jobs, or one that leaves the worker alone.
<1>1. ASSUME worker'.item = worker.item, worker'.found = worker.found, worker'.any = worker.any,
             kills' = kills, \A g \in DOMAIN Group : GroupInv(g) => GroupInv(g)'
      PROVE  FollowInv'
  BY <1>1 DEF FollowInv
\* A step that ends a check.
<1>2. ASSUME worker'.item = 1, worker'.found = 0, ~worker'.any, kills' = kills,
             \A g \in DOMAIN Group : GroupInv(g) => GroupInv(g)'
      PROVE  FollowInv'
  BY <1>2 DEF FollowInv
<1>3. ASSUME UNCHANGED <<worker, active, last_level, kills>>,
             \A g \in DOMAIN Group : open'[g] = open[g]
      PROVE  FollowInv'
  <2>1. \A g \in DOMAIN Group : GroupInv(g) => GroupInv(g)'
    BY <1>3, GroupKept
  <2> QED
    BY <1>1, <1>3, <2>1
<1>4. ASSUME NEW v \in Variables, Sample(v) \/ Expire(v) PROVE FollowInv'
  BY <1>3, <1>4 DEF Sample, Expire, records, history
<1>5. CASE MailProcess \/ KillMails \/ UNCHANGED vars
  BY <1>3, <1>5 DEF MailProcess, KillMails, vars, records, history
<1>6. CASE Kill
  <2>1. kills' = kills + 1 /\ worker' = Start
    BY <1>6 DEF Kill
  <2>2. kills' # 0
    BY <1>0, <2>1
  <2> QED
    BY <2>1, <2>2, IdleTurnOver DEF FollowInv
\* An event is checked: no group is at work.
<1>7. ASSUME NEW e \in DOMAIN Event, Turn = e PROVE \A g \in DOMAIN Group : ~AtWork(g)
  BY <1>7, EventAssumption DEF AtWork
<1>8. ASSUME NEW e \in DOMAIN Event, Stay(e) \/ Raise(e) PROVE FollowInv'
  <2>1. Turn = e /\ worker.jobs = <<>> /\ (worker' = NextTurn \/ worker' = Start)
        /\ UNCHANGED <<active, last_level, open, kills>>
    BY <1>8 DEF Stay, Raise, Known, records, history
  <2>2. ASSUME NEW g \in DOMAIN Group, GroupInv(g) PROVE GroupInv(g)'
    <3>1. worker'.item = 1 /\ worker'.jobs \in Seq(OtherJobs(g))
      BY <2>1, IdleTurnOver, EmptySeq
    <3> QED
      BY <1>7, <2>1, <2>2, <3>1, GroupWaits
  <2> QED
    BY <1>2, <2>1, <2>2, IdleTurnOver
<1>9. ASSUME NEW e \in DOMAIN Event, Change(e) PROVE FollowInv'
  <2> DEFINE x == value[Event[e].variable]
             on == LimitCheck(e, x, open[e] > 0)
             k == IF on THEN 1 ELSE 0
             jobs == IF Wants(e, on) THEN MailJobs(<<e, k>>, Event[e].mail_recipients) ELSE <<>>
  <2>1. /\ Turn = e /\ worker.jobs = <<>> /\ worker' = [NextTurn EXCEPT !.jobs = jobs]
        /\ UNCHANGED <<active, last_level, kills>>
    BY <1>9 DEF Change, Known
  <2>2. \A g \in DOMAIN Group : open'[g] = open[g]
    BY <1>9, EventAssumption DEF Change, EventIInv, EventTypeOK, Owners
  <2>3. jobs \in Seq(PlainJobs)
    <3>1. <<e, k>> \in Topics /\ Event[e].mail_recipients \in Seq(Recipients)
      BY EventTopic, EventAssumption
    <3> HIDE DEF k
    <3> QED
      BY <3>1, MailJobsPlain, EmptySeq
  <2> HIDE DEF jobs
  <2>4. worker'.item = 1 /\ worker'.found = 0 /\ ~worker'.any /\ worker'.jobs = jobs
    BY <2>1, TurnOver
  <2>5. ASSUME NEW g \in DOMAIN Group, GroupInv(g) PROVE GroupInv(g)'
    BY <1>7, <2>1, <2>2, <2>3, <2>4, <2>5, PlainIsOther, GroupWaits
  <2> QED
    BY <1>2, <2>1, <2>4, <2>5
<1>10. ASSUME NEW g \in DOMAIN Group, CheckItem(g) PROVE FollowInv'
  <2>1. kills' = kills /\ worker'.item = worker.item + 1
    BY <1>10 DEF CheckItem, history, EventIInv, WorkerInv
  <2>2. worker'.item # 1
    BY <1>0, <2>1
  <2>3. worker.item = 1 => worker.found = 0 /\ ~worker.any
    BY DEF FollowInv
  <2>4. \A h \in DOMAIN Group : GroupInv(h) => GroupInv(h)'
    BY <1>10, <2>3, CheckItemGroup, CheckItemOther
  <2> QED
    BY <2>1, <2>2, <2>4 DEF FollowInv
<1>11. ASSUME NEW g \in DOMAIN Group, EndItems(g) PROVE FollowInv'
  <2>1. worker.item = 1 => worker.found = 0 /\ ~worker.any
    BY DEF FollowInv
  <2>2. \A h \in DOMAIN Group : GroupInv(h) => GroupInv(h)'
    BY <1>11, <2>1, EndItemsGroup, EndItemsOther
  <2>3. PICK jobs : worker' = [NextTurn EXCEPT !.jobs = jobs]
    BY <1>11 DEF EndItems, EndTurn
  <2>4. worker'.item = 1 /\ worker'.found = 0 /\ ~worker'.any
    BY <2>3, TurnOver
  <2> QED
    BY <1>2, <1>11, <2>2, <2>4 DEF EndItems, history
<1>12. CASE SaveLevel \/ SaveRecord \/ HandOver \/ SetValue
  <2>1. /\ worker.jobs # <<>> /\ worker' = [worker EXCEPT !.jobs = Tail(@)] /\ kills' = kills
        /\ worker'.item = worker.item /\ worker'.found = worker.found /\ worker'.any = worker.any
    BY <1>12
    DEF SaveLevel, SaveRecord, HandOver, SetValue, Job, JobDone, history, EventIInv, WorkerInv
  <2>2. CASE SaveLevel
    BY <1>1, <2>1, <2>2, SaveLevelGroup
  <2>3. CASE SaveRecord
    BY <1>1, <2>1, <2>3, SaveRecordGroup
  <2>4. CASE HandOver \/ SetValue
    <3>1. /\ Head(worker.jobs).do \in {"mail", "set"}
          /\ active' = active /\ last_level' = last_level /\ open' = open
      BY <2>4 DEF HandOver, SetValue, Job, records
    <3>2. \A g \in DOMAIN Group : GroupInv(g) => GroupInv(g)'
      BY <2>1, <3>1, PlainJobDone
    <3> QED
      BY <1>1, <2>1, <3>2
  <2> QED
    BY <1>12, <2>2, <2>3, <2>4
<1> QED
  BY <1>4, <1>5, <1>6, <1>8, <1>9, <1>10, <1>11, <1>12 DEF Next, EventWork, Devices

\* The first complex event of a group that was valid, as it is chosen.
LEMMA FirstIs ==
    ASSUME NEW g \in DOMAIN Group, NEW k \in 0..Len(Complex(g)), IsFirst(g, k)
    PROVE  FirstActive(g) = k
<1> DEFINE valid == {l \in 1..Len(Complex(g)) : active[<<g, l>>]}
<1>1. Len(Complex(g)) \in Nat
  BY EventAssumption
<1>2. \A l \in valid : k > 0 /\ k <= l
  BY DEF IsFirst
<1>3. CASE k = 0
  <2>1. valid = {}
    BY <1>2, <1>3
  <2> QED
    BY <1>3, <2>1 DEF FirstActive
<1>4. CASE k # 0
  <2>1. k \in valid
    BY <1>1, <1>4 DEF IsFirst
  <2> DEFINE c == CHOOSE m \in valid : \A l \in valid : m <= l
  <2>2. c \in valid /\ \A l \in valid : c <= l
    BY <1>2, <2>1
  <2>3. c = k
    BY <1>1, <1>2, <2>1, <2>2
  <2>4. FirstActive(g) = c
    BY <2>1 DEF FirstActive
  <2> QED
    BY <2>3, <2>4
<1> QED
  BY <1>3, <1>4

\* While no process is killed, a group whose check is over is at the level of the first of
\* its complex events that was valid, and is recorded as that one says, whatever the values,
\* the limits and the other events and groups (ComplexEventGroup.do_event_check).
THEOREM GroupsFollow == ASSUME LevelsDiffer PROVE Spec => []GroupFollowsFirst
<1>1. EventIInv /\ FollowInv => GroupFollowsFirst
  <2> SUFFICES ASSUME EventIInv, FollowInv, NEW g \in DOMAIN Group, kills = 0, Settled(g)
               PROVE  /\ last_level[g] = Level(g, FirstActive(g))
                      /\ open[g] = (IF Stops(g, FirstActive(g)) THEN 0 ELSE 1)
    BY DEF GroupFollowsFirst
  <2>1. GroupInv(g)
    BY DEF FollowInv
  <2>2. ~AtWork(g)
    BY DEF Settled, AtWork
  <2>3. ~Returning(g)
    <3> SUFFICES ASSUME Returning(g) PROVE FALSE
      OBVIOUS
    <3>1. worker.jobs # <<>> /\ worker.jobs \in Seq(JobSet)
      BY ReturningBusy DEF EventIInv, WorkerInv
    <3>2. Len(worker.jobs) \in Nat \ {0}
      BY <3>1, EmptySeq
    <3> DEFINE last == worker.jobs[Len(worker.jobs)]
    <3>3. last = JobTo("record", <<g, 0>>, None)
      <4>1. PICK s \in Seq(PlainJobs) :
               \/ worker.jobs = LevelJob(g, 0) \o (s \o RecordJob(g, 0))
               \/ worker.jobs = s \o RecordJob(g, 0)
        BY DEF Returning
      <4>2. 0 \in 0..Len(Complex(g))
        BY EventAssumption
      <4>3. /\ RecordJob(g, 0) \in Seq(JobSet) /\ Len(RecordJob(g, 0)) = 1
            /\ RecordJob(g, 0)[1] = JobTo("record", <<g, 0>>, None)
            /\ LevelJob(g, 0) \in Seq(JobSet) /\ Len(LevelJob(g, 0)) = 1
        <5>1. /\ JobTo("record", <<g, 0>>, None) \in JobSet
              /\ JobTo("level", <<g, 0>>, None) \in JobSet
              /\ RecordJob(g, 0) = <<JobTo("record", <<g, 0>>, None)>>
              /\ LevelJob(g, 0) = <<JobTo("level", <<g, 0>>, None)>>
          BY <4>2, GroupJob
        <5> QED
          BY <5>1
      <4>4. s \in Seq(JobSet) /\ Len(s) \in Nat
        BY SeqMonotonic, LenProperties DEF PlainJobs
      <4> DEFINE q == s \o RecordJob(g, 0)
      <4>5. q \in Seq(JobSet) /\ Len(q) = Len(s) + 1 /\ q[Len(s) + 1] = RecordJob(g, 0)[1]
        <5> DEFINE r == RecordJob(g, 0)
        <5>1. r \in Seq(JobSet) /\ Len(r) = 1
          BY <4>3
        <5> HIDE DEF r
        <5>2. /\ s \o r \in Seq(JobSet) /\ Len(s \o r) = Len(s) + Len(r)
              /\ \A i \in 1..(Len(s) + Len(r)) :
                    (s \o r)[i] = IF i <= Len(s) THEN s[i] ELSE r[i - Len(s)]
          BY <4>4, <5>1, ConcatProperties
        <5>3. Len(s) + 1 \in 1..(Len(s) + Len(r)) /\ (Len(s) + 1) - Len(s) = 1
          BY <4>4, <5>1
        <5>4. (s \o r)[Len(s) + 1] = r[1]
          BY <4>4, <5>2, <5>3
        <5> QED
          BY <5>1, <5>2, <5>4 DEF r
      <4> HIDE DEF q
      <4>6. CASE worker.jobs = q
        BY <4>3, <4>5, <4>6
      <4>7. CASE worker.jobs = LevelJob(g, 0) \o q
        <5>1. Len(worker.jobs) = 1 + Len(q)
              /\ worker.jobs[1 + Len(q)] = q[Len(q)]
          <6> DEFINE b == LevelJob(g, 0)
          <6>1. b \in Seq(JobSet) /\ Len(b) = 1 /\ Len(q) \in Nat \ {0}
            BY <4>3, <4>4, <4>5
          <6> HIDE DEF b
          <6>2. /\ Len(b \o q) = Len(b) + Len(q)
                /\ \A i \in 1..(Len(b) + Len(q)) :
                      (b \o q)[i] = IF i <= Len(b) THEN b[i] ELSE q[i - Len(b)]
            BY <4>5, <6>1, ConcatProperties
          <6>3. /\ 1 + Len(q) \in 1..(Len(b) + Len(q)) /\ ~(1 + Len(q) <= Len(b))
                /\ (1 + Len(q)) - Len(b) = Len(q)
            BY <6>1
          <6> QED
            BY <4>7, <6>1, <6>2, <6>3 DEF b
        <5> QED
          BY <4>3, <4>5, <5>1
      <4> QED
        BY <4>1, <4>6, <4>7 DEF q
    <3>4. last.do # "set" /\ last.about[1] = g
      BY <3>3 DEF JobTo
    <3> QED
      BY <3>2, <3>4 DEF Settled
  <2>4. PICK k \in 0..Len(Complex(g)) : IsFirst(g, k) /\ Follows(g, k)
    BY <2>1, <2>2, <2>3 DEF GroupInv, Following
  <2> QED
    BY <2>4, FirstIs DEF Follows
<1>2. FollowInv /\ EventIInv /\ [Next]_vars => FollowInv'
  BY FollowStep
<1> QED
  BY <1>1, <1>2, FollowInit, EventInductive, PTL DEF Spec
----------------------------------------------------------------------------
(* The mails.                                                              *)

\* The actions of events are the four there are, and no recipient is named twice.
MailTo(o) == IF o \in DOMAIN Event THEN Event[o].mail_recipients ELSE Group[o].mail_recipients
MailSettings ==
    /\ \A e \in DOMAIN Event : Event[e].action \in 0..3
    /\ \A o \in Owners : \A i, j \in 1..Len(MailTo(o)) : MailTo(o)[i] = MailTo(o)[j] => i = j

Has(q, x) == \E i \in 1..Len(q) : q[i] = x
MailJob(t, r) == JobTo("mail", t, r)
ToSave(t) == JobTo("level", t, None)

\* A level is saved before anything else, and no mail is handed over twice.
Orderly(q) ==
    /\ \A i \in 1..Len(q) : q[i].do = "level" => i = 1
    /\ \A i, j \in 1..Len(q) : i # j /\ q[i].do = "mail" => q[i] # q[j]
NotMail == {j \in JobSet : j.do # "mail"}
NotLevel == {j \in JobSet : j.do # "level"}

\* Change t has a mail for r; t is the complex event the check under way has found.
Owed(t, r) == Promised(t[1], t[2]) /\ r \in RecipientsOf(t[1])
AtFound(t) == t[1] \in DOMAIN Group /\ Turn = t[1] /\ worker.found > 0 /\ worker.found = t[2]

FoundInv == worker.item = 1 => worker.found = 0
JobsInv ==
    /\ Orderly(worker.jobs)
    /\ worker.found > 0 => worker.jobs \in Seq(NotMail)
    /\ \A t \in Topics : \A r \in Recipients : Has(worker.jobs, MailJob(t, r)) => Owed(t, r)
    /\ \A t \in GroupTopics : Has(worker.jobs, ToSave(t)) =>
          \/ t[2] > 0 /\ AtFound(t)
          \/ /\ t[2] = 0
             /\ \A r \in RecipientsOf(t[1]) : Owed(t, r) => Has(worker.jobs, MailJob(t, r))

\* A mail of a change that is counted is still to be handed over.
Coming(t, r) ==
    /\ ~Has(worker.jobs, ToSave(t))
    /\ Has(worker.jobs, MailJob(t, r)) \/ (AtFound(t) /\ Owed(t, r))
Due(t, r) == IF Coming(t, r) THEN 1 ELSE 0
OwedSoFar(t) == IF Promised(t[1], t[2]) THEN changes[t] ELSE 0
Balanced(t, r) ==
    /\ OwedSoFar(t) - kills <= Posted(t, r) + Due(t, r)
    /\ Posted(t, r) + Due(t, r) <= OwedSoFar(t)
BalanceInv == \A t \in Topics : \A r \in RecipientsOf(t[1]) : Balanced(t, r)

LEMMA ConcatHas ==
    ASSUME NEW q \in Seq(JobSet), NEW p \in Seq(JobSet), NEW x
    PROVE  Has(q \o p, x) <=> Has(q, x) \/ Has(p, x)
<1> DEFINE c == q \o p
<1>1. /\ Len(c) = Len(q) + Len(p) /\ Len(q) \in Nat /\ Len(p) \in Nat
      /\ \A i \in 1..(Len(q) + Len(p)) : c[i] = IF i <= Len(q) THEN q[i] ELSE p[i - Len(q)]
  BY ConcatProperties, LenProperties
<1> HIDE DEF c
<1>2. ASSUME NEW i \in 1..Len(c), c[i] = x PROVE Has(q, x) \/ Has(p, x)
  <2>1. CASE i <= Len(q)
    BY <1>1, <1>2, <2>1 DEF Has
  <2>2. CASE ~(i <= Len(q))
    <3>1. i - Len(q) \in 1..Len(p) /\ p[i - Len(q)] = x
      BY <1>1, <1>2, <2>2
    <3> QED
      BY <3>1 DEF Has
  <2> QED
    BY <2>1, <2>2
<1>3. ASSUME NEW i \in 1..Len(q), q[i] = x PROVE Has(c, x)
  <2>1. i \in 1..Len(c) /\ c[i] = x
    BY <1>1, <1>3
  <2> QED
    BY <2>1 DEF Has
<1>4. ASSUME NEW i \in 1..Len(p), p[i] = x PROVE Has(c, x)
  <2>1. i + Len(q) \in 1..Len(c) /\ ~(i + Len(q) <= Len(q)) /\ (i + Len(q)) - Len(q) = i
    BY <1>1
  <2>2. c[i + Len(q)] = x
    BY <1>1, <1>4, <2>1
  <2> QED
    BY <2>1, <2>2 DEF Has
<1>5. Has(c, x) => Has(q, x) \/ Has(p, x)
  BY <1>2 DEF Has
<1>6. Has(q, x) \/ Has(p, x) => Has(c, x)
  BY <1>3, <1>4 DEF Has
<1> QED
  BY <1>5, <1>6 DEF c

LEMMA ConcatOrderly ==
    ASSUME NEW q \in Seq(JobSet), NEW p \in Seq(NotLevel), Orderly(q), Orderly(p),
           q \in Seq(NotMail) \/ p \in Seq(NotMail)
    PROVE  Orderly(q \o p)
<1> DEFINE c == q \o p
<1>0. p \in Seq(JobSet)
  BY SeqMonotonic DEF NotLevel
<1>1. /\ Len(c) = Len(q) + Len(p) /\ Len(q) \in Nat /\ Len(p) \in Nat
      /\ \A i \in 1..(Len(q) + Len(p)) : c[i] = IF i <= Len(q) THEN q[i] ELSE p[i - Len(q)]
  BY <1>0, ConcatProperties, LenProperties
<1> HIDE DEF c
<1>2. \A i \in 1..Len(c) : \/ i \in 1..Len(q) /\ c[i] = q[i]
                           \/ ~(i <= Len(q)) /\ i - Len(q) \in 1..Len(p) /\ c[i] = p[i - Len(q)]
  BY <1>1
<1>3. \A i \in 1..Len(p) : p[i].do # "level"
  BY ElementOfSeq DEF NotLevel
<1>4. \A i \in 1..Len(c) : c[i].do = "level" => i = 1
  BY <1>2, <1>3 DEF Orderly
<1>5. ASSUME NEW i \in 1..Len(c), NEW j \in 1..Len(c), i # j, c[i].do = "mail"
      PROVE  c[i] # c[j]
  <2>1. CASE i \in 1..Len(q) /\ j \in 1..Len(q) /\ c[i] = q[i] /\ c[j] = q[j]
    BY <1>5, <2>1 DEF Orderly
  <2>2. CASE /\ i - Len(q) \in 1..Len(p) /\ c[i] = p[i - Len(q)]
             /\ j - Len(q) \in 1..Len(p) /\ c[j] = p[j - Len(q)]
    <3>1. i - Len(q) # j - Len(q)
      BY <1>1, <1>5
    <3> QED
      BY <1>5, <2>2, <3>1 DEF Orderly
  <2>3. ASSUME NEW a \in 1..Len(q), NEW b \in 1..Len(p), q[a] = p[b] PROVE q[a].do # "mail"
    <3>1. CASE q \in Seq(NotMail)
      BY <3>1, ElementOfSeq DEF NotMail
    <3>2. CASE p \in Seq(NotMail)
      BY <2>3, <3>2, ElementOfSeq DEF NotMail
    <3> QED
      BY <3>1, <3>2
  <2> QED
    BY <1>2, <1>5, <2>1, <2>2, <2>3
<1> QED
  BY <1>4, <1>5 DEF Orderly, c

LEMMA TailHas ==
    ASSUME NEW q \in Seq(JobSet), q # <<>>, Orderly(q)
    PROVE  /\ Orderly(Tail(q)) /\ Has(q, Head(q))
           /\ Head(q).do \in {"level", "mail"} => ~Has(Tail(q), Head(q))
           /\ \A x : x # Head(q) => (Has(Tail(q), x) <=> Has(q, x))
           /\ \A x : x.do = "level" => ~Has(Tail(q), x)
           /\ \A x : x.do = "level" /\ Has(q, x) => x = Head(q)
<1>1. /\ Len(q) \in Nat \ {0} /\ Head(q) = q[1] /\ Len(Tail(q)) = Len(q) - 1
      /\ \A i \in 1..Len(Tail(q)) : Tail(q)[i] = q[i + 1]
  BY EmptySeq, HeadTailProperties
<1>2. \A i \in 1..Len(Tail(q)) : i + 1 \in 1..Len(q) /\ i + 1 # 1
  BY <1>1
<1>3. 1 \in 1..Len(q) /\ Has(q, Head(q))
  BY <1>1 DEF Has
<1>4. \A i \in 1..Len(Tail(q)) : Tail(q)[i].do # "level"
  BY <1>1, <1>2 DEF Orderly
<1>5. Orderly(Tail(q))
  <2>1. ASSUME NEW i \in 1..Len(Tail(q)), NEW j \in 1..Len(Tail(q)), i # j, Tail(q)[i].do = "mail"
        PROVE  Tail(q)[i] # Tail(q)[j]
    <3>1. i + 1 # j + 1
      BY <1>1, <2>1
    <3> QED
      BY <1>1, <1>2, <2>1, <3>1 DEF Orderly
  <2> QED
    BY <1>4, <2>1 DEF Orderly
<1>6. \A x : x.do = "level" => ~Has(Tail(q), x)
  BY <1>4 DEF Has
<1>7. ASSUME Head(q).do = "mail", Has(Tail(q), Head(q)) PROVE FALSE
  <2>1. PICK i \in 1..Len(Tail(q)) : Tail(q)[i] = Head(q)
    BY <1>7 DEF Has
  <2>2. q[i + 1] = q[1] /\ i + 1 \in 1..Len(q) /\ i + 1 # 1
    BY <1>1, <1>2, <2>1
  <2> QED
    BY <1>1, <1>3, <1>7, <2>2 DEF Orderly
<1>8. ASSUME NEW x, x # Head(q) PROVE Has(Tail(q), x) <=> Has(q, x)
  <2>1. Has(Tail(q), x) => Has(q, x)
    BY <1>1, <1>2 DEF Has
  <2>2. ASSUME NEW i \in 1..Len(q), q[i] = x PROVE Has(Tail(q), x)
    <3>1. i # 1
      BY <1>1, <1>8, <2>2
    <3>2. i - 1 \in 1..Len(Tail(q)) /\ (i - 1) + 1 = i
      BY <1>1, <3>1
    <3>3. Tail(q)[i - 1] = x
      BY <1>1, <2>2, <3>2
    <3> QED
      BY <3>2, <3>3 DEF Has
  <2> QED
    BY <2>1, <2>2 DEF Has
<1>9. ASSUME NEW x, x.do = "level", Has(q, x) PROVE x = Head(q)
  BY <1>6, <1>8, <1>9
<1> QED
  BY <1>3, <1>5, <1>6, <1>7, <1>8, <1>9

LEMMA OneJob ==
    ASSUME NEW j \in JobSet
    PROVE  /\ <<j>> \in Seq(JobSet) /\ Orderly(<<j>>) /\ \A x : Has(<<j>>, x) <=> x = j
           /\ j.do # "mail" => <<j>> \in Seq(NotMail)
           /\ j.do # "level" => <<j>> \in Seq(NotLevel)
<1>1. Len(<<j>>) = 1 /\ <<j>>[1] = j /\ <<j>> \in Seq(JobSet)
  OBVIOUS
<1>2. \A i \in 1..1 : i = 1
  OBVIOUS
<1>3. Orderly(<<j>>) /\ \A x : Has(<<j>>, x) <=> x = j
  BY <1>1, <1>2 DEF Orderly, Has
<1>4. j.do # "mail" => <<j>> \in Seq(NotMail)
  BY DEF NotMail
<1>5. j.do # "level" => <<j>> \in Seq(NotLevel)
  BY DEF NotLevel
<1> QED
  BY <1>1, <1>3, <1>4, <1>5

LEMMA NoJob ==
    /\ Orderly(<<>>) /\ \A x : ~Has(<<>>, x)
    /\ <<>> \in Seq(JobSet) /\ <<>> \in Seq(NotMail) /\ <<>> \in Seq(NotLevel)
BY EmptySeq DEF Orderly, Has

LEMMA JobsDiffer ==
    ASSUME NEW t, NEW r, NEW u, NEW s
    PROVE  /\ MailJob(t, r) = MailJob(u, s) => t = u /\ r = s
           /\ ToSave(t) = ToSave(u) => t = u
           /\ MailJob(t, r) # ToSave(u)
           /\ MailJob(t, r).do = "mail" /\ ToSave(t).do = "level"
BY DEF MailJob, ToSave, JobTo

LEMMA MailJobsHave ==
    ASSUME MailSettings, NEW o \in Owners, NEW t \in Topics
    PROVE  LET q == MailJobs(t, MailTo(o))
           IN  /\ q \in Seq(JobSet) /\ q \in Seq(NotLevel) /\ Orderly(q)
               /\ \A x : Has(q, x) <=> \E r \in RecipientsOf(o) : x = MailJob(t, r)
<1> DEFINE to == MailTo(o)
           q == MailJobs(t, to)
<1>1. to \in Seq(Recipients) /\ Len(to) \in Nat
  <2>1. to \in Seq(Recipients)
    BY EventAssumption DEF MailTo, Owners
  <2> QED
    BY <2>1, LenProperties
<1>2. RecipientsOf(o) = {to[i] : i \in 1..Len(to)}
  BY DEF RecipientsOf, MailTo
<1>3. \A i, j \in 1..Len(to) : to[i] = to[j] => i = j
  BY DEF MailSettings
<1> HIDE DEF to
<1>4. q = [i \in 1..Len(to) |-> MailJob(t, to[i])]
  BY DEF MailJobs, MailJob
<1>5. \A i \in 1..Len(to) : MailJob(t, to[i]) \in JobSet /\ MailJob(t, to[i]).do = "mail"
  BY <1>1, ElementOfSeq DEF MailJob, JobTo, JobSet
<1>6. q \in Seq(JobSet)
  BY <1>1, <1>4, <1>5
<1>7. Len(q) = Len(to) /\ \A i \in 1..Len(to) : q[i] = MailJob(t, to[i])
  BY <1>1, <1>4
<1> HIDE DEF q
<1>8. q \in Seq(NotLevel)
  <2>1. \A i \in 1..Len(to) : MailJob(t, to[i]) \in NotLevel
    BY <1>5 DEF NotLevel
  <2> QED
    BY <1>1, <1>4, <2>1
<1>9. Orderly(q)
  <2>1. ASSUME NEW i \in 1..Len(q), NEW j \in 1..Len(q), q[i] = q[j] PROVE i = j
    BY <1>3, <1>7, <2>1, JobsDiffer
  <2>2. \A i \in 1..Len(q) : q[i].do # "level"
    BY <1>5, <1>7
  <2> QED
    BY <2>1, <2>2 DEF Orderly
<1>10. ASSUME NEW x PROVE Has(q, x) <=> \E r \in RecipientsOf(o) : x = MailJob(t, r)
  BY <1>2, <1>7 DEF Has
<1> QED
  BY <1>6, <1>8, <1>9, <1>10 DEF q, to

LEMMA GroupMailsHave ==
    ASSUME MailSettings, NEW g \in DOMAIN Group, NEW k \in 0..Len(Complex(g))
    PROVE  LET q == GroupMails(g, k)
           IN  /\ q \in Seq(JobSet) /\ q \in Seq(NotLevel) /\ Orderly(q)
               /\ \A x : Has(q, x) <=> \E r \in RecipientsOf(g) : /\ x = MailJob(<<g, k>>, r)
                                                                  /\ Owed(<<g, k>>, r)
<1>1. g \notin DOMAIN Event /\ g \in Owners /\ MailTo(g) = Group[g].mail_recipients
  BY EventAssumption DEF Owners, MailTo
<1>2. k = 0 \/ k > 0
  BY EventAssumption
<1>3. Promised(g, k) <=> (IF k > 0 THEN Complex(g)[k].send_mail ELSE Group[g].default_send_mail)
  BY <1>1, <1>2 DEF Promised
<1>4. <<g, k>>[1] = g /\ <<g, k>>[2] = k /\ <<g, k>> \in Topics
  BY GroupTopic
<1>5. CASE Promised(g, k)
  <2>1. GroupMails(g, k) = MailJobs(<<g, k>>, MailTo(g))
    BY <1>1, <1>3, <1>5 DEF GroupMails
  <2>2. \A r \in RecipientsOf(g) : Owed(<<g, k>>, r)
    BY <1>4, <1>5 DEF Owed
  <2> QED
    BY <1>1, <1>4, <2>1, <2>2, MailJobsHave
<1>6. CASE ~Promised(g, k)
  <2>1. GroupMails(g, k) = <<>>
    BY <1>3, <1>6 DEF GroupMails
  <2>2. \A r : ~Owed(<<g, k>>, r)
    BY <1>4, <1>6 DEF Owed
  <2> QED
    BY <2>1, <2>2, NoJob
<1> QED
  BY <1>5, <1>6

\* The jobs that set a value.
LEMMA SettingHas ==
    ASSUME NEW s \in Seq({j \in JobSet : j.do = "set"})
    PROVE  /\ s \in Seq(JobSet) /\ s \in Seq(NotMail) /\ s \in Seq(NotLevel)
           /\ \A t, r : ~Has(s, MailJob(t, r)) /\ ~Has(s, ToSave(t))
<1>1. s \in Seq(JobSet)
  BY SeqMonotonic
<1>2. s \in Seq(NotMail)
  BY SeqMonotonic DEF NotMail
<1>3. s \in Seq(NotLevel)
  BY SeqMonotonic DEF NotLevel
<1>4. \A i \in 1..Len(s) : s[i].do = "set"
  BY ElementOfSeq
<1>5. \A t, r : ~Has(s, MailJob(t, r)) /\ ~Has(s, ToSave(t))
  BY <1>4 DEF Has, MailJob, ToSave, JobTo
<1> QED
  BY <1>1, <1>2, <1>3, <1>5

LEMMA SetJobsHave ==
    ASSUME NEW g \in DOMAIN Group, Group[g].variable_to_change \in Variables, NEW x \in Int
    PROVE  SetJobs(g, x) \in Seq({j \in JobSet : j.do = "set"}) /\ Orderly(SetJobs(g, x))
<1> DEFINE j == JobTo("set", Group[g].variable_to_change, x)
<1>1. j \in JobSet /\ j.do = "set"
  BY DEF JobTo, JobSet
<1> HIDE DEF j
<1>2. SetJobs(g, x) = <<j>>
  BY DEF SetJobs, j
<1> QED
  BY <1>1, <1>2, OneJob

LEMMA FoundJobsHave ==
    ASSUME MailSettings, NEW g \in DOMAIN Group, NEW k \in 1..Len(Complex(g))
    PROVE  LET q == FoundJobs(g, k)
           IN  /\ Orderly(q)
               /\ \A t, r : /\ Has(q, MailJob(t, r)) <=> t = <<g, k>> /\ Owed(<<g, k>>, r)
                            /\ ~Has(q, ToSave(t))
<1> DEFINE rest == IF Complex(g)[k].new_value # None /\ Group[g].variable_to_change # None
                   THEN SetJobs(g, Complex(g)[k].new_value) ELSE <<>>
           mails == GroupMails(g, k)
<1>1. rest \in Seq({j \in JobSet : j.do = "set"}) /\ Orderly(rest)
  <2>1. <<>> \in Seq({j \in JobSet : j.do = "set"}) /\ Orderly(<<>>)
    BY EmptySeq, NoJob
  <2>2. ASSUME Complex(g)[k].new_value # None /\ Group[g].variable_to_change # None
        PROVE  Complex(g)[k].new_value \in Int /\ Group[g].variable_to_change \in Variables
    BY <2>2, EventAssumption
  <2> QED
    BY <2>1, <2>2, SetJobsHave
<1>2. /\ mails \in Seq(JobSet) /\ mails \in Seq(NotLevel) /\ Orderly(mails)
      /\ \A x : Has(mails, x) <=> \E r \in RecipientsOf(g) : /\ x = MailJob(<<g, k>>, r)
                                                             /\ Owed(<<g, k>>, r)
  BY GroupMailsHave, EventAssumption
<1>3. FoundJobs(g, k) = mails \o rest
  BY DEF FoundJobs
<1> HIDE DEF rest, mails
<1>4. Orderly(mails \o rest)
  BY <1>1, <1>2, SettingHas, ConcatOrderly
<1>5. \A x : Has(mails \o rest, x) <=> Has(mails, x) \/ Has(rest, x)
  BY <1>1, <1>2, SettingHas, ConcatHas
<1>6. ASSUME NEW t, NEW r
      PROVE  Has(mails, MailJob(t, r)) <=> t = <<g, k>> /\ Owed(<<g, k>>, r)
  <2>1. Owed(<<g, k>>, r) => r \in RecipientsOf(g)
    BY DEF Owed
  <2> QED
    BY <1>2, <2>1, JobsDiffer
<1>7. ASSUME NEW t PROVE ~Has(mails, ToSave(t))
  <2>1. \A r : ToSave(t) # MailJob(<<g, k>>, r)
    BY JobsDiffer
  <2> QED
    BY <1>2, <2>1
<1> QED
  BY <1>1, <1>3, <1>4, <1>5, <1>6, <1>7, SettingHas

LEMMA DefaultJobsHave ==
    ASSUME MailSettings, NEW g \in DOMAIN Group
    PROVE  LET q == DefaultJobs(g)
           IN  /\ Orderly(q)
               /\ \A t, r : /\ Has(q, MailJob(t, r)) <=> t = <<g, 0>> /\ Owed(<<g, 0>>, r)
                            /\ Has(q, ToSave(t)) <=> t = <<g, 0>>
<1> DEFINE middle == IF Group[g].default_value \in {None, 0} THEN <<>>
                     ELSE SetJobs(g, Group[g].default_value)
           mails == GroupMails(g, 0)
           first == LevelJob(g, 0)
           last == RecordJob(g, 0)
<1>0. 0 \in 0..Len(Complex(g))
  BY EventAssumption
<1>1. middle \in Seq({j \in JobSet : j.do = "set"}) /\ Orderly(middle)
  <2>1. <<>> \in Seq({j \in JobSet : j.do = "set"}) /\ Orderly(<<>>)
    BY EmptySeq, NoJob
  <2>2. ASSUME Group[g].default_value \notin {None, 0}
        PROVE  Group[g].default_value \in Int /\ Group[g].variable_to_change \in Variables
    BY <2>2, EventAssumption, DefaultAssumption
  <2> QED
    BY <2>1, <2>2, SetJobsHave
<1>2. /\ mails \in Seq(JobSet) /\ mails \in Seq(NotLevel) /\ Orderly(mails)
      /\ \A x : Has(mails, x) <=> \E r \in RecipientsOf(g) : /\ x = MailJob(<<g, 0>>, r)
                                                             /\ Owed(<<g, 0>>, r)
  BY <1>0, GroupMailsHave
<1>3. /\ first \in Seq(JobSet) /\ first \in Seq(NotMail) /\ Orderly(first)
      /\ \A x : Has(first, x) <=> x = ToSave(<<g, 0>>)
  <2>1. ToSave(<<g, 0>>) \in JobSet /\ first = <<ToSave(<<g, 0>>)>> /\ ToSave(<<g, 0>>).do # "mail"
    BY <1>0, GroupJob, JobsDiffer DEF ToSave
  <2> QED
    BY <2>1, OneJob
<1>4. /\ last \in Seq(JobSet) /\ last \in Seq(NotMail) /\ last \in Seq(NotLevel) /\ Orderly(last)
      /\ \A t, r : ~Has(last, MailJob(t, r)) /\ ~Has(last, ToSave(t))
  <2> DEFINE j == JobTo("record", <<g, 0>>, None)
  <2>1. j \in JobSet /\ last = <<j>>
    BY <1>0, GroupJob
  <2>2. j.do # "mail" /\ j.do # "level" /\ \A t, r : MailJob(t, r) # j /\ ToSave(t) # j
    BY DEF MailJob, ToSave, JobTo
  <2> HIDE DEF j, last
  <2>3. \A x : Has(last, x) <=> x = j
    BY <2>1, OneJob
  <2> QED
    BY <2>1, <2>2, <2>3, OneJob
<1>5. DefaultJobs(g) = ((first \o middle) \o mails) \o last
  BY DEF DefaultJobs
<1>6. /\ middle \in Seq(JobSet) /\ middle \in Seq(NotMail) /\ middle \in Seq(NotLevel)
      /\ \A t, r : ~Has(middle, MailJob(t, r)) /\ ~Has(middle, ToSave(t))
  BY <1>1, SettingHas
<1> HIDE DEF middle, mails, first, last
<1> DEFINE a == first \o middle
           b == a \o mails
<1>7. a \in Seq(JobSet) /\ a \in Seq(NotMail) /\ Orderly(a)
      /\ \A x : Has(a, x) <=> Has(first, x) \/ Has(middle, x)
  BY <1>1, <1>3, <1>6, ConcatProperties, ConcatOrderly, ConcatHas
<1> HIDE DEF a
<1>8. b \in Seq(JobSet) /\ Orderly(b) /\ \A x : Has(b, x) <=> Has(a, x) \/ Has(mails, x)
  BY <1>2, <1>7, ConcatProperties, ConcatOrderly, ConcatHas
<1> HIDE DEF b
<1>9. Orderly(b \o last) /\ \A x : Has(b \o last, x) <=> Has(b, x) \/ Has(last, x)
  BY <1>4, <1>8, ConcatOrderly, ConcatHas
<1>10. ASSUME NEW t, NEW r
       PROVE  Has(mails, MailJob(t, r)) <=> t = <<g, 0>> /\ Owed(<<g, 0>>, r)
  <2>1. Owed(<<g, 0>>, r) => r \in RecipientsOf(g)
    BY DEF Owed
  <2> QED
    BY <1>2, <2>1, JobsDiffer
<1>11. ASSUME NEW t PROVE ~Has(mails, ToSave(t))
  BY <1>2, JobsDiffer
<1>12. DefaultJobs(g) = b \o last
  BY <1>5 DEF a, b
<1>13. \A t, r : Has(first, MailJob(t, r)) <=> FALSE
  BY <1>3, JobsDiffer
<1>14. \A t : Has(first, ToSave(t)) <=> t = <<g, 0>>
  BY <1>3, JobsDiffer
<1> QED
  BY <1>4, <1>6, <1>7, <1>8, <1>9, <1>10, <1>11, <1>12, <1>13, <1>14

LEMMA CheckJobsHave ==
    ASSUME NEW g \in DOMAIN Group, NEW k \in 0..Len(Complex(g))
    PROVE  LET q == LevelJob(g, k) \o RecordJob(g, k)
           IN  /\ Orderly(q) /\ q \in Seq(NotMail)
               /\ \A t, r : ~Has(q, MailJob(t, r)) /\ (Has(q, ToSave(t)) <=> t = <<g, k>>)
<1> DEFINE a == ToSave(<<g, k>>)
           b == JobTo("record", <<g, k>>, None)
<1>1. /\ a \in JobSet /\ b \in JobSet /\ LevelJob(g, k) = <<a>> /\ RecordJob(g, k) = <<b>>
      /\ a.do # "mail" /\ b.do # "mail" /\ b.do # "level"
  BY GroupJob DEF ToSave, JobTo
<1>2. \A t, r : /\ MailJob(t, r) # a /\ MailJob(t, r) # b /\ ToSave(t) # b
                /\ ToSave(t) = a <=> t = <<g, k>>
  BY DEF MailJob, ToSave, JobTo
<1> HIDE DEF a, b
<1>3. /\ <<a>> \in Seq(JobSet) /\ <<a>> \in Seq(NotMail) /\ Orderly(<<a>>)
      /\ <<b>> \in Seq(JobSet) /\ <<b>> \in Seq(NotMail) /\ <<b>> \in Seq(NotLevel)
      /\ Orderly(<<b>>)
      /\ \A x : (Has(<<a>>, x) <=> x = a) /\ (Has(<<b>>, x) <=> x = b)
  BY <1>1, OneJob
<1>4. /\ Orderly(<<a>> \o <<b>>) /\ <<a>> \o <<b>> \in Seq(NotMail)
      /\ \A x : Has(<<a>> \o <<b>>, x) <=> Has(<<a>>, x) \/ Has(<<b>>, x)
  BY <1>3, ConcatOrderly, ConcatProperties, ConcatHas
<1> QED
  BY <1>1, <1>2, <1>3, <1>4

\* Rows of the table of mails about a change, to a recipient.
LEMMA PostedKept ==
    ASSUME NEW t, NEW r, Len(mail') = Len(mail),
           \A i \in 1..Len(mail) : mail'[i].about = mail[i].about /\ mail'[i].to = mail[i].to
    PROVE  Posted(t, r)' = Posted(t, r)
<1>1. {i \in 1..Len(mail') : mail'[i].about = t /\ mail'[i].to = r}
      = {i \in 1..Len(mail) : mail[i].about = t /\ mail[i].to = r}
  OBVIOUS
<1> QED
  BY <1>1 DEF Posted

LEMMA PostedGrows ==
    ASSUME MailIInv, NEW t \in Subjects, NEW r \in Recipients, PostMail(t, r), NEW u, NEW s
    PROVE  /\ u = t /\ s = r => Posted(u, s)' = Posted(u, s) + 1
           /\ ~(u = t /\ s = r) => Posted(u, s)' = Posted(u, s)
<1> DEFINE n == Len(mail)
           old == {i \in 1..n : mail[i].about = u /\ mail[i].to = s}
           new == {i \in 1..Len(mail') : mail'[i].about = u /\ mail'[i].to = s}
<1>1. mail \in Seq(Mail) /\ NewMail(t, r) \in Mail /\ mail' = Append(mail, NewMail(t, r))
  BY MailAssumption DEF MailIInv, MailTypeOK, Mail, NewMail, PostMail
<1>2. /\ n \in Nat /\ Len(mail') = n + 1 /\ mail'[n + 1] = NewMail(t, r)
      /\ \A i \in 1..n : mail'[i] = mail[i]
  BY <1>1, AppendProperties
<1>3. mail'[n + 1].about = t /\ mail'[n + 1].to = r
  BY <1>2 DEF NewMail
<1>4. IsFiniteSet(old) /\ n + 1 \notin old
  <2>1. IsFiniteSet(1..n)
    BY <1>2, FS_Interval
  <2>2. old \subseteq 1..n
    OBVIOUS
  <2>3. IsFiniteSet(old)
    BY <2>1, <2>2, FS_Subset
  <2>4. n + 1 \notin 1..n
    BY <1>2
  <2> QED
    BY <2>2, <2>3, <2>4
<1>5. Posted(u, s) = Cardinality(old) /\ Posted(u, s)' = Cardinality(new)
  BY DEF Posted
<1>6. \A i : i \in 1..(n + 1) <=> i \in 1..n \/ i = n + 1
  BY <1>2
<1>7. CASE u = t /\ s = r
  <2>1. new = old \cup {n + 1}
    BY <1>2, <1>3, <1>6, <1>7
  <2>2. Cardinality(old \cup {n + 1}) = Cardinality(old) + 1
    BY <1>4, FS_AddElement
  <2> QED
    BY <1>5, <1>7, <2>1, <2>2
<1>8. CASE ~(u = t /\ s = r)
  <2>1. new = old
    BY <1>2, <1>3, <1>6, <1>8
  <2> QED
    BY <1>5, <1>8, <2>1
<1> QED
  BY <1>7, <1>8

LEMMA PostedIsNat ==
    ASSUME MailIInv, NEW t, NEW r
    PROVE  Posted(t, r) \in Nat
<1>1. Len(mail) \in Nat
  BY LenProperties DEF MailIInv, MailTypeOK
<1>2. IsFiniteSet(1..Len(mail))
  BY <1>1, FS_Interval
<1> DEFINE rows == {i \in 1..Len(mail) : mail[i].about = t /\ mail[i].to = r}
<1>3. IsFiniteSet(rows)
  <2>1. rows \subseteq 1..Len(mail)
    OBVIOUS
  <2> QED
    BY <1>2, <2>1, FS_Subset
<1>4. Posted(t, r) = Cardinality(rows)
  BY DEF Posted
<1> QED
  BY <1>3, <1>4, FS_CardinalityType

\* The mail process changes neither what a row is about nor to whom it goes.
LEMMA MailWorkKeeps ==
    ASSUME MailIInv, MailWork \/ KillSender \/ UNCHANGED mailVars, NEW t, NEW r
    PROVE  Posted(t, r)' = Posted(t, r)
<1>0. mail \in Seq(Mail) /\ Len(mail) \in Nat /\ \A i \in 1..Len(mail) : mail[i] \in Mail
  BY LenProperties, ElementOfSeq DEF MailIInv, MailTypeOK
<1>1. CASE mail' = mail
  BY <1>1, PostedKept
<1>2. ASSUME NEW i \in 1..Len(mail), NEW ok \in BOOLEAN, mail' = [mail EXCEPT ![i] = Handed(@, ok)]
      PROVE  Posted(t, r)' = Posted(t, r)
  <2>1. /\ Handed(mail[i], ok).about = mail[i].about /\ Handed(mail[i], ok).to = mail[i].to
        /\ Handed(mail[i], ok) \in Mail
    BY <1>0, HandedRow DEF Handed, Mail
  <2>2. Len(mail') = Len(mail) /\ \A j \in 1..Len(mail) :
           mail'[j] = IF j = i THEN Handed(mail[i], ok) ELSE mail[j]
    BY <1>0, <1>2, <2>1, ExceptSeq
  <2> QED
    BY <2>1, <2>2, PostedKept
<1>3. CASE SaveMail
  <2> DEFINE i == sender.row
             m == Outcome(mail[i], sender.ok)
  <2>1. i \in 1..Len(mail) /\ mail' = [mail EXCEPT ![i] = m] /\ mail[i] \in Mail
    BY <1>0, <1>3 DEF SaveMail, MailIInv, MailTypeOK
  <2>2. m.about = mail[i].about /\ m.to = mail[i].to
    BY <2>1 DEF Outcome, Mail
  <2>3. Len(mail') = Len(mail) /\ \A j \in 1..Len(mail) : mail'[j] = IF j = i THEN m ELSE mail[j]
    <3> HIDE DEF m, i
    <3> QED
      BY <1>0, <2>1
  <2> HIDE DEF m, i
  <2> QED
    BY <2>2, <2>3, PostedKept
<1>4. CASE DeleteMails
  <2>1. PICK old \in SUBSET OldMails :
           mail' = [i \in 1..Len(mail) |-> IF i \in old THEN [mail[i] EXCEPT !.deleted = TRUE]
                                           ELSE mail[i]]
    BY <1>4 DEF DeleteMails
  <2>2. Len(mail') = Len(mail)
    BY <1>0, <2>1
  <2>3. \A i \in 1..Len(mail) : mail'[i].about = mail[i].about /\ mail'[i].to = mail[i].to
    BY <1>0, <2>1 DEF Mail
  <2> QED
    BY <2>2, <2>3, PostedKept
<1>5. ASSUME NEW i \in 1..Len(mail), NEW ok \in BOOLEAN, DeliverMail(i, ok)
      PROVE  Posted(t, r)' = Posted(t, r)
  BY <1>2, <1>5 DEF DeliverMail
<1> QED
  BY <1>1, <1>3, <1>4, <1>5 DEF MailWork, BeginPass, KillSender, mailVars

LEMMA CountTypes ==
    ASSUME EventIInv, MailIInv, NEW t \in Topics, NEW r
    PROVE  /\ kills \in Nat /\ changes[t] \in Nat /\ Posted(t, r) \in Nat
           /\ OwedSoFar(t) \in Nat /\ Due(t, r) \in {0, 1} /\ changes \in [Topics -> Nat]
<1>1. kills \in Nat /\ changes \in [Topics -> Nat]
  BY EventAssumption DEF EventIInv, EventTypeOK
<1> QED
  BY <1>1, PostedIsNat DEF OwedSoFar, Due

LEMMA BalanceKept ==
    ASSUME NEW t \in Topics, NEW r, Balanced(t, r), Posted(t, r)' = Posted(t, r),
           changes'[t] = changes[t], kills' = kills, Coming(t, r)' <=> Coming(t, r)
    PROVE  Balanced(t, r)'
<1>1. Due(t, r)' = Due(t, r)
  BY DEF Due
<1>2. OwedSoFar(t)' = OwedSoFar(t)
  BY DEF OwedSoFar
<1> QED
  BY <1>1, <1>2 DEF Balanced

\* Recipients of mails.
LEMMA RecipientTypes ==
    ASSUME NEW t \in Topics
    PROVE  t[1] \in Owners /\ RecipientsOf(t[1]) \subseteq Recipients
<1>1. t[1] \in Owners
  BY DEF Topics, Owners
<1>2. MailTo(t[1]) \in Seq(Recipients)
  BY <1>1, EventAssumption DEF MailTo, Owners
<1>3. RecipientsOf(t[1]) = {MailTo(t[1])[i] : i \in 1..Len(MailTo(t[1]))}
  BY DEF RecipientsOf, MailTo
<1> HIDE DEF MailTo
<1> QED
  BY <1>1, <1>2, <1>3, ElementOfSeq

\* Nothing is coming while no job is left and nothing is found.
LEMMA NothingComing ==
    ASSUME worker.found = 0, worker.jobs = <<>>, NEW t, NEW r
    PROVE  ~Coming(t, r)
BY NoJob DEF Coming, AtFound

LEMMA IdleJobs ==
    ASSUME worker.found = 0, worker.jobs = <<>>
    PROVE  FoundInv /\ JobsInv
BY NoJob DEF FoundInv, JobsInv

\* The next job is taken: what is left of the jobs.
LEMMA TailJobs ==
    ASSUME EventIInv, FoundInv, JobsInv, worker.jobs # <<>>,
           worker' = [worker EXCEPT !.jobs = Tail(@)]
    PROVE  /\ FoundInv' /\ JobsInv' /\ Head(worker.jobs) \in JobSet
           /\ \A t : AtFound(t)' <=> AtFound(t)
           /\ \A t : Has(worker.jobs, ToSave(t)) => ToSave(t) = Head(worker.jobs)
           /\ \A t : ~Has(worker'.jobs, ToSave(t))
           /\ \A x : x # Head(worker.jobs) => (Has(worker'.jobs, x) <=> Has(worker.jobs, x))
           /\ Head(worker.jobs).do = "mail" => ~Has(worker'.jobs, Head(worker.jobs))
           /\ Has(worker.jobs, Head(worker.jobs))
<1> DEFINE q == worker.jobs
<1>1. q \in Seq(JobSet) /\ Orderly(q) /\ Head(q) \in JobSet
  BY NextJob DEF EventIInv, WorkerInv, JobsInv
<1>2. /\ worker'.jobs = Tail(q) /\ worker'.turn = worker.turn
      /\ worker'.item = worker.item /\ worker'.found = worker.found
  BY DEF EventIInv, WorkerInv
<1>3. /\ Orderly(Tail(q)) /\ Has(q, Head(q))
      /\ Head(q).do \in {"level", "mail"} => ~Has(Tail(q), Head(q))
      /\ \A x : x # Head(q) => (Has(Tail(q), x) <=> Has(q, x))
      /\ \A x : x.do = "level" => ~Has(Tail(q), x)
      /\ \A x : x.do = "level" /\ Has(q, x) => x = Head(q)
  BY <1>1, TailHas
<1>4. \A t : ToSave(t).do = "level"
  BY DEF ToSave, JobTo
<1>5. \A t : ~Has(worker'.jobs, ToSave(t))
  BY <1>2, <1>3, <1>4
<1>6. \A x : Has(worker'.jobs, x) => Has(q, x)
  BY <1>2, <1>3
<1>7. worker.found > 0 => Tail(q) \in Seq(NotMail)
  <2>1. worker.found > 0 => q \in Seq(NotMail)
    BY DEF JobsInv
  <2> QED
    BY <2>1, HeadTailProperties
<1>8. JobsInv'
  <2>1. Orderly(worker'.jobs) /\ (worker'.found > 0 => worker'.jobs \in Seq(NotMail))
    BY <1>2, <1>3, <1>7
  <2>2. ASSUME NEW t \in Topics, NEW r \in Recipients, Has(worker'.jobs, MailJob(t, r))
        PROVE  Owed(t, r)
    BY <1>6, <2>2 DEF JobsInv
  <2> QED
    BY <1>5, <2>1, <2>2 DEF JobsInv, Owed, ToSave, MailJob, GroupTopics
<1>9. FoundInv'
  BY <1>2 DEF FoundInv
<1>10. \A t : AtFound(t)' <=> AtFound(t)
  BY <1>2 DEF AtFound, Turn
<1> QED
  BY <1>1, <1>2, <1>3, <1>4, <1>5, <1>8, <1>9, <1>10

\* A check that begins with no jobs: what it adds to the jobs is what is coming.
LEMMA NewJobs ==
    ASSUME NEW q, Orderly(q), worker'.jobs = q, worker'.found = 0,
           NEW u \in Topics, \A t, r : Has(q, MailJob(t, r)) <=> t = u /\ Owed(u, r),
           \/ \A t : ~Has(q, ToSave(t))
           \/ u[2] = 0 /\ \A t : Has(q, ToSave(t)) <=> t = u
    PROVE  /\ FoundInv' /\ JobsInv'
           /\ \A t, r : Coming(t, r)' <=> t = u /\ Owed(u, r) /\ ~Has(q, ToSave(u))
<1>1. FoundInv'
  BY DEF FoundInv
<1>2. \A t : ~AtFound(t)'
  BY DEF AtFound
<1>3. \A t, r : Owed(t, r)' <=> Owed(t, r)
  BY DEF Owed, Promised, RecipientsOf
<1>4. JobsInv'
  <2>1. Orderly(worker'.jobs) /\ ~(worker'.found > 0)
    OBVIOUS
  <2>2. \A t \in Topics : \A r \in Recipients : Has(worker'.jobs, MailJob(t, r)) => Owed(t, r)
    OBVIOUS
  <2>3. \A t \in GroupTopics : Has(worker'.jobs, ToSave(t)) =>
           /\ t[2] = 0
           /\ \A r \in RecipientsOf(t[1]) : Owed(t, r) => Has(worker'.jobs, MailJob(t, r))
    OBVIOUS
  <2> QED
    BY <2>1, <2>2, <2>3
    DEF JobsInv, Owed, Promised, RecipientsOf, ToSave, MailJob, GroupTopics
<1>5. ASSUME NEW t, NEW r PROVE Coming(t, r)' <=> t = u /\ Owed(u, r) /\ ~Has(q, ToSave(u))
  <2>1. Coming(t, r)' <=> ~Has(q, ToSave(t)) /\ Has(q, MailJob(t, r))
    BY <1>2 DEF Coming, ToSave, MailJob
  <2> QED
    BY <2>1
<1> QED
  BY <1>1, <1>4, <1>5

LEMMA ChangeMails ==
    ASSUME MailSettings, EventIInv, MailIInv, BalanceInv, NEW e \in DOMAIN Event, Change(e)
    PROVE  FoundInv' /\ JobsInv' /\ BalanceInv'
<1>1. PICK on \in BOOLEAN : on = LimitCheck(e, value[Event[e].variable], open[e] > 0)
  BY LimitCheckBoolean
<1> DEFINE k == IF on THEN 1 ELSE 0
           u == <<e, k>>
           jobs == IF Wants(e, on) THEN MailJobs(u, Event[e].mail_recipients) ELSE <<>>
<1>2. /\ Turn = e /\ worker.jobs = <<>> /\ worker' = [NextTurn EXCEPT !.jobs = jobs]
      /\ changes' = [changes EXCEPT ![u] = @ + 1] /\ kills' = kills /\ UNCHANGED mailVars
  BY <1>1 DEF Change, Known
<1>3. u \in Topics /\ u[1] = e /\ u[2] = k /\ e \in Owners
  BY EventTopic DEF Owners
<1>4. Wants(e, on) <=> Promised(e, k)
  BY DEF Wants, Promised, MailSettings
<1>5. worker.found = 0
  BY <1>2, EventAssumption DEF EventIInv, WorkerInv
<1>6. /\ Orderly(jobs) /\ \A t : ~Has(jobs, ToSave(t))
      /\ \A t, r : Has(jobs, MailJob(t, r)) <=> t = u /\ Owed(u, r)
  <2> HIDE DEF k
  <2>1. MailTo(e) = Event[e].mail_recipients
    BY DEF MailTo
  <2>2. CASE Wants(e, on)
    <3>1. jobs = MailJobs(u, MailTo(e))
      BY <2>1, <2>2
    <3>2. Orderly(jobs) /\ \A x : Has(jobs, x) <=> \E r \in RecipientsOf(e) : x = MailJob(u, r)
      BY <1>3, <3>1, MailJobsHave
    <3>3. \A r : Owed(u, r) <=> r \in RecipientsOf(e)
      BY <1>3, <1>4, <2>2 DEF Owed
    <3> HIDE DEF jobs, u
    <3>4. ASSUME NEW t PROVE ~Has(jobs, ToSave(t))
      <4>1. \A r : ToSave(t) # MailJob(u, r)
        BY JobsDiffer
      <4> QED
        BY <3>2, <4>1
    <3>5. ASSUME NEW t, NEW r PROVE Has(jobs, MailJob(t, r)) <=> t = u /\ Owed(u, r)
      BY <3>2, <3>3, JobsDiffer
    <3> QED
      BY <3>2, <3>4, <3>5
  <2>3. CASE ~Wants(e, on)
    <3>1. jobs = <<>>
      BY <2>3
    <3>2. \A r : ~Owed(u, r)
      BY <1>3, <1>4, <2>3 DEF Owed
    <3> HIDE DEF jobs, u
    <3> QED
      BY <3>1, <3>2, NoJob
  <2> QED
    BY <2>2, <2>3
<1> HIDE DEF jobs, u, k
<1>7. worker'.found = 0 /\ worker'.jobs = jobs
  BY <1>2, TurnOver
<1>8. /\ FoundInv' /\ JobsInv'
      /\ \A t, r : Coming(t, r)' <=> t = u /\ Owed(u, r) /\ ~Has(jobs, ToSave(u))
  BY <1>3, <1>6, <1>7, NewJobs
<1>9. ASSUME NEW t \in Topics, NEW r \in RecipientsOf(t[1]) PROVE Balanced(t, r)'
  <2>1. Balanced(t, r) /\ ~Coming(t, r)
    BY <1>2, <1>5, NothingComing DEF BalanceInv
  <2>2. Posted(t, r)' = Posted(t, r)
    BY <1>2, MailWorkKeeps
  <2>3. /\ kills \in Nat /\ changes[t] \in Nat /\ Posted(t, r) \in Nat
        /\ changes \in [Topics -> Nat]
    BY CountTypes
  <2>4. CASE t # u
    <3>1. changes'[t] = changes[t] /\ ~Coming(t, r)'
      BY <1>2, <1>8, <2>3, <2>4
    <3> QED
      BY <1>2, <2>1, <2>2, <3>1, BalanceKept
  <2>5. CASE t = u
    <3>1. changes'[t] = changes[t] + 1
      BY <1>2, <1>3, <2>3, <2>5
    <3>2. Due(t, r)' = (IF Promised(t[1], t[2]) THEN 1 ELSE 0) /\ Due(t, r) = 0
      BY <1>6, <1>8, <2>1, <2>5 DEF Due, Owed
    <3>3. OwedSoFar(t)' = (IF Promised(t[1], t[2]) THEN changes'[t] ELSE 0)
      BY DEF OwedSoFar, Promised
    <3> QED
      BY <1>2, <2>1, <2>2, <2>3, <3>1, <3>2, <3>3 DEF Balanced, OwedSoFar
  <2> QED
    BY <2>4, <2>5
<1> QED
  BY <1>8, <1>9 DEF BalanceInv

\* A step that counts nothing and hands nothing over.
LEMMA BalanceStays ==
    ASSUME MailIInv, BalanceInv, UNCHANGED <<changes, kills>>, UNCHANGED mailVars,
           \A t \in Topics : \A r \in RecipientsOf(t[1]) : Coming(t, r)' <=> Coming(t, r)
    PROVE  BalanceInv'
<1>1. ASSUME NEW t \in Topics, NEW r \in RecipientsOf(t[1]) PROVE Balanced(t, r)'
  <2>1. Posted(t, r)' = Posted(t, r)
    BY MailWorkKeeps
  <2> QED
    BY <2>1, BalanceKept DEF BalanceInv
<1> QED
  BY <1>1 DEF BalanceInv, RecipientsOf, Topics

LEMMA CheckItemMails ==
    ASSUME EventIInv, MailIInv, FoundInv, JobsInv, BalanceInv, NEW g \in DOMAIN Group, CheckItem(g)
    PROVE  FoundInv' /\ JobsInv' /\ BalanceInv'
<1>0. PICK k \in Nat : k = worker.item
  BY DEF EventIInv, WorkerInv
<1> DEFINE found == IF Found(g, k) THEN k ELSE worker.found
           jobs == IF Found(g, k) THEN LevelJob(g, k) \o RecordJob(g, k) ELSE <<>>
<1>1. /\ Turn = g /\ worker.jobs = <<>> /\ k <= Len(Complex(g)) /\ UNCHANGED <<changes, kills>>
      /\ worker' = [worker EXCEPT !.item = k + 1, !.any = @ \/ IsValid(g, k),
                                  !.found = found, !.jobs = jobs]
      /\ UNCHANGED mailVars
  BY <1>0 DEF CheckItem, history
<1>2. k \in 1..Len(Complex(g)) /\ k \in 0..Len(Complex(g)) /\ k + 1 # 1 /\ k > 0
  BY <1>0, <1>1, EventAssumption DEF EventIInv, WorkerInv
<1>3. /\ worker'.turn = worker.turn /\ worker'.item = k + 1
      /\ worker'.found = found /\ worker'.jobs = jobs
  BY <1>1 DEF EventIInv, WorkerInv
<1>4. FoundInv'
  BY <1>2, <1>3 DEF FoundInv
<1>5. <<g, k>>[1] = g /\ <<g, k>>[2] = k /\ Turn' = g
  BY <1>1, <1>3 DEF Turn
<1>6. CASE Found(g, k)
  <2>1. /\ worker'.found = k /\ worker.found = 0
        /\ worker'.jobs = LevelJob(g, k) \o RecordJob(g, k)
    BY <1>3, <1>6 DEF Found
  <2>2. /\ Orderly(worker'.jobs) /\ worker'.jobs \in Seq(NotMail)
        /\ \A t, r : /\ ~Has(worker'.jobs, MailJob(t, r))
                     /\ Has(worker'.jobs, ToSave(t)) <=> t = <<g, k>>
    BY <1>2, <2>1, CheckJobsHave
  <2>3. AtFound(<<g, k>>)' /\ \A t \in Topics : AtFound(t)' => t = <<g, k>>
    BY <1>2, <1>5, <2>1 DEF AtFound, Topics
  <2>4. JobsInv'
    BY <1>2, <1>5, <2>2, <2>3 DEF JobsInv, ToSave, MailJob
  <2>5. \A t \in Topics : \A r : ~Coming(t, r)' /\ ~Coming(t, r)
    BY <1>1, <2>1, <2>2, <2>3, NothingComing DEF Coming, ToSave, MailJob
  <2>6. BalanceInv'
    BY <1>1, <2>5, BalanceStays
  <2> QED
    BY <1>4, <2>4, <2>6
<1>7. CASE ~Found(g, k)
  <2>1. worker'.found = worker.found /\ worker'.jobs = worker.jobs /\ worker'.turn = worker.turn
    BY <1>1, <1>3, <1>7
  <2>2. JobsInv'
    BY <2>1 DEF JobsInv, AtFound, Turn, ToSave, MailJob, Owed, Promised, RecipientsOf, GroupTopics,
                Topics
  <2>3. \A t, r : Coming(t, r)' <=> Coming(t, r)
    BY <2>1 DEF Coming, AtFound, Turn, ToSave, MailJob, Owed, Promised, RecipientsOf
  <2>4. BalanceInv'
    BY <1>1, <2>3, BalanceStays
  <2> QED
    BY <1>4, <2>2, <2>4
<1> QED
  BY <1>6, <1>7

LEMMA EndItemsMails ==
    ASSUME MailSettings, EventIInv, MailIInv, BalanceInv, NEW g \in DOMAIN Group, EndItems(g)
    PROVE  FoundInv' /\ JobsInv' /\ BalanceInv'
<1>0. PICK f \in Nat : f = worker.found
  BY DEF EventIInv, WorkerInv
<1> DEFINE jobs == IF f > 0 THEN FoundJobs(g, f)
                   ELSE IF ~worker.any /\ last_level[g] # -1 THEN DefaultJobs(g)
                   ELSE <<>>
           u == <<g, f>>
<1>1. /\ Turn = g /\ worker.jobs = <<>> /\ worker' = [NextTurn EXCEPT !.jobs = jobs]
      /\ UNCHANGED <<changes, kills>> /\ UNCHANGED mailVars
  BY <1>0 DEF EndItems, EndTurn, history
<1>2. worker'.found = 0 /\ worker'.jobs = jobs
  <2> HIDE DEF jobs
  <2> QED
    BY <1>1, TurnOver
<1>3. f > 0 => f \in 1..Len(Complex(g))
  BY <1>0, <1>1, EventAssumption DEF EventIInv, WorkerInv
<1>4. u \in Topics /\ u[1] = g /\ u[2] = f
  <2>1. f \in 0..Len(Complex(g))
    BY <1>3, EventAssumption
  <2> QED
    BY <2>1, GroupTopic
<1>5. \A t, r : Coming(t, r) <=> f > 0 /\ t[1] = g /\ t[2] = f /\ Owed(t, r)
  BY <1>0, <1>1, NoJob DEF Coming, AtFound
<1>6. \A t \in Topics : t[1] = g /\ t[2] = f => t = u
  BY DEF Topics
<1>7. CASE f > 0
  <2>1. /\ Orderly(jobs)
        /\ \A t, r : /\ Has(jobs, MailJob(t, r)) <=> t = u /\ Owed(u, r)
                     /\ ~Has(jobs, ToSave(t))
    BY <1>3, <1>7, FoundJobsHave
  <2> HIDE DEF jobs, u
  <2>2. /\ FoundInv' /\ JobsInv'
        /\ \A t, r : Coming(t, r)' <=> t = u /\ Owed(u, r) /\ ~Has(jobs, ToSave(u))
    BY <1>2, <1>4, <2>1, NewJobs
  <2>3. ASSUME NEW t \in Topics, NEW r \in RecipientsOf(t[1])
        PROVE  Coming(t, r)' <=> Coming(t, r)
    BY <1>4, <1>5, <1>6, <1>7, <2>1, <2>2
  <2> QED
    BY <1>1, <2>2, <2>3, BalanceStays
<1>8. CASE f = 0 /\ ~worker.any /\ last_level[g] # -1
  <2>1. /\ Orderly(jobs)
        /\ \A t, r : /\ Has(jobs, MailJob(t, r)) <=> t = u /\ Owed(u, r)
                     /\ Has(jobs, ToSave(t)) <=> t = u
    BY <1>8, DefaultJobsHave
  <2> HIDE DEF jobs, u
  <2>2. /\ FoundInv' /\ JobsInv'
        /\ \A t, r : Coming(t, r)' <=> t = u /\ Owed(u, r) /\ ~Has(jobs, ToSave(u))
    BY <1>2, <1>4, <1>8, <2>1, NewJobs
  <2>3. \A t, r : Coming(t, r)' <=> Coming(t, r)
    BY <1>5, <1>8, <2>1, <2>2
  <2> QED
    BY <1>1, <2>2, <2>3, BalanceStays
<1>9. CASE f = 0 /\ ~(~worker.any /\ last_level[g] # -1)
  <2>1. worker'.jobs = <<>>
    BY <1>2, <1>9
  <2>2. FoundInv' /\ JobsInv'
    BY <1>2, <2>1, NoJob DEF FoundInv, JobsInv
  <2>3. \A t, r : ~Coming(t, r)' /\ ~Coming(t, r)
    BY <1>2, <1>5, <1>9, <2>1, NoJob DEF Coming, AtFound
  <2> QED
    BY <1>1, <2>2, <2>3, BalanceStays
<1> QED
  BY <1>7, <1>8, <1>9

LEMMA SaveLevelMails ==
    ASSUME EventIInv, MailIInv, FoundInv, JobsInv, BalanceInv, SaveLevel
    PROVE  FoundInv' /\ JobsInv' /\ BalanceInv'
<1> DEFINE h == Head(worker.jobs)
<1>1. /\ worker.jobs # <<>> /\ h.do = "level" /\ worker' = [worker EXCEPT !.jobs = Tail(@)]
      /\ changes' = [changes EXCEPT ![h.about] = @ + 1] /\ kills' = kills /\ UNCHANGED mailVars
  BY DEF SaveLevel, Job, JobDone, Subject
<1>2. /\ FoundInv' /\ JobsInv' /\ h \in JobSet
      /\ \A t : AtFound(t)' <=> AtFound(t)
      /\ \A t : Has(worker.jobs, ToSave(t)) => ToSave(t) = h
      /\ \A t : ~Has(worker'.jobs, ToSave(t))
      /\ \A x : x # h => (Has(worker'.jobs, x) <=> Has(worker.jobs, x))
      /\ Has(worker.jobs, h)
  BY <1>1, TailJobs
<1>3. PICK u \in GroupTopics : u = h.about /\ h = ToSave(u)
  BY <1>1, <1>2 DEF JobSet, ToSave, JobTo
<1>4. u \in Topics
  BY TopicOfGroup
<1>5. ASSUME NEW t \in Topics, NEW r \in RecipientsOf(t[1]) PROVE Balanced(t, r)'
  <2>1. Balanced(t, r) /\ Posted(t, r)' = Posted(t, r)
    BY <1>1, MailWorkKeeps DEF BalanceInv
  <2>2. /\ kills \in Nat /\ changes[t] \in Nat /\ Posted(t, r) \in Nat
        /\ changes \in [Topics -> Nat]
    BY CountTypes
  <2>3. Has(worker'.jobs, MailJob(t, r)) <=> Has(worker.jobs, MailJob(t, r))
    BY <1>2, <1>3, JobsDiffer
  <2>4. Owed(t, r)' <=> Owed(t, r)
    BY DEF Owed, Promised, RecipientsOf
  <2>5. Coming(t, r)' <=> \/ Has(worker.jobs, MailJob(t, r))
                          \/ AtFound(t) /\ Owed(t, r)
    BY <1>2, <2>3, <2>4 DEF Coming, ToSave, MailJob
  <2>6. CASE t # u
    <3>1. ~Has(worker.jobs, ToSave(t))
      BY <1>2, <1>3, <2>6, JobsDiffer
    <3>2. Coming(t, r)' <=> Coming(t, r)
      BY <2>5, <3>1 DEF Coming
    <3>3. changes'[t] = changes[t]
      BY <1>1, <1>3, <2>2, <2>6
    <3> QED
      BY <1>1, <2>1, <3>2, <3>3, BalanceKept
  <2>7. CASE t = u
    <3>1. ~Coming(t, r)
      BY <1>2, <1>3, <2>7 DEF Coming
    <3>2. r \in Recipients
      BY RecipientTypes
    <3>3. Has(worker.jobs, MailJob(t, r)) => Owed(t, r)
      BY <3>2 DEF JobsInv
    <3>4. AtFound(t) \/ (Owed(t, r) => Has(worker.jobs, MailJob(t, r)))
      BY <1>2, <1>3, <2>7 DEF JobsInv
    <3>5. Coming(t, r)' <=> Promised(t[1], t[2])
      <4>1. Owed(t, r) <=> Promised(t[1], t[2])
        BY DEF Owed
      <4> QED
        BY <2>5, <3>3, <3>4, <4>1
    <3>6. Due(t, r)' = (IF Promised(t[1], t[2]) THEN 1 ELSE 0) /\ Due(t, r) = 0
      BY <3>1, <3>5 DEF Due
    <3>7. changes'[t] = changes[t] + 1
      BY <1>1, <1>3, <1>4, <2>2, <2>7
    <3>8. OwedSoFar(t)' = (IF Promised(t[1], t[2]) THEN changes'[t] ELSE 0)
      BY DEF OwedSoFar, Promised
    <3> QED
      BY <1>1, <2>1, <2>2, <3>6, <3>7, <3>8 DEF Balanced, OwedSoFar
  <2> QED
    BY <2>6, <2>7
<1> QED
  BY <1>2, <1>5 DEF BalanceInv, RecipientsOf, Topics

\* A record is saved, or a value set.
LEMMA OtherJobMails ==
    ASSUME EventIInv, MailIInv, FoundInv, JobsInv, BalanceInv, SaveRecord \/ SetValue
    PROVE  FoundInv' /\ JobsInv' /\ BalanceInv'
<1> DEFINE h == Head(worker.jobs)
<1>1. /\ worker.jobs # <<>> /\ h.do \in {"record", "set"}
      /\ worker' = [worker EXCEPT !.jobs = Tail(@)]
      /\ UNCHANGED <<changes, kills>> /\ UNCHANGED mailVars
  BY DEF SaveRecord, SetValue, Job, JobDone, history
<1>2. /\ FoundInv' /\ JobsInv'
      /\ \A t : AtFound(t)' <=> AtFound(t)
      /\ \A x : x # h => (Has(worker'.jobs, x) <=> Has(worker.jobs, x))
  BY <1>1, TailJobs
<1>3. \A t, r : MailJob(t, r) # h /\ ToSave(t) # h
  BY <1>1 DEF MailJob, ToSave, JobTo
<1>4. \A t, r : Owed(t, r)' <=> Owed(t, r)
  BY DEF Owed, Promised, RecipientsOf
<1>5. \A t, r : Coming(t, r)' <=> Coming(t, r)
  BY <1>2, <1>3, <1>4 DEF Coming, ToSave, MailJob
<1> QED
  BY <1>1, <1>2, <1>5, BalanceStays

LEMMA HandOverMails ==
    ASSUME EventIInv, MailIInv, FoundInv, JobsInv, BalanceInv, HandOver
    PROVE  FoundInv' /\ JobsInv' /\ BalanceInv'
<1> DEFINE h == Head(worker.jobs)
<1>1. /\ worker.jobs # <<>> /\ h.do = "mail" /\ worker' = [worker EXCEPT !.jobs = Tail(@)]
      /\ UNCHANGED <<changes, kills>> /\ PostMail(h.about, h.arg)
  BY DEF HandOver, Job, JobDone, Subject, history
<1>2. /\ FoundInv' /\ JobsInv' /\ h \in JobSet
      /\ \A t : AtFound(t)' <=> AtFound(t)
      /\ \A t : Has(worker.jobs, ToSave(t)) => ToSave(t) = h
      /\ \A t : ~Has(worker'.jobs, ToSave(t))
      /\ \A x : x # h => (Has(worker'.jobs, x) <=> Has(worker.jobs, x))
      /\ ~Has(worker'.jobs, h) /\ Has(worker.jobs, h)
  BY <1>1, TailJobs
<1>3. PICK u \in Topics, s \in Recipients : u = h.about /\ s = h.arg /\ h = MailJob(u, s)
  BY <1>1, <1>2 DEF JobSet, MailJob, JobTo
<1>4. worker.found = 0
  <2>1. worker.found > 0 => worker.jobs \in Seq(NotMail)
    BY DEF JobsInv
  <2>2. worker.jobs \in Seq(NotMail) => h \in NotMail
    BY <1>1, HeadTailProperties
  <2>3. h \notin NotMail /\ worker.found \in Nat
    BY <1>1 DEF NotMail, EventIInv, WorkerInv
  <2> QED
    BY <2>1, <2>2, <2>3
<1>5. \A t : ~AtFound(t) /\ ~AtFound(t)'
  BY <1>2, <1>4 DEF AtFound
<1>6. \A t : ~Has(worker.jobs, ToSave(t))
  BY <1>2, <1>3, JobsDiffer
<1>7. \A t, r : /\ Coming(t, r) <=> Has(worker.jobs, MailJob(t, r))
                /\ Coming(t, r)' <=> Has(worker'.jobs, MailJob(t, r))
  BY <1>2, <1>5, <1>6 DEF Coming, ToSave, MailJob
<1>8. ASSUME NEW t \in Topics, NEW r \in RecipientsOf(t[1]) PROVE Balanced(t, r)'
  <2>1. Balanced(t, r)
    BY DEF BalanceInv
  <2>2. u \in Subjects
    BY EventAssumption
  <2>3. CASE t = u /\ r = s
    <3>1. Posted(t, r)' = Posted(t, r) + 1
      BY <1>1, <1>3, <2>2, <2>3, PostedGrows
    <3>2. Due(t, r) = 1 /\ Due(t, r)' = 0
      BY <1>2, <1>3, <1>7, <2>3 DEF Due
    <3>3. Posted(t, r) \in Nat
      BY CountTypes
    <3>4. OwedSoFar(t)' = OwedSoFar(t)
      BY <1>1 DEF OwedSoFar, Promised
    <3> QED
      BY <1>1, <2>1, <3>1, <3>2, <3>3, <3>4 DEF Balanced
  <2>4. CASE ~(t = u /\ r = s)
    <3>1. Posted(t, r)' = Posted(t, r)
      BY <1>1, <1>3, <2>2, <2>4, PostedGrows
    <3>2. MailJob(t, r) # h
      BY <1>3, <2>4, JobsDiffer
    <3>3. Coming(t, r)' <=> Coming(t, r)
      BY <1>2, <1>7, <3>2
    <3> QED
      BY <1>1, <2>1, <3>1, <3>3, BalanceKept
  <2> QED
    BY <2>3, <2>4
<1> QED
  BY <1>2, <1>8 DEF BalanceInv, RecipientsOf, Topics

LEMMA KillMailsInv ==
    ASSUME EventIInv, MailIInv, BalanceInv, Kill
    PROVE  FoundInv' /\ JobsInv' /\ BalanceInv'
<1>1. /\ kills' = kills + 1 /\ worker' = Start /\ changes' = changes /\ UNCHANGED mailVars
  BY DEF Kill
<1>2. worker'.found = 0 /\ worker'.jobs = <<>>
  BY <1>1, IdleTurnOver
<1>3. FoundInv' /\ JobsInv'
  BY <1>2, NoJob DEF FoundInv, JobsInv
<1>4. ASSUME NEW t \in Topics, NEW r \in RecipientsOf(t[1]) PROVE Balanced(t, r)'
  <2>1. Balanced(t, r) /\ Posted(t, r)' = Posted(t, r)
    BY <1>1, MailWorkKeeps DEF BalanceInv
  <2>2. kills \in Nat /\ Posted(t, r) \in Nat /\ OwedSoFar(t) \in Nat /\ Due(t, r) \in {0, 1}
    BY CountTypes
  <2>3. Due(t, r)' = 0
    BY <1>2, NoJob DEF Due, Coming, AtFound
  <2>4. OwedSoFar(t)' = OwedSoFar(t)
    BY <1>1 DEF OwedSoFar, Promised
  <2> QED
    BY <1>1, <2>1, <2>2, <2>3, <2>4 DEF Balanced
<1> QED
  BY <1>3, <1>4 DEF BalanceInv, RecipientsOf, Topics

\* A step that leaves the worker and the counts alone, and adds no mail.
LEMMA MailsWait ==
    ASSUME MailIInv, FoundInv, JobsInv, BalanceInv, UNCHANGED <<worker, changes, kills>>,
           MailWork \/ KillSender \/ UNCHANGED mailVars
    PROVE  FoundInv' /\ JobsInv' /\ BalanceInv'
<1>1. FoundInv' /\ JobsInv'
  BY DEF FoundInv, JobsInv, AtFound, Turn, ToSave, MailJob, Owed, Promised, RecipientsOf,
         GroupTopics, Topics
<1>2. \A t, r : Coming(t, r)' <=> Coming(t, r)
  BY DEF Coming, AtFound, Turn, ToSave, MailJob, Owed, Promised, RecipientsOf
<1>3. ASSUME NEW t \in Topics, NEW r \in RecipientsOf(t[1]) PROVE Balanced(t, r)'
  <2>1. Posted(t, r)' = Posted(t, r)
    BY MailWorkKeeps
  <2> QED
    BY <1>2, <2>1, BalanceKept DEF BalanceInv
<1> QED
  BY <1>1, <1>3 DEF BalanceInv, RecipientsOf, Topics

LEMMA BalanceStep ==
    ASSUME MailSettings, EventIInv, MailIInv, FoundInv, JobsInv, BalanceInv, [Next]_vars
    PROVE  FoundInv' /\ JobsInv' /\ BalanceInv'
<1>1. ASSUME NEW v \in Variables, Sample(v) \/ Expire(v) PROVE FoundInv' /\ JobsInv' /\ BalanceInv'
  BY <1>1, MailsWait DEF Sample, Expire, history
<1>2. CASE MailProcess \/ KillMails \/ UNCHANGED vars
  BY <1>2, MailsWait DEF MailProcess, KillMails, vars, history
<1>3. ASSUME NEW e \in DOMAIN Event, Stay(e) \/ Raise(e)
      PROVE  FoundInv' /\ JobsInv' /\ BalanceInv'
  <2>1. /\ Turn = e /\ worker.jobs = <<>> /\ (worker' = NextTurn \/ worker' = Start)
        /\ UNCHANGED <<changes, kills>> /\ UNCHANGED mailVars
    BY <1>3 DEF Stay, Raise, Known, history
  <2>2. worker.found = 0
    BY <2>1, EventAssumption DEF EventIInv, WorkerInv
  <2>3. worker'.found = 0 /\ worker'.jobs = <<>>
    BY <2>1, IdleTurnOver
  <2>4. FoundInv' /\ JobsInv'
    BY <2>3, NoJob DEF FoundInv, JobsInv
  <2>5. \A t, r : ~Coming(t, r) /\ ~Coming(t, r)'
    BY <2>1, <2>2, <2>3, NoJob DEF Coming, AtFound
  <2> QED
    BY <2>1, <2>4, <2>5, BalanceStays
<1>4. ASSUME NEW e \in DOMAIN Event, Change(e) PROVE FoundInv' /\ JobsInv' /\ BalanceInv'
  BY <1>4, ChangeMails
<1>5. ASSUME NEW g \in DOMAIN Group, CheckItem(g) \/ EndItems(g)
      PROVE  FoundInv' /\ JobsInv' /\ BalanceInv'
  BY <1>5, CheckItemMails, EndItemsMails
<1>6. CASE SaveLevel \/ SaveRecord \/ SetValue \/ HandOver \/ Kill
  BY <1>6, SaveLevelMails, OtherJobMails, HandOverMails, KillMailsInv
<1> QED
  BY <1>1, <1>2, <1>3, <1>4, <1>5, <1>6 DEF Next, EventWork, Devices

LEMMA BalanceInit == Init => FoundInv /\ JobsInv /\ BalanceInv
<1> SUFFICES ASSUME Init PROVE FoundInv /\ JobsInv /\ BalanceInv
  OBVIOUS
<1>1. worker.found = 0 /\ worker.jobs = <<>> /\ kills = 0 /\ mail = <<>>
  BY DEF Init, Start, MailInit
<1>2. FoundInv /\ JobsInv
  BY <1>1, IdleJobs
<1>3. ASSUME NEW t \in Topics, NEW r \in RecipientsOf(t[1]) PROVE Balanced(t, r)
  <2>1. ~Coming(t, r) /\ changes[t] = 0
    BY <1>1, NothingComing DEF Init
  <2>2. Posted(t, r) = 0
    <3>1. {i \in 1..Len(mail) : mail[i].about = t /\ mail[i].to = r} = {}
      BY <1>1
    <3> QED
      BY <3>1, FS_EmptySet DEF Posted
  <2> QED
    BY <1>1, <2>1, <2>2 DEF Balanced, Due, OwedSoFar
<1> QED
  BY <1>2, <1>3 DEF BalanceInv

\* Every change that the settings promise a mail for has put one into the table of mails for
\* each recipient, and no more than one; each kill of the event process loses one at most
\* (Event.do_event_check and ComplexEventGroup.do_event_check, which save the change first).
THEOREM ChangesMailed == ASSUME MailSettings PROVE Spec => []EveryChangeMailed
<1>1. EventIInv /\ MailIInv /\ FoundInv /\ JobsInv /\ BalanceInv => EveryChangeMailed
  <2> SUFFICES ASSUME EventIInv, MailIInv, FoundInv, JobsInv, BalanceInv,
                      NEW t \in Topics, Settled(t[1]), NEW r \in RecipientsOf(t[1])
               PROVE  /\ OwedSoFar(t) - kills <= Posted(t, r)
                      /\ Posted(t, r) <= OwedSoFar(t)
    BY DEF EveryChangeMailed, OwedSoFar
  <2>1. ~AtFound(t)
    BY DEF AtFound, Settled, FoundInv, EventIInv, WorkerInv
  <2>2. ~Has(worker.jobs, MailJob(t, r))
    <3> SUFFICES ASSUME NEW i \in 1..Len(worker.jobs), worker.jobs[i] = MailJob(t, r) PROVE FALSE
      BY DEF Has
    <3>1. worker.jobs[i].do = "mail" /\ worker.jobs[i].about = t
      BY DEF MailJob, JobTo
    <3> QED
      BY <3>1 DEF Settled
  <2>3. Due(t, r) = 0
    BY <2>1, <2>2 DEF Due, Coming
  <2>4. Balanced(t, r) /\ Posted(t, r) \in Nat
    BY CountTypes DEF BalanceInv
  <2> QED
    BY <2>3, <2>4 DEF Balanced
<1>2. MailSpec => []MailIInv
  BY MailInitInv, MailStepInv, PTL DEF MailSpec
<1>3. /\ Init => FoundInv /\ JobsInv /\ BalanceInv
      /\ EventIInv /\ MailIInv /\ FoundInv /\ JobsInv /\ BalanceInv /\ [Next]_vars
            => FoundInv' /\ JobsInv' /\ BalanceInv'
  BY BalanceInit, BalanceStep
<1> QED
  BY <1>1, <1>2, <1>3, EventInductive, EventsImplementMails, PTL DEF Spec
=============================================================================
