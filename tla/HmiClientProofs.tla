---------------------------- MODULE HmiClientProofs ----------------------------
(***************************************************************************)
(* TLAPS proofs about HmiClient: its types, the counter of the requests in *)
(* flight, the samples held, the initialisation, and that the client with  *)
(* its server implements HmiView.                                          *)
(***************************************************************************)
EXTENDS HmiClient, HmiStoreProofs, FiniteSetTheorems

\* The times of the samples of a variable that are recorded.
Known(v) == {rows[v][i].time : i \in 1..Len(rows[v])}

\* Rows of a variable are recorded in the order of their times, none from the future.
RowsInOrder ==
    \A v \in Var : \A i, j \in 1..Len(rows[v]) :
       /\ rows[v][i].time <= now
       /\ i < j => rows[v][i].time < rows[v][j].time
ServerInv == now \in Nat /\ rows \in [Var -> Seq(Row)] /\ RowsInOrder

\* A request is a record, and no two requests in flight have one name.
Request(i, isInit, vs, from, to, round, answer) ==
    [id |-> i, init |-> isInit, vars |-> vs, from |-> from, to |-> to, round |-> round,
     answer |-> answer]
Shaped(r) == r = Request(r.id, r.init, r.vars, r.from, r.to, r.round, r.answer)
Distinct == \A r, q \in net : r.id = q.id => r = q
NetInv ==
    /\ IsFiniteSet(net) /\ \A r \in net : IsRequest(r) /\ Shaped(r)
    /\ Distinct
    /\ PendingIsInFlight /\ BoundedInFlight

\* The series of an answer and the samples held are in order and were all recorded.
Genuine(s, v) == s \in Seq(Int) /\ Sorted(s) /\ Times(s) \subseteq Known(v)
AnswersInv == \A r \in net : \A a \in r.answer : \A v \in r.vars : Genuine(a.series[v], v)
DataInv ==
    /\ DATA \in [Var -> Seq(Int)]
    /\ \A v \in Var : Genuine(DATA[v], v) /\ (v \notin ChartVars => Len(DATA[v]) <= 1)

ClientInv ==
    /\ request_data \in [init : BOOLEAN, vars : SUBSET Var]
    /\ SERVER_TIME \in Int /\ LAST_QUERY_TIME \in Int
    /\ DATA_FROM_TIMESTAMP \in Int /\ DATA_TO_TIMESTAMP \in Int
    /\ INIT_STATUS_VARIABLES_DONE \in BOOLEAN /\ INIT_CHART_VARIABLES_DONE \in BOOLEAN
    /\ DATA_INIT_STATUS \in Nat /\ KEYS \in [Var -> Int]
    /\ JSON_ERROR_COUNT \in Nat
    /\ AUTO_UPDATE_ACTIVE \in BOOLEAN /\ PREVIOUS_AUTO_UPDATE_ACTIVE_STATE \in BOOLEAN
    /\ picker \in BOOLEAN
    /\ loaded \subseteq Var \X Nat /\ failures \in 0..MaxFail
    /\ clicks \in 0..MaxClicks /\ DATA_INIT_STATUS <= clicks

IInv == ServerInv /\ NetInv /\ AnswersInv /\ DataInv /\ ClientInv
----------------------------------------------------------------------------
(* Lemmas about numbers and sets.                                          *)

\* A set of integers that has an upper bound has a maximum, and so for a lower one.
LEMMA BoundedMax ==
    ASSUME NEW S, S \subseteq Int, S # {}, NEW b \in Int, \A x \in S : x <= b
    PROVE  Max(S) \in S /\ \A y \in S : Max(S) >= y
<1> DEFINE T == {n \in Nat : b - n \in S}
<1>1. T # {}
  <2>1. PICK x \in S : x <= b
    OBVIOUS
  <2>2. b - x \in Nat /\ b - (b - x) = x
    BY <2>1
  <2> QED
    BY <2>1, <2>2
<1>2. PICK n \in T : \A m \in T : n <= m
  BY <1>1, LeastNatural
<1>3. ASSUME NEW y \in S PROVE b - n >= y
  <2>1. b - y \in Nat /\ b - (b - y) = y
    OBVIOUS
  <2>2. b - y \in T
    BY <2>1
  <2> QED
    BY <1>2, <2>1, <2>2
<1>4. \E x \in S : \A y \in S : x >= y
  BY <1>2, <1>3
<1> QED
  BY <1>4 DEF Max

LEMMA BoundedMin ==
    ASSUME NEW S, S \subseteq Int, S # {}, NEW b \in Int, \A x \in S : x >= b
    PROVE  Min(S) \in S /\ \A y \in S : Min(S) <= y
<1> DEFINE T == {n \in Nat : b + n \in S}
<1>1. T # {}
  <2>1. PICK x \in S : x >= b
    OBVIOUS
  <2>2. x - b \in Nat /\ b + (x - b) = x
    BY <2>1
  <2> QED
    BY <2>1, <2>2
<1>2. PICK n \in T : \A m \in T : n <= m
  BY <1>1, LeastNatural
<1>3. ASSUME NEW y \in S PROVE b + n <= y
  <2>1. y - b \in Nat /\ b + (y - b) = y
    OBVIOUS
  <2>2. y - b \in T
    BY <2>1
  <2> QED
    BY <1>2, <2>1, <2>2
<1>4. \E x \in S : \A y \in S : x <= y
  BY <1>2, <1>3
<1> QED
  BY <1>4 DEF Min

LEMMA MaxOfTwo == ASSUME NEW x \in Int, NEW y \in Int PROVE Max({x, y}) \in Int
<1> DEFINE b == IF x < y THEN y ELSE x
<1>1. b \in Int /\ \A z \in {x, y} : z <= b
  OBVIOUS
<1> HIDE DEF b
<1> QED
  BY <1>1, BoundedMax

LEMMA MinOfTwo == ASSUME NEW x \in Int, NEW y \in Int PROVE Min({x, y}) \in Int
<1> DEFINE b == IF x < y THEN x ELSE y
<1>1. b \in Int /\ \A z \in {x, y} : z >= b
  OBVIOUS
<1> HIDE DEF b
<1> QED
  BY <1>1, BoundedMin
----------------------------------------------------------------------------
(* The requests in flight.                                                 *)

LEMMA FieldsOf ==
    ASSUME NEW i, NEW isInit, NEW vs, NEW from, NEW to, NEW round, NEW answer
    PROVE  LET r == Request(i, isInit, vs, from, to, round, answer)
           IN  /\ r.id = i /\ r.init = isInit /\ r.vars = vs /\ r.from = from /\ r.to = to
               /\ r.round = round /\ r.answer = answer /\ Shaped(r)
  BY DEF Request, Shaped

LEMMA NoAnswer == IsFiniteSet({}) /\ Cardinality({}) = 0
  BY FS_EmptySet

LEMMA AnsweredShape ==
    ASSUME NEW r, Shaped(r), NEW x
    PROVE  [r EXCEPT !.answer = {x}] = Request(r.id, r.init, r.vars, r.from, r.to, r.round, {x})
<1> DEFINE i == r.id
           isInit == r.init
           vs == r.vars
           from == r.from
           to == r.to
           round == r.round
           answer == r.answer
<1>1. r = [id |-> i, init |-> isInit, vars |-> vs, from |-> from, to |-> to, round |-> round,
           answer |-> answer]
  BY DEF Shaped, Request
<1> HIDE DEF i, isInit, vs, from, to, round, answer
<1>2. [r EXCEPT !.answer = {x}]
         = [id |-> i, init |-> isInit, vars |-> vs, from |-> from, to |-> to, round |-> round,
            answer |-> {x}]
  BY <1>1
<1> QED
  BY <1>2 DEF Request, i, isInit, vs, from, to, round, answer

\* Requests that ask for data are some of those in flight.
LEMMA SomeInFlight ==
    ASSUME IsFiniteSet(net)
    PROVE  /\ IsFiniteSet(Polls) /\ IsFiniteSet(Polls \cup Loads)
           /\ Cardinality(net) \in Nat
           /\ Cardinality(Polls) \in Nat /\ Cardinality(Polls \cup Loads) \in Nat
           /\ Cardinality(Polls \cup Loads) <= Cardinality(net)
<1>1. Polls \in SUBSET net /\ Polls \cup Loads \in SUBSET net
  BY DEF Polls, Loads
<1> QED
  BY <1>1, FS_Subset, FS_CardinalityType

\* data_handler_ajax adds one request to what is in flight; polls are sent when nothing
\* is, other requests for data when at most one is.
LEMMA SendCounts ==
    ASSUME NetInv, NEW isInit \in BOOLEAN, NEW vs \in SUBSET Var, NEW from \in Int,
           NEW to \in Int, DATA_INIT_STATUS \in Nat, Send(isInit, vs, from, to),
           isInit => FETCH_DATA_PENDING <= 1,
           ~isInit /\ vs # {} => FETCH_DATA_PENDING <= 0
    PROVE  /\ NetInv'
           /\ request_data' \in [init : BOOLEAN, vars : SUBSET Var]
           /\ \A r \in net' : r \in net \/ r.answer = {}
<1>1. PICK i \in 1..(Cardinality(net) + 1) :
         IsFree(i) /\ net' = net \cup {Request(i, isInit, vs, from, to, DATA_INIT_STATUS, {})}
  BY DEF Send, Request
<1> DEFINE new == Request(i, isInit, vs, from, to, DATA_INIT_STATUS, {})
<1>2. /\ new.id = i /\ new.init = isInit /\ new.vars = vs /\ new.from = from /\ new.to = to
      /\ new.round = DATA_INIT_STATUS /\ new.answer = {} /\ Shaped(new)
  BY FieldsOf
<1> HIDE DEF new
<1>3. net' = net \cup {new} /\ \A r \in net : r.id # new.id
  BY <1>1, <1>2 DEF IsFree, new
<1>4. /\ IsFiniteSet(net) /\ Cardinality(net) \in Nat /\ new \notin net
      /\ FETCH_DATA_PENDING = Cardinality(net)
      /\ FETCH_DATA_PENDING' = Cardinality(net) + 1
  BY <1>3, FS_CardinalityType DEF NetInv, PendingIsInFlight, Send
<1>5. IsFiniteSet(net') /\ Cardinality(net') = Cardinality(net) + 1
  BY <1>3, <1>4, FS_AddElement
<1>6. IsRequest(new)
  BY <1>1, <1>2, <1>4, NoAnswer DEF IsRequest
<1>7. \A r \in net' : IsRequest(r) /\ Shaped(r)
  BY <1>2, <1>3, <1>6 DEF NetInv
<1>8. Distinct'
  BY <1>3 DEF NetInv, Distinct
<1>9. BoundedInFlight'
  <2>1. CASE isInit
    <3>1. Polls' = Polls
      BY <1>2, <1>3, <2>1 DEF Polls
    <3>2. Polls' \cup Loads' \in SUBSET net'
      BY DEF Polls, Loads
    <3>4. Cardinality(Polls' \cup Loads') <= Cardinality(net')
      BY <1>5, <3>2, FS_Subset
    <3>5. IsFiniteSet(Polls' \cup Loads') /\ Cardinality(Polls' \cup Loads') \in Nat
      BY <1>5, <3>2, FS_Subset, FS_CardinalityType
    <3>6. Cardinality(net') <= 2
      BY <1>4, <1>5, <2>1
    <3>7. Cardinality(Polls' \cup Loads') <= 2
      BY <1>4, <1>5, <3>4, <3>5, <3>6
    <3> QED
      BY <3>1, <3>7 DEF NetInv, BoundedInFlight
  <2>2. CASE ~isInit /\ vs = {}
    <3>1. Polls' = Polls /\ Loads' = Loads
      BY <1>2, <1>3, <2>2 DEF Polls, Loads
    <3> QED
      BY <3>1 DEF NetInv, BoundedInFlight
  <2>3. CASE ~isInit /\ vs # {}
    <3>1. Cardinality(net) = 0
      BY <1>4, <2>3
    <3>2. net = {}
      BY <1>4, <3>1, FS_EmptySet
    <3>3. Cardinality(net') = 1
      BY <1>4, <1>5, <3>1
    <3>4. Polls' \in SUBSET net'
      BY DEF Polls
    <3>5. Cardinality(Polls') <= 1
      BY <1>5, <3>3, <3>4, FS_Subset
    <3>6. Polls' \cup Loads' \in SUBSET net'
      BY DEF Polls, Loads
    <3>7. Cardinality(Polls' \cup Loads') <= 1
      BY <1>5, <3>3, <3>6, FS_Subset
    <3>8. IsFiniteSet(Polls' \cup Loads') /\ Cardinality(Polls' \cup Loads') \in Nat
      BY <1>5, <3>6, FS_Subset, FS_CardinalityType
    <3>9. Cardinality(Polls' \cup Loads') <= 2
      BY <3>7, <3>8
    <3> QED
      BY <3>5, <3>9 DEF BoundedInFlight
  <2> QED
    BY <2>1, <2>2, <2>3
<1>10. PendingIsInFlight'
  BY <1>4, <1>5 DEF PendingIsInFlight
<1>11. request_data' \in [init : BOOLEAN, vars : SUBSET Var]
  BY DEF Send
<1> QED
  BY <1>2, <1>3, <1>5, <1>7, <1>8, <1>9, <1>10, <1>11 DEF NetInv

\* An answer leaves the request in flight.
LEMMA AnswerCounts ==
    ASSUME NetInv, NEW r \in net, r.answer = {}, NEW x \in Answers(r.vars),
           net' = (net \ {r}) \cup {[r EXCEPT !.answer = {x}]},
           UNCHANGED FETCH_DATA_PENDING
    PROVE  /\ NetInv'
           /\ \A q \in net' : q \in net \/ (q.vars = r.vars /\ q.answer = {x})
<1> DEFINE new == [r EXCEPT !.answer = {x}]
<1>1. /\ new = Request(r.id, r.init, r.vars, r.from, r.to, r.round, {x})
      /\ new.id = r.id /\ new.init = r.init /\ new.vars = r.vars /\ new.from = r.from
      /\ new.to = r.to /\ new.round = r.round /\ new.answer = {x} /\ Shaped(new)
  <2>1. Shaped(r)
    BY DEF NetInv
  <2>2. new = Request(r.id, r.init, r.vars, r.from, r.to, r.round, {x})
    BY <2>1, AnsweredShape
  <2> HIDE DEF new
  <2> QED
    BY <2>2, FieldsOf
<1>2. net' = (net \ {r}) \cup {new}
  OBVIOUS
<1> HIDE DEF new
<1>3. new \notin net
  BY <1>1 DEF NetInv, Distinct
<1>4. IsFiniteSet(net \ {r}) /\ Cardinality(net \ {r}) = Cardinality(net) - 1
      /\ Cardinality(net) \in Nat
  BY FS_RemoveElement, FS_CardinalityType DEF NetInv
<1>5. IsFiniteSet(net') /\ Cardinality(net') = Cardinality(net)
  BY <1>2, <1>3, <1>4, FS_AddElement
<1>6. IsRequest(new)
  <2>1. Cardinality({x}) = 1
    BY FS_Singleton
  <2>2. IsRequest(r)
    BY DEF NetInv
  <2>3. new.answer \subseteq Answers(new.vars) /\ Cardinality(new.answer) <= 1
    BY <1>1, <2>1
  <2> QED
    BY <1>1, <2>2, <2>3 DEF IsRequest
<1>7. \A q \in net' : IsRequest(q) /\ Shaped(q)
  BY <1>1, <1>2, <1>6 DEF NetInv
<1>8. Distinct'
  BY <1>1, <1>2 DEF NetInv, Distinct
<1>9. ASSUME NEW A, NEW B, A \in SUBSET net,
             B = IF r \in A THEN (A \ {r}) \cup {new} ELSE A
      PROVE  IsFiniteSet(B) /\ Cardinality(B) = Cardinality(A)
  <2>1. IsFiniteSet(A) /\ Cardinality(A) \in Nat
    BY <1>9, FS_Subset, FS_CardinalityType DEF NetInv
  <2>2. CASE r \in A
    <3>1. IsFiniteSet(A \ {r}) /\ Cardinality(A \ {r}) = Cardinality(A) - 1
      BY <2>1, <2>2, FS_RemoveElement
    <3>2. new \notin A \ {r}
      BY <1>3, <1>9
    <3>3. B = (A \ {r}) \cup {new}
      BY <1>9, <2>2
    <3> QED
      BY <2>1, <3>1, <3>2, <3>3, FS_AddElement
  <2> QED
    BY <1>9, <2>1, <2>2
<1>10. Polls' = IF r \in Polls THEN (Polls \ {r}) \cup {new} ELSE Polls
  BY <1>1, <1>2 DEF Polls
<1>11. (Polls \cup Loads)' = IF r \in Polls \cup Loads
                             THEN ((Polls \cup Loads) \ {r}) \cup {new}
                             ELSE Polls \cup Loads
  BY <1>1, <1>2 DEF Polls, Loads
<1>12. Polls \in SUBSET net /\ Polls \cup Loads \in SUBSET net
  BY DEF Polls, Loads
<1>13. Cardinality(Polls') = Cardinality(Polls)
       /\ Cardinality((Polls \cup Loads)') = Cardinality(Polls \cup Loads)
  BY <1>9, <1>10, <1>11, <1>12
<1>14. BoundedInFlight'
  BY <1>13 DEF BoundedInFlight, NetInv
<1> QED
  BY <1>1, <1>2, <1>5, <1>7, <1>8, <1>14 DEF NetInv, PendingIsInFlight

\* A request that ends is taken off once.
LEMMA FinishCounts ==
    ASSUME NetInv, NEW r \in net, Finish(r)
    PROVE  NetInv' /\ net' \subseteq net /\ UNCHANGED request_data
<1>1. /\ net' = net \ {r} /\ FETCH_DATA_PENDING' = FETCH_DATA_PENDING - 1
      /\ UNCHANGED request_data
  BY DEF Finish
<1>2. IsFiniteSet(net') /\ Cardinality(net') = Cardinality(net) - 1 /\ Cardinality(net) \in Nat
  BY <1>1, FS_RemoveElement, FS_CardinalityType DEF NetInv
<1>3. Polls' \in SUBSET Polls /\ (Polls \cup Loads)' \in SUBSET (Polls \cup Loads)
  BY <1>1 DEF Polls, Loads
<1>4. /\ Cardinality(Polls') <= Cardinality(Polls)
      /\ Cardinality((Polls \cup Loads)') <= Cardinality(Polls \cup Loads)
  BY <1>3, SomeInFlight, FS_Subset DEF NetInv
<1>5. IsFiniteSet(Polls') /\ IsFiniteSet((Polls \cup Loads)')
  BY <1>3, SomeInFlight, FS_Subset DEF NetInv
<1>6. BoundedInFlight'
  BY <1>4, <1>5, SomeInFlight, FS_CardinalityType DEF NetInv, BoundedInFlight
<1> QED
  BY <1>1, <1>2, <1>6 DEF NetInv, PendingIsInFlight, Distinct
----------------------------------------------------------------------------
(* What the server answers.                                                *)

LEMMA RangeIsInt ==
    ASSUME ServerInv, NEW r, IsRequest(r), ClientAssumption
    PROVE  RangeFrom(r) \in Int /\ RangeTo(r) \in Int
<1>1. r.from \in Int /\ r.to \in Int /\ r.init \in BOOLEAN /\ now \in Int
  BY DEF IsRequest, ServerInv
<1>2. PollBack \in Int /\ Window \in Int
  BY DEF ClientAssumption
<1>3. RangeTo(r) \in Int
  BY <1>1 DEF RangeTo
<1>4. (IF r.from = 0 THEN now - PollBack ELSE r.from) \in Int
  BY <1>1, <1>2
<1>5. RangeFrom(r) \in Int
  BY <1>2, <1>3, <1>4 DEF RangeFrom
<1> QED
  BY <1>3, <1>5

\* A sequence of consecutive samples is in order.
LEMMA StretchInOrder ==
    ASSUME ServerInv, NEW v \in Var, NEW m \in 1..Len(rows[v]), NEW n \in m..Len(rows[v])
    PROVE  LET s == [k \in 1..(n - m + 1) |-> rows[v][m + k - 1].time]
           IN  /\ s \in Seq(Int) /\ Len(s) = n - m + 1 /\ Sorted(s)
               /\ Times(s) \subseteq Known(v)
               /\ \A i \in 1..Len(s) : rows[v][m].time <= s[i]
<1>1. /\ rows[v] \in Seq(Row) /\ Len(rows[v]) \in Nat
      /\ \A i \in 1..Len(rows[v]) : rows[v][i].time \in Int
  <2>1. rows[v] \in Seq(Row)
    BY DEF ServerInv
  <2>2. \A i \in 1..Len(rows[v]) : rows[v][i] \in Row
    BY <2>1, ElementOfSeq
  <2> QED
    BY <2>1, <2>2, LenProperties DEF Row
<1> DEFINE s == [k \in 1..(n - m + 1) |-> rows[v][m + k - 1].time]
<1>2. n - m + 1 \in Nat /\ m \in Int /\ n \in Int
  BY <1>1
<1>3. ASSUME NEW k \in 1..(n - m + 1)
      PROVE  m + k - 1 \in 1..Len(rows[v]) /\ s[k] = rows[v][m + k - 1].time
  BY <1>1, <1>2
<1>4. s \in [1..(n - m + 1) -> Int]
  <2>1. \A k \in 1..(n - m + 1) : rows[v][m + k - 1].time \in Int
    BY <1>1, <1>3
  <2> QED
    BY <2>1
<1> HIDE DEF s
<1>5. s \in Seq(Int)
  BY <1>2, <1>4, SeqDef
<1>6. Len(s) = n - m + 1
  <2>1. DOMAIN s = 1..(n - m + 1) /\ DOMAIN s = 1..Len(s) /\ Len(s) \in Nat
    BY <1>4, <1>5, LenProperties
  <2> QED
    BY <1>2, <2>1
<1>7. ASSUME NEW i \in 1..Len(s), NEW j \in 1..Len(s), i <= j PROVE s[i] <= s[j]
  <2>1. /\ m + i - 1 \in 1..Len(rows[v]) /\ m + j - 1 \in 1..Len(rows[v])
        /\ s[i] = rows[v][m + i - 1].time /\ s[j] = rows[v][m + j - 1].time
    BY <1>3, <1>6, <1>7
  <2>2. i = j \/ m + i - 1 < m + j - 1
    BY <1>2, <1>6, <1>7
  <2>3. CASE i = j
    BY SMTT(30), <1>1, <2>1, <2>3
  <2>4. CASE m + i - 1 < m + j - 1
    <3>1. rows[v][m + i - 1].time < rows[v][m + j - 1].time
      BY <2>1, <2>4 DEF ServerInv, RowsInOrder
    <3>2. rows[v][m + i - 1].time \in Int /\ rows[v][m + j - 1].time \in Int
      BY <1>1, <2>1
    <3>3. s[i] < s[j] /\ s[i] \in Int /\ s[j] \in Int
      BY <2>1, <3>1, <3>2
    <3> QED
      BY <3>3
  <2> QED
    BY <2>2, <2>3, <2>4
<1>8. Times(s) \subseteq Known(v)
  BY <1>3, <1>6 DEF Times, Known
<1>9. ASSUME NEW i \in 1..Len(s) PROVE rows[v][m].time <= s[i]
  <2>1. 1 \in 1..Len(s) /\ 1 <= i /\ m + 1 - 1 = m /\ 1 \in 1..(n - m + 1)
    BY <1>2, <1>6, <1>9
  <2>2. s[1] = rows[v][m].time
    BY <1>3, <2>1
  <2> QED
    BY <1>7, <2>1, <2>2
<1>10. Sorted(s)
  BY <1>7 DEF Sorted
<1> QED
  BY <1>5, <1>6, <1>8, <1>9, <1>10 DEF s

LEMMA InRangeInOrder ==
    ASSUME ServerInv, NEW r, IsRequest(r), NEW v \in Var, ClientAssumption
    PROVE  /\ Genuine(InRange(r, v), v)
           /\ \A i \in 1..Len(InRange(r, v)) : RangeFrom(r) <= InRange(r, v)[i]
<1> DEFINE I == {i \in Selected(r, v) : rows[v][i].time >= RangeFrom(r)}
           last == Len(rows[v])
<1>1. I \subseteq 1..Len(rows[v]) /\ \A i \in I : rows[v][i].time >= RangeFrom(r)
  BY DEF Selected
<1>2. Len(rows[v]) \in Nat /\ \A i \in 1..Len(rows[v]) : rows[v][i].time \in Int
  <2>1. rows[v] \in Seq(Row)
    BY DEF ServerInv
  <2>2. \A i \in 1..Len(rows[v]) : rows[v][i] \in Row
    BY <2>1, ElementOfSeq
  <2> QED
    BY <2>1, <2>2, LenProperties DEF Row
<1>3. CASE I = {}
  <2>1. InRange(r, v) = <<>>
    BY <1>3 DEF InRange
  <2> QED
    BY <2>1, EmptySeq DEF Genuine, Sorted, Times
<1>4. CASE I # {}
  <2>11. I \subseteq 1..last /\ last \in Nat
    BY <1>1, <1>2
  <2> HIDE DEF I, last
  <2>1. I \subseteq Int /\ last \in Int /\ 1 \in Int /\ I # {}
        /\ (\A i \in I : 1 <= i) /\ \A i \in I : i <= last
    BY <1>4, <2>11
  <2>2. Max(I) \in I /\ \A i \in I : Max(I) >= i
    BY <2>1, BoundedMax
  <2>3. Min(I) \in I /\ \A i \in I : Min(I) <= i
    BY <2>1, BoundedMin
  <2> DEFINE m == Min(I)
             n == Max(I)
  <2>13. m \in I /\ n \in I /\ m <= n
    BY <2>2, <2>3
  <2>14. m \in Int /\ n \in Int /\ 1 <= m /\ n <= last
    BY <2>1, <2>13
  <2>12. m \in 1..last /\ n \in m..last
    BY <2>11, <2>13, <2>14
  <2>4. m \in 1..Len(rows[v]) /\ n \in m..Len(rows[v])
    BY <2>12 DEF last
  <2>5. InRange(r, v) = [k \in 1..(n - m + 1) |-> rows[v][m + k - 1].time]
    BY <1>4 DEF InRange, I
  <2>6. rows[v][m].time >= RangeFrom(r)
    BY <1>1, <2>3
  <2> HIDE DEF m, n
  <2> DEFINE s == [k \in 1..(n - m + 1) |-> rows[v][m + k - 1].time]
  <2>7. /\ s \in Seq(Int) /\ Len(s) = n - m + 1 /\ Sorted(s) /\ Times(s) \subseteq Known(v)
        /\ \A i \in 1..Len(s) : rows[v][m].time <= s[i]
    BY <2>4, StretchInOrder
  <2>8. InRange(r, v) = s
    BY <2>5
  <2> HIDE DEF s
  <2>9. Genuine(s, v)
    BY <2>7 DEF Genuine
  <2>10. ASSUME NEW i \in 1..Len(s) PROVE RangeFrom(r) <= s[i]
    <3>1. s[i] \in Int
      BY <2>7, ElementOfSeq
    <3>2. rows[v][m].time \in Int /\ RangeFrom(r) \in Int
      BY <1>2, <2>4, RangeIsInt
    <3>3. rows[v][m].time <= s[i]
      BY <2>7
    <3> DEFINE x == RangeFrom(r)
               y == rows[v][m].time
               z == s[i]
    <3>4. x \in Int /\ y \in Int /\ z \in Int /\ y >= x /\ y <= z
      BY <2>6, <3>1, <3>2, <3>3
    <3> HIDE DEF x, y, z
    <3>5. x <= z
      BY <3>4
    <3> QED
      BY <3>5 DEF x, z
  <2> QED
    BY <2>8, <2>9, <2>10
<1> QED
  BY <1>3, <1>4

\* A sample may be put before a series that is not older, or behind one that is not newer.
LEMMA PutBefore ==
    ASSUME NEW v \in Var, NEW s, Genuine(s, v), NEW x \in Int, x \in Known(v),
           \A i \in 1..Len(s) : x <= s[i]
    PROVE  Genuine(<<x>> \o s, v)
<1> DEFINE p == <<x>>
           t == p \o s
<1>1. /\ p \in Seq(Int) /\ Len(p) = 1 /\ p[1] = x /\ s \in Seq(Int) /\ Len(s) \in Nat
      /\ \A i \in 1..Len(s) : s[i] \in Int
  BY LenProperties, ElementOfSeq DEF Genuine
<1> HIDE DEF p
<1>2. /\ t \in Seq(Int) /\ Len(t) = 1 + Len(s)
      /\ \A i \in 1..(1 + Len(s)) : t[i] = IF i <= 1 THEN p[i] ELSE s[i - 1]
  <2>1. /\ t \in Seq(Int) /\ Len(t) = Len(p) + Len(s)
        /\ \A i \in 1..(Len(p) + Len(s)) :
              t[i] = IF i <= Len(p) THEN p[i] ELSE s[i - Len(p)]
    BY <1>1, ConcatProperties
  <2> HIDE DEF t
  <2> QED
    BY <1>1, <2>1
<1> HIDE DEF t
<1>3. ASSUME NEW i \in 1..Len(t)
      PROVE  (i = 1 /\ t[i] = x) \/ (i > 1 /\ i - 1 \in 1..Len(s) /\ t[i] = s[i - 1])
  BY <1>1, <1>2
<1>4. ASSUME NEW i \in 1..Len(t), NEW j \in 1..Len(t), i <= j PROVE t[i] <= t[j]
  <2>1. CASE i = 1 /\ j = 1
    BY <1>1, <1>3, <2>1
  <2>2. CASE i = 1 /\ j > 1
    <3>1. t[i] = x /\ j - 1 \in 1..Len(s) /\ t[j] = s[j - 1]
      BY <1>3, <2>2
    <3> QED
      BY <3>1
  <2>3. CASE i > 1 /\ j > 1
    <3>1. /\ i - 1 \in 1..Len(s) /\ t[i] = s[i - 1]
          /\ j - 1 \in 1..Len(s) /\ t[j] = s[j - 1] /\ i - 1 <= j - 1
      BY <1>1, <1>2, <1>3, <1>4, <2>3
    <3> QED
      BY <3>1 DEF Genuine, Sorted
  <2> QED
    BY <1>1, <1>2, <1>4, <2>1, <2>2, <2>3
<1>5. Times(t) \subseteq Known(v)
  <2>1. ASSUME NEW i \in 1..Len(t) PROVE t[i] \in Known(v)
    BY <1>3 DEF Genuine, Times
  <2> QED
    BY <2>1 DEF Times
<1> QED
  BY <1>2, <1>4, <1>5 DEF Genuine, Sorted, t, p

LEMMA PutBehind ==
    ASSUME NEW v \in Var, NEW s, Genuine(s, v), NEW x \in Int, x \in Known(v),
           \A i \in 1..Len(s) : s[i] <= x
    PROVE  Genuine(Append(s, x), v)
<1> DEFINE t == Append(s, x)
<1>1. s \in Seq(Int) /\ Len(s) \in Nat
  BY LenProperties DEF Genuine
<1>2. /\ t \in Seq(Int) /\ Len(t) = Len(s) + 1
      /\ \A i \in 1..Len(s) : t[i] = s[i]
      /\ t[Len(s) + 1] = x
  BY <1>1, AppendProperties
<1> HIDE DEF t
<1>3. ASSUME NEW i \in 1..Len(t)
      PROVE  (i \in 1..Len(s) /\ t[i] = s[i]) \/ (i = Len(s) + 1 /\ t[i] = x)
  BY <1>1, <1>2
<1>4. ASSUME NEW i \in 1..Len(t), NEW j \in 1..Len(t), i <= j PROVE t[i] <= t[j]
  <2>1. CASE j \in 1..Len(s)
    <3>1. i \in 1..Len(s) /\ t[i] = s[i] /\ t[j] = s[j]
      BY <1>1, <1>2, <1>4, <2>1
    <3> QED
      BY <1>4, <3>1, <2>1 DEF Genuine, Sorted
  <2>2. CASE j = Len(s) + 1 /\ t[j] = x
    BY <1>3, <2>2
  <2> QED
    BY <1>3, <2>1, <2>2
<1>5. Times(t) \subseteq Known(v)
  <2>1. ASSUME NEW i \in 1..Len(t) PROVE t[i] \in Known(v)
    BY <1>3 DEF Genuine, Times
  <2> QED
    BY <2>1 DEF Times
<1> QED
  BY <1>2, <1>4, <1>5 DEF Genuine, Sorted, t

LEMMA TwiceIsGenuine ==
    ASSUME NEW v \in Var, NEW s, Genuine(s, v)
    PROVE  Genuine(Twice(s), v)
<1>1. CASE Len(s) > 1
  <2>1. /\ Len(s) \in Nat /\ Len(s) \in 1..Len(s) /\ Final(s) \in Int
        /\ \A i \in 1..Len(s) : s[i] \in Int
    BY <1>1, LenProperties, ElementOfSeq DEF Genuine, Final
  <2>2. Final(s) \in Known(v)
    BY <2>1 DEF Genuine, Times, Final
  <2>3. \A i \in 1..Len(s) : s[i] <= Final(s)
    BY <2>1 DEF Genuine, Sorted, Final
  <2>4. Twice(s) = Append(s, Final(s))
    BY <1>1 DEF Twice
  <2> QED
    BY <2>1, <2>2, <2>3, <2>4, PutBehind
<1>2. CASE ~(Len(s) > 1)
  BY <1>2 DEF Twice
<1> QED
  BY <1>1, <1>2

\* Whatever is asked for, an answer holds samples that were recorded, in order.
LEMMA SeriesIsGenuine ==
    ASSUME ServerInv, NEW r, IsRequest(r), NEW v \in Var, ClientAssumption
    PROVE  Genuine(Series(r, v), v)
<1> DEFINE before == {i \in Selected(r, v) : rows[v][i].time < RangeFrom(r)}
           part == InRange(r, v)
<1>1. /\ Len(rows[v]) \in Nat /\ rows[v] \in Seq(Row)
      /\ \A i \in 1..Len(rows[v]) : rows[v][i].time \in Int
  <2>1. rows[v] \in Seq(Row)
    BY DEF ServerInv
  <2>2. \A i \in 1..Len(rows[v]) : rows[v][i] \in Row
    BY <2>1, ElementOfSeq
  <2> QED
    BY <2>1, <2>2, LenProperties DEF Row
<1>2. /\ Genuine(part, v) /\ RangeFrom(r) \in Int
      /\ \A i \in 1..Len(part) : RangeFrom(r) <= part[i] /\ part[i] \in Int
  BY InRangeInOrder, RangeIsInt, ElementOfSeq DEF Genuine
<1>3. CASE ~r.init
  BY <1>2, <1>3 DEF Series
<1>4. CASE r.init /\ before # {}
  <2>1. before \subseteq Int /\ before # {} /\ Len(rows[v]) \in Int
        /\ \A i \in before : i <= Len(rows[v])
    BY SMTT(30), <1>1, <1>4 DEF Selected
  <2> HIDE DEF before
  <2>2. Max(before) \in before
    BY <2>1, BoundedMax
  <2> USE DEF before
  <2> DEFINE x == rows[v][Max(before)].time
  <2>3. x \in Int /\ x < RangeFrom(r) /\ x \in Known(v)
    BY <1>1, <2>2 DEF Selected, Known
  <2>4. Series(r, v) = Twice(<<x>> \o part)
    BY <1>4 DEF Series
  <2> HIDE DEF x, part, before
  <2>5. \A i \in 1..Len(part) : x <= part[i]
    BY SMTT(30), <1>2, <2>3
  <2>6. Genuine(<<x>> \o part, v)
    BY <1>2, <2>3, <2>5, PutBefore
  <2> QED
    BY <2>4, <2>6, TwiceIsGenuine
<1>5. CASE r.init /\ before = {} /\ rows[v] # <<>>
  <2> DEFINE x == Final(rows[v]).time
  <2>1. Len(rows[v]) \in 1..Len(rows[v])
    BY <1>1, <1>5, EmptySeq
  <2>2. x \in Int /\ x \in Known(v)
    BY <1>1, <2>1 DEF Final, Known
  <2>3. \A i \in 1..Len(rows[v]) : rows[v][i].time <= x
    <3>1. ASSUME NEW i \in 1..Len(rows[v]) PROVE rows[v][i].time <= x
      <4>1. i = Len(rows[v]) \/ i < Len(rows[v])
        BY <1>1
      <4>2. i < Len(rows[v]) => rows[v][i].time < rows[v][Len(rows[v])].time
        BY <2>1 DEF ServerInv, RowsInOrder
      <4>3. x = rows[v][Len(rows[v])].time /\ rows[v][i].time \in Int
        BY <1>1 DEF Final
      <4> HIDE DEF x
      <4> DEFINE y == rows[v][i].time
      <4>4. y \in Int /\ x \in Int /\ (y < x \/ y = x)
        BY <2>2, <4>1, <4>2, <4>3
      <4> HIDE DEF y
      <4>5. y <= x
        BY <4>4
      <4> QED
        BY <4>5 DEF y
    <3> QED
      BY <3>1
  <2>4. Series(r, v) = Twice(Append(part, x))
    BY <1>5 DEF Series
  <2> HIDE DEF x, part, before
  <2>5. \A i \in 1..Len(part) : part[i] <= x
    BY <1>2, <2>3 DEF Genuine, Times, Known
  <2>6. Genuine(Append(part, x), v)
    BY <1>2, <2>2, <2>5, PutBehind
  <2> QED
    BY <2>4, <2>6, TwiceIsGenuine
<1>6. CASE r.init /\ before = {} /\ rows[v] = <<>>
  <2>1. Series(r, v) = <<>>
    BY <1>6 DEF Series
  <2> QED
    BY <2>1, EmptySeq DEF Genuine, Sorted, Times
<1> QED
  BY <1>3, <1>4, <1>5, <1>6

LEMMA ResponseIsAnswer ==
    ASSUME ServerInv, NEW r, IsRequest(r), ClientAssumption
    PROVE  /\ Response(r) \in Answers(r.vars)
           /\ \A v \in r.vars : Genuine(Response(r).series[v], v)
<1> DEFINE stamps == {RangeFrom(r)} \cup {row.time : row \in SelectedRows(r)}
           saves == {0} \cup {row.saved : row \in SelectedRows(r)}
           series == [v \in r.vars |-> Series(r, v)]
           from == RangeFrom(r)
           to == RangeTo(r)
           late == IF from < to THEN to ELSE from
           high == IF 0 < to THEN to ELSE 0
<1>1. r.vars \subseteq Var /\ now \in Int
  BY SMTT(30) DEF IsRequest, ServerInv
<1>2. from \in Int /\ to \in Int
  BY RangeIsInt
<1>3. ASSUME NEW row \in SelectedRows(r)
      PROVE  row.time \in Int /\ row.saved \in Int /\ row.time < to /\ row.saved <= to
  <2>5. PICK v \in r.vars : row \in {rows[v][i] : i \in Selected(r, v)}
    BY DEF SelectedRows
  <2>1. PICK i \in Selected(r, v) : row = rows[v][i]
    BY <2>5
  <2>2. i \in 1..Len(rows[v]) /\ rows[v][i].time < to /\ rows[v][i].saved <= to
    BY DEF Selected
  <2>3. rows[v] \in Seq(Row)
    BY <1>1 DEF ServerInv
  <2>4. rows[v][i] \in Row
    BY <2>2, <2>3, ElementOfSeq
  <2> QED
    BY <2>1, <2>2, <2>4 DEF Row
<1> HIDE DEF from, to
<1>4. late \in Int /\ high \in Int /\ from <= late /\ to <= late /\ 0 <= high /\ to <= high
  BY <1>2
<1> HIDE DEF late, high
<1>5. stamps \subseteq Int /\ stamps # {} /\ \A x \in stamps : x <= late
  <2>1. ASSUME NEW row \in SelectedRows(r) PROVE row.time \in Int /\ row.time <= late
    BY SMTT(30), <1>2, <1>3, <1>4
  <2>2. stamps = {from} \cup {row.time : row \in SelectedRows(r)}
    BY DEF from
  <2> QED
    BY <1>2, <1>4, <2>1, <2>2
<1>6. saves \subseteq Int /\ saves # {} /\ \A x \in saves : x <= high
  <2>1. ASSUME NEW row \in SelectedRows(r) PROVE row.saved \in Int /\ row.saved <= high
    BY SMTT(30), <1>2, <1>3, <1>4
  <2> QED
    BY <1>4, <2>1
<1> HIDE DEF stamps, saves
<1>7. Max(stamps) \in Int /\ Max(saves) \in Int
  BY <1>4, <1>5, <1>6, BoundedMax
<1>8. ASSUME NEW v \in r.vars PROVE Genuine(Series(r, v), v) /\ Series(r, v) \in Seq(Int)
  BY <1>1, SeriesIsGenuine DEF Genuine
<1>9. series \in [r.vars -> Seq(Int)] /\ \A v \in r.vars : series[v] = Series(r, v)
  BY <1>8
<1> HIDE DEF series
<1> DEFINE stamp == IF r.vars = {} THEN 0 ELSE Max(stamps)
           save == IF r.vars = {} THEN None ELSE Max(saves)
           vs == r.vars
<1>10. Response(r) = [server_time |-> now, timestamp |-> stamp, date_saved_max |-> save,
                      series |-> series]
  BY DEF Response, stamps, saves, series
<1>11. stamp \in Int /\ save \in Int
  BY <1>7 DEF None
<1>13. series \in [vs -> Seq(Int)]
  BY <1>9
<1> HIDE DEF stamp, save, vs
<1>14. Response(r) \in Answers(vs) /\ Response(r).series = series
  BY <1>1, <1>10, <1>11, <1>13 DEF Answers
<1>12. Response(r) \in Answers(r.vars) /\ Response(r).series = series
  BY <1>14 DEF vs
<1> QED
  BY <1>8, <1>9, <1>12
----------------------------------------------------------------------------
(* The samples held and answered, and what is recorded.                    *)

\* As long as nothing recorded is lost, what is genuine stays so.
LEMMA GenuineStays ==
    ASSUME NEW v, NEW s, Genuine(s, v), Known(v) \subseteq Known(v)'
    PROVE  Genuine(s, v)'
  BY DEF Genuine

LEMMA KnownStays ==
    ASSUME UNCHANGED rows, NEW v PROVE Known(v)' = Known(v)
  BY DEF Known

\* Handlers of the client, and the requests they send or take off, bring no answer of
\* their own.
LEMMA AnswersStay ==
    ASSUME AnswersInv, \A v \in Var : Known(v) \subseteq Known(v)',
           NetInv, \A r \in net' : r \in net \/ r.answer = {}
    PROVE  AnswersInv'
<1> SUFFICES ASSUME NEW r \in net', NEW a \in r.answer, NEW v \in r.vars
             PROVE  Genuine(a.series[v], v)'
  BY DEF AnswersInv
<1>1. r \in net /\ v \in Var
  BY DEF NetInv, IsRequest
<1>2. Genuine(a.series[v], v) /\ Known(v) \subseteq Known(v)'
  BY <1>1 DEF AnswersInv
<1> DEFINE s == a.series[v]
<1> HIDE DEF s
<1>3. Genuine(s, v)'
  BY <1>2, GenuineStays DEF s
<1> QED
  BY <1>3 DEF s

LEMMA DataStays ==
    ASSUME DataInv, \A v \in Var : Known(v) \subseteq Known(v)', UNCHANGED DATA
    PROVE  DataInv'
<1>1. DATA' \in [Var -> Seq(Int)]
  BY DEF DataInv
<1>2. ASSUME NEW v \in Var
      PROVE  Genuine(DATA[v], v)' /\ (v \notin ChartVars => Len(DATA'[v]) <= 1)
  <2>1. Genuine(DATA[v], v) /\ Known(v) \subseteq Known(v)' /\ DATA' = DATA
    BY DEF DataInv
  <2> QED
    BY <2>1 DEF DataInv, Genuine
<1> QED
  BY <1>1, <1>2 DEF DataInv
----------------------------------------------------------------------------
(* Steps of the server.                                                    *)

LEMMA TickStep ==
    ASSUME ServerInv, Tick
    PROVE  ServerInv' /\ \A v \in Var : Known(v) \subseteq Known(v)'
<1>1. now \in Nat /\ now' = now + 1 /\ UNCHANGED rows /\ rows \in [Var -> Seq(Row)]
  BY DEF ServerInv, Tick
<1>2. ASSUME NEW v \in Var, NEW i \in 1..Len(rows[v]) PROVE rows[v][i].time \in Int
  <2>1. rows[v] \in Seq(Row)
    BY <1>1
  <2>2. rows[v][i] \in Row
    BY <2>1, ElementOfSeq
  <2> QED
    BY <2>2 DEF Row
<1>3. RowsInOrder'
  <2> SUFFICES ASSUME NEW v \in Var, NEW i \in 1..Len(rows[v]), NEW j \in 1..Len(rows[v])
               PROVE  rows[v][i].time <= now + 1 /\ (i < j => rows[v][i].time < rows[v][j].time)
    BY <1>1 DEF RowsInOrder
  <2>1. rows[v][i].time <= now /\ (i < j => rows[v][i].time < rows[v][j].time)
    BY DEF ServerInv, RowsInOrder
  <2> DEFINE x == rows[v][i].time
  <2>2. x \in Int /\ x <= now
    BY <1>2, <2>1
  <2> HIDE DEF x
  <2>3. x <= now + 1
    BY <1>1, <2>2
  <2> QED
    BY <2>1, <2>3 DEF x
<1> QED
  BY <1>1, <1>3, KnownStays DEF ServerInv

\* A sample that is recorded is newer than those of its variable that were.
LEMMA RecordStep ==
    ASSUME ServerInv, NEW v \in Var, NEW t \in 1..MaxNow, ClientAssumption, Record(v, t)
    PROVE  /\ ServerInv'
           /\ Known(v)' = Known(v) \cup {t}
           /\ \A u \in Known(v) : u < t
           /\ \A w \in Var \ {v} : Known(w)' = Known(w)
<1> DEFINE s == rows[v]
           e == [time |-> t, saved |-> now]
<1>1. /\ now \in Nat /\ rows \in [Var -> Seq(Row)] /\ s \in Seq(Row) /\ Len(s) \in Nat
      /\ t \in Int /\ e \in Row
  BY LenProperties DEF ServerInv, ClientAssumption, Row
<1>2. /\ t < now /\ UNCHANGED now /\ rows' = [rows EXCEPT ![v] = Append(@, e)]
      /\ s # <<>> => Final(s).time < t
  BY DEF Record
<1>3. rows'[v] = Append(s, e) /\ \A w \in Var \ {v} : rows'[w] = rows[w]
  BY <1>1, <1>2
<1>4. /\ Append(s, e) \in Seq(Row) /\ Len(Append(s, e)) = Len(s) + 1
      /\ \A i \in 1..Len(s) : Append(s, e)[i] = s[i]
      /\ Append(s, e)[Len(s) + 1] = e
  BY <1>1, AppendProperties
<1>5. e.time = t
  OBVIOUS
<1> HIDE DEF e
<1>6. rows' \in [Var -> Seq(Row)]
  BY <1>1, <1>2, <1>4
<1>7. ASSUME NEW i \in 1..Len(s) PROVE s[i].time \in Int /\ s[i].time < t
  <2>1. s[i] \in Row
    BY <1>1, <1>7, ElementOfSeq
  <2>2. Len(s) \in 1..Len(s) /\ s # <<>>
    BY <1>1, <1>7, EmptySeq
  <2>3. s[Len(s)] \in Row
    BY <1>1, <2>2, ElementOfSeq
  <2>4. i = Len(s) \/ s[i].time < s[Len(s)].time
    BY <1>1, <1>7, <2>2 DEF ServerInv, RowsInOrder
  <2>5. s[Len(s)].time < t
    BY <1>2, <2>2 DEF Final
  <2> DEFINE x == s[i].time
             y == s[Len(s)].time
  <2>6. x \in Int /\ y \in Int /\ (x = y \/ x < y) /\ y < t
    BY <2>1, <2>3, <2>4, <2>5 DEF Row
  <2> HIDE DEF x, y
  <2>7. x \in Int /\ x < t
    BY <1>1, <2>6
  <2> QED
    BY <2>7 DEF x
<1>8. ASSUME NEW i \in 1..Len(rows'[v])
      PROVE  \/ i \in 1..Len(s) /\ rows'[v][i] = s[i]
             \/ i = Len(s) + 1 /\ rows'[v][i].time = t
  BY SMTT(30), <1>1, <1>3, <1>4, <1>5
<1>9. RowsInOrder'
  <2> SUFFICES ASSUME NEW w \in Var, NEW i \in 1..Len(rows'[w]), NEW j \in 1..Len(rows'[w])
               PROVE  /\ rows'[w][i].time <= now
                      /\ i < j => rows'[w][i].time < rows'[w][j].time
    BY <1>2 DEF RowsInOrder
  <2>1. CASE w # v
    BY <1>3, <2>1 DEF ServerInv, RowsInOrder
  <2>2. CASE w = v
    <3>1. rows'[v][i].time <= now
      <4> DEFINE x == rows'[v][i].time
      <4>1. x \in Int /\ (x < t \/ x = t)
        BY <1>1, <1>7, <1>8, <2>2
      <4> HIDE DEF x
      <4>3. t < now /\ t \in Int /\ now \in Int
        BY <1>1, <1>2
      <4>2. x <= now
        BY SMTT(30), <4>1, <4>3
      <4> QED
        BY <4>2 DEF x
    <3>2. ASSUME i < j PROVE rows'[v][i].time < rows'[v][j].time
      <4>1. i \in 1..Len(s) /\ rows'[v][i] = s[i]
        BY SMTT(30), <1>1, <1>3, <1>4, <1>8, <2>2, <3>2
      <4>2. CASE j \in 1..Len(s) /\ rows'[v][j] = s[j]
        BY <3>2, <4>1, <4>2 DEF ServerInv, RowsInOrder
      <4>3. CASE j = Len(s) + 1 /\ rows'[v][j].time = t
        BY <1>7, <4>1, <4>3
      <4> QED
        BY <1>8, <2>2, <4>2, <4>3
    <3> QED
      BY <2>2, <3>1, <3>2
  <2> QED
    BY <2>1, <2>2
<1>10. Known(v)' = Known(v) \cup {t}
  <2>1. ASSUME NEW i \in 1..Len(rows'[v]) PROVE rows'[v][i].time \in Known(v) \cup {t}
    BY <1>8 DEF Known
  <2>2. ASSUME NEW i \in 1..Len(s) PROVE s[i].time \in Known(v)'
    <3>1. i \in 1..Len(rows'[v]) /\ rows'[v][i] = s[i]
      BY <1>1, <1>3, <1>4
    <3> QED
      BY <3>1 DEF Known
  <2>3. t \in Known(v)'
    <3>1. Len(s) + 1 \in 1..Len(rows'[v]) /\ rows'[v][Len(s) + 1].time = t
      BY <1>1, <1>3, <1>4, <1>5
    <3> QED
      BY <3>1 DEF Known
  <2> QED
    BY <2>1, <2>2, <2>3 DEF Known
<1>11. \A u \in Known(v) : u < t
  BY <1>7 DEF Known
<1>12. \A w \in Var \ {v} : Known(w)' = Known(w)
  BY <1>3 DEF Known
<1> QED
  BY <1>1, <1>2, <1>6, <1>9, <1>10, <1>11, <1>12 DEF ServerInv
----------------------------------------------------------------------------
(* Steps of the client.                                                    *)

\* What add_fetched_data makes of a genuine series and the samples held.
LEMMA AddedIsGenuine ==
    ASSUME NEW v \in Var, NEW series, Genuine(series, v), Genuine(DATA[v], v),
           v \notin ChartVars => Len(DATA[v]) <= 1
    PROVE  /\ Genuine(Added(v, series), v)
           /\ v \notin ChartVars => Len(Added(v, series)) <= 1
           /\ v \in ChartVars => Times(DATA[v]) \subseteq Times(Added(v, series))
<1>1. CASE v \in ChartVars
  <2> DEFINE d == DATA[v]
  <2>1. series \in Seq(Int) /\ d \in Seq(Int) /\ Sorted(series) /\ Sorted(d)
    BY DEF Genuine
  <2>2. Added(v, series) = Merge(series, d)
    BY <1>1 DEF Added
  <2>3. Times(series) \subseteq Known(v) /\ Times(d) \subseteq Known(v)
    BY DEF Genuine
  <2> HIDE DEF d
  <2>4. /\ Merge(series, d) \in Seq(Int) /\ Sorted(Merge(series, d))
        /\ Times(d) \subseteq Times(Merge(series, d))
        /\ Times(Merge(series, d)) \subseteq Times(d) \cup Times(series)
    BY <2>1, MergeKeeps
  <2>5. Genuine(Merge(series, d), v)
    BY <2>3, <2>4 DEF Genuine
  <2> QED
    BY <1>1, <2>2, <2>4, <2>5 DEF d
<1>2. CASE v \notin ChartVars /\ series = <<>>
  BY <1>2 DEF Added, Times
<1>3. CASE v \notin ChartVars /\ series # <<>>
  <2>1. /\ series \in Seq(Int) /\ Len(series) \in 1..Len(series) /\ Final(series) \in Int
        /\ Final(series) \in Times(series)
    <3>1. series \in Seq(Int)
      BY DEF Genuine
    <3>2. Len(series) \in 1..Len(series)
      BY <1>3, <3>1, EmptySeq, LenProperties
    <3> QED
      BY <3>1, <3>2, ElementOfSeq DEF Final, Times
  <2> DEFINE x == Final(series)
             s == <<x>>
  <2>2. Added(v, series) = s
    BY <1>3 DEF Added
  <2>3. x \in Int /\ x \in Known(v)
    BY <2>1 DEF Genuine
  <2> HIDE DEF x
  <2>4. s \in Seq(Int) /\ Len(s) = 1 /\ s[1] = x
    BY <2>3
  <2> HIDE DEF s
  <2>5. Sorted(s) /\ Times(s) \subseteq Known(v)
    BY <2>3, <2>4 DEF Sorted, Times
  <2> QED
    BY <1>3, <2>2, <2>4, <2>5 DEF Genuine
<1> QED
  BY <1>1, <1>2, <1>3

LEMMA DoneStep ==
    ASSUME NetInv, AnswersInv, DataInv, NEW r \in net, Done(r)
    PROVE  /\ DataInv' /\ UNCHANGED rows
           /\ \A v \in ChartVars : Times(DATA[v]) \subseteq Times(DATA'[v])
<1>1. UNCHANGED rows /\ \A v : Known(v)' = Known(v)
  BY KnownStays DEF Done, server
<1>2. PICK a \in r.answer :
         IF DATA_TO_TIMESTAMP = 0 THEN UNCHANGED DATA
         ELSE DATA' = [v \in Var |-> IF v \in r.vars THEN Added(v, a.series[v]) ELSE DATA[v]]
  BY DEF Done
<1>3. CASE UNCHANGED DATA
  BY <1>1, <1>3, DataStays
<1>4. CASE DATA' = [v \in Var |-> IF v \in r.vars THEN Added(v, a.series[v]) ELSE DATA[v]]
  <2>1. ASSUME NEW v \in Var
        PROVE  /\ Genuine(DATA'[v], v)
               /\ v \notin ChartVars => Len(DATA'[v]) <= 1
               /\ v \in ChartVars => Times(DATA[v]) \subseteq Times(DATA'[v])
    <3>1. Genuine(DATA[v], v) /\ (v \notin ChartVars => Len(DATA[v]) <= 1)
      BY DEF DataInv
    <3>2. CASE v \in r.vars
      <4> DEFINE series == a.series[v]
      <4>1. Genuine(series, v) /\ DATA'[v] = Added(v, series)
        BY <1>4, <3>2 DEF AnswersInv
      <4> HIDE DEF series
      <4> QED
        BY <3>1, <4>1, AddedIsGenuine
    <3>3. CASE v \notin r.vars
      BY <1>4, <3>1, <3>3
    <3> QED
      BY <3>2, <3>3
  <2>2. DATA' \in [Var -> Seq(Int)]
    <3>1. DATA' = [v \in Var |-> DATA'[v]]
      BY <1>4
    <3>2. \A v \in Var : DATA'[v] \in Seq(Int)
      BY <2>1 DEF Genuine
    <3> QED
      BY <3>1, <3>2
  <2>3. ASSUME NEW v \in Var PROVE Genuine(DATA[v], v)'
    BY <1>1, <2>1 DEF Genuine
  <2>4. \A v \in ChartVars : Times(DATA[v]) \subseteq Times(DATA'[v])
    BY <2>1 DEF Var
  <2> QED
    BY <1>1, <2>1, <2>2, <2>3, <2>4 DEF DataInv
<1> QED
  BY <1>2, <1>3, <1>4

\* The instant up to which a history is asked for.
LEMMA HistoryToIsInt ==
    ASSUME ServerInv, DataInv, ClientInv, NEW b \in SUBSET Var
    PROVE  HistoryTo(b) \in Int
<1> DEFINE firsts == {First(DATA[v]) : v \in {w \in b : DATA[w] # <<>>}}
           high == IF now < DATA_FROM_TIMESTAMP THEN DATA_FROM_TIMESTAMP ELSE now
           S == {DATA_FROM_TIMESTAMP} \cup firsts
<1>1. now \in Int /\ DATA_FROM_TIMESTAMP \in Int /\ DATA_TO_TIMESTAMP \in Int
  BY DEF ServerInv, ClientInv
<1>2. ASSUME NEW v \in Var, DATA[v] # <<>> PROVE First(DATA[v]) \in Int /\ First(DATA[v]) <= now
  <2>1. DATA[v] \in Seq(Int) /\ 1 \in 1..Len(DATA[v]) /\ Times(DATA[v]) \subseteq Known(v)
    <3>1. DATA[v] \in Seq(Int) /\ Times(DATA[v]) \subseteq Known(v)
      BY DEF DataInv, Genuine
    <3>2. Len(DATA[v]) \in Nat \ {0}
      BY <1>2, <3>1, EmptySeq
    <3> QED
      BY <3>1, <3>2
  <2>2. First(DATA[v]) \in Int /\ First(DATA[v]) \in Known(v)
    BY <2>1, ElementOfSeq DEF First, Times
  <2>3. \A u \in Known(v) : u <= now
    BY DEF Known, ServerInv, RowsInOrder
  <2> QED
    BY <2>2, <2>3
<1>3. high \in Int /\ now <= high /\ DATA_FROM_TIMESTAMP <= high
  BY <1>1
<1> HIDE DEF high
<1>4. \A x \in firsts : x \in Int /\ x <= high
  <2>1. ASSUME NEW v \in Var, DATA[v] # <<>> PROVE First(DATA[v]) \in Int /\ First(DATA[v]) <= high
    <3> DEFINE x == First(DATA[v])
    <3>1. x \in Int /\ x <= now
      BY <1>2, <2>1
    <3> HIDE DEF x
    <3>2. x \in Int /\ x <= high
      BY <1>1, <1>3, <3>1
    <3> QED
      BY <3>2 DEF x
  <2> QED
    BY <2>1
<1> HIDE DEF firsts
<1>5. S \subseteq Int /\ S # {} /\ \A x \in S : x <= high
  BY <1>1, <1>3, <1>4
<1> HIDE DEF S
<1>6. Max(S) \in Int
  BY <1>3, <1>5, BoundedMax
<1>7. HistoryTo(b) = IF Max(S) = DATA_FROM_TIMESTAMP THEN DATA_TO_TIMESTAMP ELSE Max(S)
  BY DEF HistoryTo, S, firsts
<1> QED
  BY <1>1, <1>6, <1>7
----------------------------------------------------------------------------
(* The invariant is inductive.                                             *)

\* A handler that leaves the server, the answers and the samples held alone.
LEMMA HandlerStep ==
    ASSUME IInv, UNCHANGED <<server, DATA>>, NetInv', ClientInv',
           \A r \in net' : r \in net \/ r.answer = {}
    PROVE  IInv'
<1>1. /\ ServerInv /\ NetInv /\ AnswersInv /\ DataInv /\ UNCHANGED <<now, rows, DATA>>
      /\ \A v : Known(v)' = Known(v)
  BY KnownStays DEF IInv, server
<1>2. ServerInv'
  BY <1>1 DEF ServerInv, RowsInOrder
<1>3. AnswersInv' /\ DataInv'
  BY <1>1, AnswersStay, DataStays
<1> QED
  BY <1>2, <1>3 DEF IInv

LEMMA SendingStep ==
    ASSUME IInv, UNCHANGED clicks, AskTime \/ Poll \/ FetchStatus \/ FetchChart
    PROVE  IInv'
<1>1. /\ ServerInv /\ NetInv /\ DataInv /\ ClientInv /\ now \in Int
      /\ DATA_INIT_STATUS \in Nat
  BY DEF IInv, ClientInv, ServerInv
<1>2. {} \in SUBSET Var /\ Var \in SUBSET Var /\ None \in Int /\ TRUE \in BOOLEAN
  BY DEF None
<1> DEFINE Sent == /\ NetInv' /\ request_data' \in [init : BOOLEAN, vars : SUBSET Var]
                   /\ \A r \in net' : r \in net \/ r.answer = {}
<1>3. ASSUME AskTime PROVE Sent /\ KEYS' \in [Var -> Int]
  <2>1. Send(FALSE, {}, now, None) /\ UNCHANGED KEYS
    BY <1>3 DEF AskTime
  <2>2. Sent
    BY <1>1, <1>2, <2>1, SendCounts
  <2> QED
    BY <1>1, <2>1, <2>2 DEF ClientInv
<1>4. ASSUME Poll PROVE Sent /\ KEYS' \in [Var -> Int]
  <2>1. Send(FALSE, Var, LAST_QUERY_TIME, None) /\ FETCH_DATA_PENDING <= 0 /\ UNCHANGED KEYS
    BY <1>4 DEF Poll
  <2>2. LAST_QUERY_TIME \in Int
    BY <1>1 DEF ClientInv
  <2>3. Sent
    BY <1>1, <1>2, <2>1, <2>2, SendCounts
  <2> QED
    BY <1>1, <2>1, <2>3 DEF ClientInv
<1>5. ASSUME FetchStatus PROVE Sent /\ KEYS' \in [Var -> Int]
  <2>1. PICK b \in Batches(StatusToDo, StatusBatch) \ {{}} :
           KEYS' = Counted(b) /\ Send(TRUE, b, DATA_TO_TIMESTAMP, None)
    BY <1>5 DEF FetchStatus
  <2>2. b \in SUBSET Var /\ DATA_TO_TIMESTAMP \in Int /\ FETCH_DATA_PENDING <= 1
    BY <1>1, <1>5 DEF Batches, StatusToDo, Status, Var, ClientInv, FetchStatus, MayFetch
  <2>3. Sent
    BY <1>1, <1>2, <2>1, <2>2, SendCounts
  <2> QED
    BY <1>1, <2>1, <2>3 DEF ClientInv, Counted
<1>6. ASSUME FetchChart PROVE Sent /\ KEYS' \in [Var -> Int]
  <2>1. PICK b \in Batches(ChartToDo, ChartBatch) \ {{}} :
           KEYS' = Counted(b) /\ Send(TRUE, b, DATA_FROM_TIMESTAMP, HistoryTo(b))
    BY <1>6 DEF FetchChart
  <2>2. b \in SUBSET Var /\ DATA_FROM_TIMESTAMP \in Int /\ FETCH_DATA_PENDING <= 1
    BY <1>1, <1>6 DEF Batches, ChartToDo, Var, ClientInv, FetchChart, MayFetch
  <2>3. HistoryTo(b) \in Int
    BY <1>1, <2>2, HistoryToIsInt
  <2>4. Sent
    BY <1>1, <1>2, <2>1, <2>2, <2>3, SendCounts
  <2> QED
    BY <1>1, <2>1, <2>4 DEF ClientInv, Counted
<1>7. Sent /\ KEYS' \in [Var -> Int]
  BY <1>3, <1>4, <1>5, <1>6
<1>8. UNCHANGED <<server, times, init, switch, history, DATA, JSON_ERROR_COUNT, clicks>>
  BY DEF AskTime, Poll, FetchStatus, FetchChart
<1>9. ClientInv'
  BY <1>1, <1>7, <1>8 DEF ClientInv, times, init, switch, history
<1> QED
  BY <1>7, <1>8, <1>9, HandlerStep

LEMMA InitialisedStep ==
    ASSUME IInv, UNCHANGED clicks, StatusDone \/ ChartDone
    PROVE  IInv'
<1>1. /\ UNCHANGED <<server, times, ajax, switch, history, DATA, KEYS, JSON_ERROR_COUNT, clicks,
                     DATA_INIT_STATUS>>
      /\ INIT_STATUS_VARIABLES_DONE' \in BOOLEAN /\ INIT_CHART_VARIABLES_DONE' \in BOOLEAN
  BY DEF StatusDone, ChartDone, IInv, ClientInv
<1>2. ClientInv'
  BY <1>1 DEF IInv, ClientInv, times, ajax, switch, history
<1>3. NetInv' /\ net' = net
  BY <1>1 DEF IInv, NetInv, ajax, Distinct, PendingIsInFlight, BoundedInFlight, Polls, Loads
<1> QED
  BY <1>1, <1>2, <1>3, HandlerStep

LEMMA AnsweringStep ==
    ASSUME IInv, UNCHANGED clicks, NEW r \in net, Answer(r)
    PROVE  IInv'
<1>1. /\ ServerInv /\ NetInv /\ AnswersInv /\ DataInv /\ ClientInv
      /\ IsRequest(r) /\ ClientAssumption
  BY ClientAssumption DEF IInv, NetInv
<1> DEFINE x == Response(r)
<1>2. /\ r.answer = {} /\ net' = (net \ {r}) \cup {[r EXCEPT !.answer = {x}]}
      /\ UNCHANGED <<server, times, init, FETCH_DATA_PENDING, request_data, switch, history,
                     DATA, KEYS, JSON_ERROR_COUNT, clicks>>
  BY DEF Answer
<1>3. x \in Answers(r.vars) /\ \A v \in r.vars : Genuine(x.series[v], v)
  BY <1>1, ResponseIsAnswer
<1> HIDE DEF x
<1>4. NetInv' /\ \A q \in net' : q \in net \/ (q.vars = r.vars /\ q.answer = {x})
  BY <1>1, <1>2, <1>3, AnswerCounts
<1>5. UNCHANGED <<now, rows>> /\ \A v : Known(v)' = Known(v)
  BY <1>2, KnownStays DEF server
<1>6. AnswersInv'
  <2> SUFFICES ASSUME NEW q \in net', NEW a \in q.answer, NEW v \in q.vars
               PROVE  Genuine(a.series[v], v)
    BY <1>5 DEF AnswersInv, Genuine
  <2>1. CASE q \in net
    BY <1>1, <2>1 DEF AnswersInv
  <2>2. CASE q.vars = r.vars /\ q.answer = {x}
    BY <1>3, <2>2
  <2> QED
    BY <1>4, <2>1, <2>2
<1>7. ServerInv'
  BY <1>1, <1>5 DEF ServerInv, RowsInOrder
<1>8. DataInv'
  BY <1>1, <1>2, <1>5, DataStays
<1>9. ClientInv'
  BY <1>1, <1>2 DEF ClientInv, times, init, switch, history
<1> QED
  BY <1>4, <1>6, <1>7, <1>8, <1>9 DEF IInv

LEMMA FinishingStep ==
    ASSUME IInv, UNCHANGED clicks, NEW r \in net, Done(r) \/ Fail(r)
    PROVE  IInv'
<1>1. /\ ServerInv /\ NetInv /\ AnswersInv /\ DataInv /\ ClientInv
      /\ IsRequest(r)
  BY DEF IInv, NetInv
<1>2. Finish(r) /\ UNCHANGED <<now, rows>>
  BY DEF Done, Fail, server
<1>3. NetInv' /\ net' \subseteq net /\ UNCHANGED request_data
  BY <1>1, <1>2, FinishCounts
<1>4. \A v : Known(v)' = Known(v)
  BY <1>2, KnownStays
<1>5. ServerInv'
  BY <1>1, <1>2 DEF ServerInv, RowsInOrder
<1>6. AnswersInv'
  BY <1>1, <1>3, <1>4, AnswersStay
<1>7. DataInv'
  <2>1. CASE Done(r)
    BY <1>1, <2>1, DoneStep
  <2>2. CASE Fail(r)
    <3>1. UNCHANGED DATA
      BY <2>2 DEF Fail
    <3> QED
      BY <1>1, <1>4, <3>1, DataStays
  <2> QED
    BY <2>1, <2>2
<1>8. ClientInv'
  <2>1. CASE Done(r)
    <3>1. PICK a \in r.answer :
             /\ SERVER_TIME' = a.server_time
             /\ LAST_QUERY_TIME' = IF a.date_saved_max = None THEN LAST_QUERY_TIME
                                   ELSE a.date_saved_max
             /\ IF DATA_TO_TIMESTAMP = 0
                THEN /\ DATA_TO_TIMESTAMP' = a.server_time
                     /\ DATA_FROM_TIMESTAMP' = a.server_time - Window
                ELSE /\ DATA_TO_TIMESTAMP' = Max({DATA_TO_TIMESTAMP, a.timestamp})
                     /\ UNCHANGED DATA_FROM_TIMESTAMP
      BY <2>1 DEF Done
    <3>2. a.server_time \in Int /\ a.date_saved_max \in Int /\ a.timestamp \in Int
      BY <1>1, <3>1 DEF IsRequest, Answers
    <3>3. Max({DATA_TO_TIMESTAMP, a.timestamp}) \in Int
      BY <1>1, <3>2, MaxOfTwo DEF ClientInv
    <3>4. SERVER_TIME' \in Int /\ LAST_QUERY_TIME' \in Int
      BY <1>1, <3>1, <3>2 DEF ClientInv
    <3>9. Window \in Int /\ a.server_time - Window \in Int
      BY <3>2, ClientAssumption DEF ClientAssumption
    <3>5. DATA_TO_TIMESTAMP' \in Int /\ DATA_FROM_TIMESTAMP' \in Int
      <4>1. CASE DATA_TO_TIMESTAMP = 0
        BY <3>1, <3>2, <3>9, <4>1
      <4>2. CASE ~(DATA_TO_TIMESTAMP = 0)
        BY <1>1, <3>1, <3>3, <4>2 DEF ClientInv
      <4> QED
        BY <4>1, <4>2
    <3>6. JSON_ERROR_COUNT' \in Nat
      BY <1>1, <2>1 DEF Done, Forgiven, ClientInv
    <3>7. loaded' \subseteq Var \X Nat
      <4>1. r.vars \X {r.round} \subseteq Var \X Nat
        BY <1>1 DEF IsRequest
      <4> QED
        BY <1>1, <2>1, <4>1 DEF Done, ClientInv
    <3>8. UNCHANGED <<init, switch, failures, KEYS, clicks, request_data>>
      BY <1>3, <2>1 DEF Done
    <3> QED
      BY <1>1, <3>4, <3>5, <3>6, <3>7, <3>8 DEF ClientInv, init, switch
  <2>2. CASE Fail(r)
    <3>4. failures' \in 0..MaxFail
      <4>1. MaxFail \in Nat
        BY ClientAssumption DEF ClientAssumption
      <4> QED
        BY <1>1, <2>2, <4>1 DEF Fail, ClientInv
    <3>5. KEYS' \in [Var -> Int]
      BY <1>1, <2>2 DEF Fail, Rollback, ClientInv
    <3>1. AUTO_UPDATE_ACTIVE' \in BOOLEAN
      BY <1>1, <2>2 DEF Fail, Toggle, ClientInv
    <3>2. JSON_ERROR_COUNT' \in Nat
      BY <1>1, <2>2 DEF Fail, Toggle, ClientInv
    <3>3. UNCHANGED <<times, init, PREVIOUS_AUTO_UPDATE_ACTIVE_STATE, picker, loaded, clicks,
                      request_data>>
      BY <1>3, <2>2 DEF Fail
    <3> QED
      BY <1>1, <3>1, <3>2, <3>3, <3>4, <3>5 DEF ClientInv, times, init
  <2> QED
    BY <2>1, <2>2
<1> QED
  BY <1>3, <1>5, <1>6, <1>7, <1>8 DEF IInv

LEMMA ServerStep ==
    ASSUME IInv, Server
    PROVE  IInv'
<1>1. /\ ServerInv /\ NetInv /\ AnswersInv /\ DataInv /\ ClientInv /\ ClientAssumption
      /\ UNCHANGED clicks
  BY ClientAssumption DEF IInv, Server
<1>2. ServerInv' /\ \A v \in Var : Known(v) \subseteq Known(v)'
  <2>1. CASE Tick
    BY <1>1, <2>1, TickStep
  <2>2. CASE Recording
    <3>1. PICK v \in Var, t \in 1..MaxNow : Record(v, t)
      BY <2>2 DEF Recording
    <3>2. /\ ServerInv' /\ Known(v)' = Known(v) \cup {t}
          /\ \A w \in Var \ {v} : Known(w)' = Known(w)
      BY <1>1, <3>1, RecordStep
    <3> QED
      BY <3>2
  <2> QED
    BY <2>1, <2>2 DEF Server
<1>3. UNCHANGED <<times, init, ajax, switch, history, DATA, KEYS, JSON_ERROR_COUNT, clicks>>
  BY <1>1 DEF Server, Tick, Recording, Record
<1>4. NetInv' /\ net' = net
  BY <1>1, <1>3 DEF NetInv, ajax, Distinct, PendingIsInFlight, BoundedInFlight, Polls, Loads
<1>5. AnswersInv' /\ DataInv'
  BY <1>1, <1>2, <1>3, <1>4, AnswersStay, DataStays
<1>6. ClientInv'
  BY <1>1, <1>3 DEF ClientInv, times, init, ajax, switch, history
<1> QED
  BY <1>2, <1>4, <1>5, <1>6 DEF IInv

LEMMA UserStep ==
    ASSUME IInv, User
    PROVE  IInv'
<1>1. /\ ClientInv /\ clicks' \in 0..MaxClicks /\ clicks' = clicks + 1 /\ clicks \in Nat
      /\ Window \in Nat /\ \A range \in Ranges : range[1] \in Int /\ range[2] \in Int
  <2>1. ClientInv /\ clicks \in 0..MaxClicks
    BY DEF IInv, ClientInv
  <2>2. MaxClicks \in Nat /\ Window \in Nat /\ Ranges \subseteq (Int \X (Nat \ {0}))
    BY ClientAssumption DEF ClientAssumption
  <2>3. clicks < MaxClicks /\ clicks' = clicks + 1
    BY DEF User
  <2>4. \A range \in Ranges : range[1] \in Int /\ range[2] \in Int
    BY <2>2
  <2> QED
    BY <2>1, <2>2, <2>3, <2>4
<1>2. UNCHANGED <<server, ajax, history, DATA, KEYS>>
  BY DEF User, ToggleSwitch, PlusTwoHours, ShowPicker, HidePicker, PickRange, Restart
<1> DEFINE Switched == /\ AUTO_UPDATE_ACTIVE' \in BOOLEAN /\ JSON_ERROR_COUNT' \in Nat
                       /\ PREVIOUS_AUTO_UPDATE_ACTIVE_STATE' \in BOOLEAN /\ picker' \in BOOLEAN
           Restarted == /\ DATA_INIT_STATUS' \in Nat /\ DATA_INIT_STATUS' <= clicks'
                        /\ INIT_CHART_VARIABLES_DONE' \in BOOLEAN
                        /\ UNCHANGED INIT_STATUS_VARIABLES_DONE
           Moved == DATA_FROM_TIMESTAMP' \in Int /\ DATA_TO_TIMESTAMP' \in Int
<1>3. ASSUME NEW previous \in BOOLEAN, Resume(previous) PROVE Switched
  BY <1>1, <1>3 DEF Resume, Toggle, ClientInv
<1>4. ASSUME Restart PROVE Restarted
  <2>1. DATA_INIT_STATUS \in Nat /\ DATA_INIT_STATUS <= clicks
        /\ DATA_INIT_STATUS' = DATA_INIT_STATUS + 1
    BY <1>1, <1>4 DEF Restart, ClientInv
  <2>2. DATA_INIT_STATUS' \in Nat /\ DATA_INIT_STATUS' <= clicks'
    BY <1>1, <2>1
  <2> QED
    BY <1>4, <2>2 DEF Restart
<1>5. ASSUME UNCHANGED init PROVE Restarted
  BY <1>1, <1>5 DEF init, ClientInv
<1>6. Switched /\ Restarted /\ Moved /\ UNCHANGED <<SERVER_TIME, LAST_QUERY_TIME>>
  <2>1. CASE ToggleSwitch
    BY <1>1, <1>5, <2>1 DEF ToggleSwitch, Toggle, times, ClientInv
  <2>2. CASE PlusTwoHours
    BY <1>1, <1>4, <2>2 DEF PlusTwoHours, switch, ClientInv
  <2>3. CASE ShowPicker
    BY <1>1, <1>5, <2>3 DEF ShowPicker, Toggle, times, ClientInv
  <2>4. CASE HidePicker
    BY <1>1, <1>3, <1>5, <2>4 DEF HidePicker, times, ClientInv
  <2>5. CASE \E range \in Ranges, recent \in BOOLEAN : PickRange(range[1], range[2], recent)
    <3>1. PICK range \in Ranges, recent \in BOOLEAN : PickRange(range[1], range[2], recent)
      BY <2>5
    <3>2. Min({range[2], SERVER_TIME}) \in Int
      BY <1>1, MinOfTwo DEF ClientInv
    <3> QED
      BY <1>1, <1>3, <1>4, <3>1, <3>2 DEF PickRange, ClientInv
  <2> QED
    BY <2>1, <2>2, <2>3, <2>4, <2>5 DEF User
<1>7. ClientInv'
  BY <1>1, <1>2, <1>6 DEF ClientInv, ajax, history
<1>8. NetInv' /\ net' = net
  BY <1>2 DEF IInv, NetInv, ajax, Distinct, PendingIsInFlight, BoundedInFlight, Polls, Loads
<1> QED
  BY <1>2, <1>7, <1>8, HandlerStep

LEMMA InitHolds == Init => IInv
<1> SUFFICES ASSUME Init PROVE IInv
  OBVIOUS
<1>1. /\ History \in [Var -> Seq(Row)] /\ Start \in Nat /\ MaxClicks \in Nat /\ MaxFail \in Nat
      /\ \A v \in Var : \A i, j \in 1..Len(History[v]) :
            /\ History[v][i].time < History[v][i].saved /\ History[v][i].saved <= Start
            /\ i < j => History[v][i].time < History[v][j].time
  BY ClientAssumption DEF ClientAssumption
<1>2. ServerInv
  <2>1. ASSUME NEW v \in Var, NEW i \in 1..Len(History[v]) PROVE History[v][i].time <= Start
    <3>1. History[v] \in Seq(Row)
      BY <1>1
    <3>2. History[v][i] \in Row
      BY <3>1, <2>1, ElementOfSeq
    <3> DEFINE t == History[v][i].time
               u == History[v][i].saved
    <3>3. t \in Int /\ u \in Int /\ t < u /\ u <= Start
      BY <1>1, <3>2 DEF Row
    <3> HIDE DEF t, u
    <3>4. t <= Start
      BY <1>1, <3>3
    <3> QED
      BY <3>4 DEF t
  <2> QED
    BY <1>1, <2>1 DEF Init, ServerInv, RowsInOrder
<1>3. NetInv
  <2>1. net = {} /\ FETCH_DATA_PENDING = 0 /\ Polls = {} /\ Polls \cup Loads = {}
    BY DEF Init, Polls, Loads
  <2> QED
    BY <2>1, NoAnswer DEF NetInv, Distinct, PendingIsInFlight, BoundedInFlight
<1>4. AnswersInv
  BY DEF Init, AnswersInv
<1>5. DataInv
  <2>1. \A v \in Var : DATA[v] = <<>>
    BY DEF Init
  <2>2. \A v \in Var : Genuine(<<>>, v)
    BY EmptySeq DEF Genuine, Sorted, Times
  <2> QED
    BY <2>1, <2>2, EmptySeq DEF DataInv, Init
<1>6. ClientInv
  <2>1. request_data \in [init : BOOLEAN, vars : SUBSET Var] /\ KEYS \in [Var -> Int]
    BY DEF Init
  <2>2. 0 \in 0..MaxFail /\ 0 \in 0..MaxClicks /\ 0 <= 0 /\ 0 \in Nat /\ 0 \in Int
    BY <1>1
  <2>3. loaded \subseteq Var \X Nat
    BY DEF Init
  <2> QED
    BY <2>1, <2>2, <2>3 DEF Init, ClientInv
<1> QED
  BY <1>2, <1>3, <1>4, <1>5, <1>6 DEF IInv

LEMMA NextKeeps == IInv /\ [Next]_vars => IInv'
<1> SUFFICES ASSUME IInv, [Next]_vars PROVE IInv'
  OBVIOUS
<1>1. CASE Client
  <2>1. CASE AskTime \/ Poll \/ FetchStatus \/ FetchChart
    BY <1>1, <2>1, SendingStep DEF Client
  <2>2. CASE StatusDone \/ ChartDone
    BY <1>1, <2>2, InitialisedStep DEF Client
  <2> QED
    BY <1>1, <2>1, <2>2 DEF Client, DataHandler
<1>2. CASE Ajax
  <2>1. PICK r \in net : Answer(r) \/ Done(r) \/ Fail(r)
    BY <1>2 DEF Ajax, Network
  <2>2. UNCHANGED clicks
    BY <1>2 DEF Ajax
  <2> QED
    BY <2>1, <2>2, AnsweringStep, FinishingStep
<1>3. CASE Server
  BY <1>3, ServerStep
<1>4. CASE User
  BY <1>4, UserStep
<1>5. CASE UNCHANGED vars
  <2>1. UNCHANGED <<server, times, init, ajax, switch, history, DATA, KEYS, JSON_ERROR_COUNT,
                    clicks>>
    BY <1>5 DEF vars
  <2>2. NetInv' /\ net' = net
    BY <2>1 DEF IInv, NetInv, ajax, Distinct, PendingIsInFlight, BoundedInFlight, Polls, Loads
  <2>3. ClientInv'
    BY <2>1 DEF IInv, ClientInv, times, init, ajax, switch, history
  <2> QED
    BY <2>1, <2>2, <2>3, HandlerStep
<1> QED
  BY <1>1, <1>2, <1>3, <1>4, <1>5 DEF Next

\* Whatever happens, the state of the page, of the server and of what is on its way
\* between them satisfies the invariant.
THEOREM InvariantHolds == Spec => []IInv
  BY InitHolds, NextKeeps, PTL DEF Spec
----------------------------------------------------------------------------
\* All variables have their types, for any number of variables, clicks and failures.
THEOREM TypeCorrect == Spec => []TypeOK
<1>1. IInv => TypeOK
  <2> SUFFICES ASSUME IInv PROVE TypeOK
    OBVIOUS
  <2>1. IsFiniteSet(net) /\ FETCH_DATA_PENDING \in Int
    BY FS_CardinalityType DEF IInv, NetInv, PendingIsInFlight
  <2>2. DATA_INIT_STATUS \in 0..MaxClicks
    <3>1. MaxClicks \in Nat
      BY ClientAssumption DEF ClientAssumption
    <3> QED
      BY <3>1 DEF IInv, ClientInv
  <2>3. \A r \in net : IsRequest(r)
    BY DEF IInv, NetInv
  <2>4. now \in Nat /\ rows \in [Var -> Seq(Row)] /\ DATA \in [Var -> Seq(Int)]
    BY DEF IInv, ServerInv, DataInv
  <2> QED
    BY <2>1, <2>2, <2>3, <2>4 DEF IInv, ClientInv, TypeOK
<1> QED
  BY <1>1, InvariantHolds, PTL

\* data_handler_ajax, data_handler_done and data_handler_fail keep exact books over the
\* requests in flight.
THEOREM PendingExact == Spec => []PendingIsInFlight
<1>1. IInv => PendingIsInFlight
  BY DEF IInv, NetInv
<1> QED
  BY <1>1, InvariantHolds, PTL

\* data_handler never has more than one poll and two requests for data in flight.
THEOREM FewInFlight == Spec => []BoundedInFlight
<1>1. IInv => BoundedInFlight
  BY DEF IInv, NetInv
<1> QED
  BY <1>1, InvariantHolds, PTL

\* add_fetched_data keeps the samples of every chart in the order of their times,
\* whatever ranges are answered in which order.
THEOREM ChartsSorted == Spec => []SortedCharts
<1>1. IInv => SortedCharts
  BY DEF IInv, DataInv, Genuine, SortedCharts, Var
<1> QED
  BY <1>1, InvariantHolds, PTL
----------------------------------------------------------------------------
(* The initialisation.                                                     *)

\* The initialisation of a variable of a round is over or in flight.
Underway(v, round) ==
    \/ <<v, round>> \in loaded
    \/ \E r \in net : r.init /\ v \in r.vars /\ r.round = round

\* The counts of the variables say what has been asked for, and the flags follow them.
Asked ==
    /\ \A v \in Status : KEYS[v] >= 1 => Underway(v, 0)
    /\ \A v \in ChartVars : KEYS[v] > DATA_INIT_STATUS => Underway(v, DATA_INIT_STATUS)
    /\ \A v \in ChartVars : KEYS[v] <= DATA_INIT_STATUS + 1
Flagged ==
    /\ INIT_STATUS_VARIABLES_DONE => \A v \in Status : KEYS[v] >= 1
    /\ INIT_CHART_VARIABLES_DONE => \A v \in ChartVars : KEYS[v] > DATA_INIT_STATUS
    /\ ~INIT_STATUS_VARIABLES_DONE =>
          DATA_INIT_STATUS = 0 /\ ~picker /\ ~INIT_CHART_VARIABLES_DONE
LoadInv == failures = 0 => Asked /\ Flagged

\* What is initialised or on its way stays so until a request fails.
LEMMA UnderwayStays ==
    ASSUME IInv, [Next]_vars, failures' = 0
    PROVE  failures = 0 /\ \A v, round : Underway(v, round) => Underway(v, round)'
<1>1. failures \in Nat
  BY DEF IInv, ClientInv
<1>2. CASE (UNCHANGED loaded /\ net \subseteq net') /\ UNCHANGED failures
  BY <1>2 DEF Underway
<1>3. CASE \E r \in net : Answer(r)
  <2>1. PICK r \in net : Answer(r)
    BY <1>3
  <2> DEFINE x == Response(r)
             new == [r EXCEPT !.answer = {x}]
  <2>2. net' = (net \ {r}) \cup {new} /\ UNCHANGED <<loaded, failures>>
    BY <2>1 DEF Answer, history
  <2>3. new.init = r.init /\ new.vars = r.vars /\ new.round = r.round
    <3>1. Shaped(r)
      BY DEF IInv, NetInv
    <3>2. new = Request(r.id, r.init, r.vars, r.from, r.to, r.round, {x})
      BY <3>1, AnsweredShape
    <3> HIDE DEF new
    <3> QED
      BY <3>2, FieldsOf
  <2> HIDE DEF new
  <2> QED
    BY <2>2, <2>3 DEF Underway
<1>4. CASE \E r \in net : Done(r)
  <2>1. PICK r \in net : Done(r)
    BY <1>4
  <2>2. /\ loaded' = IF r.init THEN loaded \cup (r.vars \X {r.round}) ELSE loaded
        /\ net' = net \ {r} /\ UNCHANGED failures
    BY <2>1 DEF Done, Finish
  <2> QED
    BY <2>2 DEF Underway
<1>5. CASE \E r \in net : Fail(r)
  BY <1>1, <1>5 DEF Fail
<1>6. \/ (UNCHANGED loaded /\ net \subseteq net') /\ UNCHANGED failures
      \/ \E r \in net : Answer(r) \/ Done(r) \/ Fail(r)
  <2>1. CASE Client
    BY <2>1 DEF Client, DataHandler, AskTime, Poll, FetchStatus, StatusDone, FetchChart,
                ChartDone, Send, ajax, history
  <2>2. CASE Ajax
    BY <2>2 DEF Ajax, Network
  <2>3. CASE Server
    BY <2>3 DEF Server, Tick, Recording, Record, ajax, history
  <2>4. CASE User
    BY <2>4 DEF User, ToggleSwitch, PlusTwoHours, ShowPicker, HidePicker, PickRange, ajax,
                history
  <2>5. CASE UNCHANGED vars
    BY <2>5 DEF vars, ajax, history
  <2> QED
    BY <2>1, <2>2, <2>3, <2>4, <2>5 DEF Next
<1> QED
  BY <1>2, <1>3, <1>4, <1>5, <1>6

\* What a step leaves to LoadInv when it does not touch the counts.
LEMMA CountsStay ==
    ASSUME IInv, LoadInv, [Next]_vars, failures' = 0, UNCHANGED <<KEYS, DATA_INIT_STATUS>>
    PROVE  Asked'
<1>1. /\ Asked /\ \A v, round : Underway(v, round) => Underway(v, round)'
  BY UnderwayStays DEF LoadInv
<1> QED
  BY <1>1 DEF Asked

\* A batch of variables is counted and asked for in one step.
LEMMA BatchAsked ==
    ASSUME NEW b \in SUBSET Var, NEW from, NEW to, Send(TRUE, b, from, to),
           UNCHANGED DATA_INIT_STATUS
    PROVE  \A v \in b : Underway(v, DATA_INIT_STATUS)'
<1>1. PICK i \in 1..(Cardinality(net) + 1) :
         net' = net \cup {Request(i, TRUE, b, from, to, DATA_INIT_STATUS, {})}
  BY DEF Send, Request
<1> DEFINE new == Request(i, TRUE, b, from, to, DATA_INIT_STATUS, {})
<1>2. new.init = TRUE /\ new.vars = b /\ new.round = DATA_INIT_STATUS
  BY DEF Request
<1> HIDE DEF new
<1>3. new \in net'
  BY <1>1 DEF new
<1> QED
  BY <1>2, <1>3 DEF Underway

LEMMA LoadKept == IInv /\ LoadInv /\ [Next]_vars => LoadInv'
<1> SUFFICES ASSUME IInv, LoadInv, [Next]_vars, failures' = 0
             PROVE  Asked' /\ Flagged'
  BY DEF LoadInv
<1>1. /\ Asked /\ Flagged
      /\ \A v, round : Underway(v, round) => Underway(v, round)'
      /\ DATA_INIT_STATUS \in Nat /\ KEYS \in [Var -> Int]
      /\ INIT_STATUS_VARIABLES_DONE \in BOOLEAN /\ INIT_CHART_VARIABLES_DONE \in BOOLEAN
      /\ picker \in BOOLEAN
  BY UnderwayStays DEF LoadInv, IInv, ClientInv
<1>2. Status \subseteq Var /\ ChartVars \subseteq Var /\ Status \cap ChartVars = {}
  BY DEF Status, Var
<1> DEFINE Same == UNCHANGED <<KEYS, init, picker>>
<1>3. CASE Same
  <2>1. Asked'
    BY <1>3, CountsStay DEF init
  <2>2. Flagged'
    BY <1>1, <1>3 DEF Flagged, init
  <2> QED
    BY <2>1, <2>2
<1>4. CASE FetchStatus
  <2>1. PICK b \in Batches(StatusToDo, StatusBatch) \ {{}} :
           KEYS' = Counted(b) /\ Send(TRUE, b, DATA_TO_TIMESTAMP, None)
    BY <1>4 DEF FetchStatus
  <2>2. /\ b \subseteq Status /\ ~INIT_STATUS_VARIABLES_DONE
        /\ UNCHANGED <<init, picker>>
    BY <1>4, <2>1 DEF Batches, StatusToDo, FetchStatus, switch
  <2>3. \A v \in b : Underway(v, 0)'
    <3>1. DATA_INIT_STATUS = 0 /\ DATA_INIT_STATUS' = 0
      BY <1>1, <2>2 DEF Flagged, init
    <3>2. \A v \in b : Underway(v, DATA_INIT_STATUS)'
      BY <1>2, <2>1, <2>2, <3>1, BatchAsked
    <3> QED
      BY <3>1, <3>2 DEF Underway
  <2>4. \A v \in Var : KEYS'[v] = IF v \in b THEN KEYS[v] + 1 ELSE KEYS[v]
    BY <2>1 DEF Counted
  <2>5. Asked'
    <3>1. ASSUME NEW v \in Status, KEYS'[v] >= 1 PROVE Underway(v, 0)'
      BY <1>1, <1>2, <2>3, <2>4, <3>1 DEF Asked
    <3>2. \A v \in ChartVars : KEYS'[v] = KEYS[v]
      BY <1>2, <2>2, <2>4
    <3>3. DATA_INIT_STATUS' = DATA_INIT_STATUS
      BY <2>2 DEF init
    <3> QED
      BY <1>1, <3>1, <3>2, <3>3 DEF Asked
  <2>6. Flagged'
    BY <1>1, <2>2 DEF Flagged, init
  <2> QED
    BY <2>5, <2>6
<1>5. CASE StatusDone
  <2>1. /\ \A v \in Status : ~(KEYS[v] < 1)
        /\ UNCHANGED <<KEYS, DATA_INIT_STATUS, picker>>
        /\ INIT_STATUS_VARIABLES_DONE' = TRUE /\ UNCHANGED INIT_CHART_VARIABLES_DONE
    BY <1>5 DEF StatusDone, StatusToDo, switch
  <2>2. \A v \in Status : KEYS'[v] >= 1
    BY <1>1, <1>2, <2>1
  <2>3. Asked'
    BY <2>1, CountsStay
  <2>4. Flagged'
    BY <1>1, <2>1, <2>2 DEF Flagged
  <2> QED
    BY <2>3, <2>4
<1>6. CASE FetchChart
  <2>1. PICK b \in Batches(ChartToDo, ChartBatch) \ {{}} :
           KEYS' = Counted(b) /\ Send(TRUE, b, DATA_FROM_TIMESTAMP, HistoryTo(b))
    BY <1>6 DEF FetchChart
  <2>2. /\ b \subseteq ChartVars /\ \A v \in b : KEYS[v] <= DATA_INIT_STATUS
        /\ INIT_STATUS_VARIABLES_DONE /\ ~INIT_CHART_VARIABLES_DONE
        /\ UNCHANGED <<init, picker>>
    BY <1>6, <2>1 DEF Batches, ChartToDo, FetchChart, switch
  <2>3. \A v \in b : Underway(v, DATA_INIT_STATUS)'
    BY <1>2, <2>1, <2>2, BatchAsked DEF init
  <2>4. \A v \in Var : KEYS'[v] = IF v \in b THEN KEYS[v] + 1 ELSE KEYS[v]
    BY <2>1 DEF Counted
  <2>5. \A v \in Status : KEYS'[v] = KEYS[v]
    BY <1>2, <2>2, <2>4
  <2>6. DATA_INIT_STATUS' = DATA_INIT_STATUS
    BY <2>2 DEF init
  <2>7. Asked'
    <3>1. ASSUME NEW v \in ChartVars
          PROVE  /\ KEYS'[v] <= DATA_INIT_STATUS + 1
                 /\ KEYS'[v] > DATA_INIT_STATUS => Underway(v, DATA_INIT_STATUS)'
      <4>1. CASE v \in b
        <5>1. KEYS'[v] = KEYS[v] + 1 /\ KEYS[v] \in Int
          BY <1>1, <1>2, <2>4, <4>1
        <5>2. KEYS[v] <= DATA_INIT_STATUS
          BY <2>2, <4>1
        <5>3. KEYS'[v] <= DATA_INIT_STATUS + 1
          BY <1>1, <5>1, <5>2
        <5> QED
          BY <2>3, <4>1, <5>3
      <4>2. CASE v \notin b
        <5>1. KEYS'[v] = KEYS[v]
          BY <1>2, <2>4, <4>2
        <5> QED
          BY <1>1, <1>2, <2>6, <5>1 DEF Asked, Underway
      <4> QED
        BY <4>1, <4>2
    <3>2. \A v \in Status : KEYS'[v] >= 1 => Underway(v, 0)'
      BY <1>1, <2>5 DEF Asked
    <3> QED
      BY <2>6, <3>1, <3>2 DEF Asked
  <2>8. Flagged'
    BY <1>1, <2>2, <2>5 DEF Flagged, init
  <2> QED
    BY <2>7, <2>8
<1>7. CASE ChartDone
  <2>1. /\ \A v \in ChartVars : ~(KEYS[v] <= DATA_INIT_STATUS)
        /\ UNCHANGED <<KEYS, DATA_INIT_STATUS, picker, INIT_STATUS_VARIABLES_DONE>>
        /\ INIT_STATUS_VARIABLES_DONE
    BY <1>7 DEF ChartDone, ChartToDo, switch
  <2>2. \A v \in ChartVars : KEYS'[v] > DATA_INIT_STATUS'
    BY <1>1, <1>2, <2>1
  <2>3. Asked'
    BY <2>1, CountsStay
  <2>4. Flagged'
    BY <1>1, <2>1, <2>2 DEF Flagged
  <2> QED
    BY <2>3, <2>4
<1>8. CASE \E r \in net : Fail(r)
  <2>1. failures' # 0
    BY <1>8 DEF Fail, IInv, ClientInv
  <2> QED
    BY <2>1
<1>9. CASE Restart /\ INIT_STATUS_VARIABLES_DONE
  <2>1. /\ DATA_INIT_STATUS' = DATA_INIT_STATUS + 1 /\ ~INIT_CHART_VARIABLES_DONE'
        /\ INIT_STATUS_VARIABLES_DONE' /\ UNCHANGED KEYS
    BY <1>9 DEF Restart
  <2>2. ASSUME NEW v \in ChartVars
        PROVE  ~(KEYS'[v] > DATA_INIT_STATUS') /\ KEYS'[v] <= DATA_INIT_STATUS' + 1
    <3>1. KEYS[v] \in Int /\ KEYS[v] <= DATA_INIT_STATUS + 1
      BY <1>1, <1>2 DEF Asked
    <3> QED
      BY <1>1, <2>1, <3>1
  <2>3. Asked'
    BY <1>1, <2>1, <2>2 DEF Asked
  <2>4. Flagged'
    BY <1>1, <1>9, <2>1 DEF Flagged
  <2> QED
    BY <2>3, <2>4
<1>10. CASE ShowPicker
  <2>1. UNCHANGED <<KEYS, init>> /\ (InitDone \/ DATA_INIT_STATUS > 0)
    BY <1>10 DEF ShowPicker
  <2>2. INIT_STATUS_VARIABLES_DONE
    BY <1>1, <2>1 DEF Flagged, InitDone
  <2>3. Asked'
    BY <2>1, CountsStay DEF init
  <2>4. Flagged'
    BY <1>1, <2>1, <2>2 DEF Flagged, init
  <2> QED
    BY <2>3, <2>4
<1>11. CASE HidePicker
  <2>1. UNCHANGED <<KEYS, init>> /\ ~picker'
    BY <1>11 DEF HidePicker, Resume
  <2>2. Asked'
    BY <2>1, CountsStay DEF init
  <2>3. Flagged'
    BY <1>1, <2>1 DEF Flagged, init
  <2> QED
    BY <2>2, <2>3
<1>12. \/ Same \/ FetchStatus \/ StatusDone \/ FetchChart \/ ChartDone
       \/ \E r \in net : Fail(r)
       \/ Restart /\ INIT_STATUS_VARIABLES_DONE
       \/ ShowPicker \/ HidePicker
  <2>1. CASE Client
    BY <2>1 DEF Client, DataHandler, AskTime, Poll, switch
  <2>2. CASE Ajax
    BY <2>2 DEF Ajax, Network, Answer, Done, switch
  <2>3. CASE Server
    BY <2>3 DEF Server, Tick, Recording, Record, switch
  <2>4. CASE User
    <3>1. PlusTwoHours => Restart /\ INIT_STATUS_VARIABLES_DONE
      BY <1>1 DEF PlusTwoHours, Flagged
    <3>2. ASSUME NEW range \in Ranges, NEW recent \in BOOLEAN,
                 PickRange(range[1], range[2], recent)
          PROVE  Restart /\ INIT_STATUS_VARIABLES_DONE
      BY <1>1, <3>2 DEF PickRange, Resume, Flagged
    <3>3. ToggleSwitch => Same
      BY DEF ToggleSwitch
    <3> QED
      BY <2>4, <3>1, <3>2, <3>3 DEF User
  <2>5. CASE UNCHANGED vars
    BY <2>5 DEF vars, switch
  <2> QED
    BY <2>1, <2>2, <2>3, <2>4, <2>5 DEF Next
<1> QED
  BY <1>3, <1>4, <1>5, <1>6, <1>7, <1>8, <1>9, <1>10, <1>11, <1>12

\* As long as no request fails, the flags of the initialisation tell the truth: when they
\* are up and nothing is in flight, every variable has been loaded for the current
\* range, however many variables, ranges and batches there are.
THEOREM AllLoaded == Spec => []EverythingLoaded
<1>1. Init => LoadInv
  BY DEF Init, LoadInv, Asked, Flagged, Status, Var
<1>2. LoadInv => EverythingLoaded
  <2> SUFFICES ASSUME LoadInv, InitDone, net = {}, failures = 0
               PROVE  /\ \A v \in Status : <<v, 0>> \in loaded
                      /\ \A v \in ChartVars : <<v, DATA_INIT_STATUS>> \in loaded
    BY DEF EverythingLoaded
  <2> QED
    BY DEF LoadInv, Asked, Flagged, Underway, InitDone
<1> QED
  BY <1>1, <1>2, LoadKept, InvariantHolds, PTL DEF Spec
----------------------------------------------------------------------------
(* The refinement of HmiView.                                              *)

\* A handler of the client, or the server, leaves what is shown alone, unless an answer
\* is handled.
LEMMA OnlyDoneShows ==
    ASSUME [Next]_vars
    PROVE  UNCHANGED DATA \/ \E r \in net : Done(r)
  BY DEF Next, Client, Ajax, Server, User, DataHandler, Network, Recording, AskTime, Poll,
         FetchStatus, StatusDone, FetchChart, ChartDone, Answer, Fail, Tick, Record, ToggleSwitch,
         PlusTwoHours, ShowPicker, HidePicker, PickRange, vars

LEMMA OnlyRecordRecords ==
    ASSUME [Next]_vars
    PROVE  \/ UNCHANGED rows
           \/ UNCHANGED DATA /\ \E v \in Var, t \in 1..MaxNow : Record(v, t)
  BY DEF Next, Client, Ajax, Server, User, DataHandler, Network, Recording, AskTime, Poll,
         FetchStatus, StatusDone, FetchChart, ChartDone, Answer, Done, Fail, Tick, Record,
         ToggleSwitch, PlusTwoHours, ShowPicker, HidePicker, PickRange, vars, server

\* A chart forgets no sample, whatever is answered in which order.
THEOREM NothingForgotten == Spec => ChartsOnlyGrow
<1>1. IInv /\ [Next]_vars => [\A v \in ChartVars : Times(DATA[v]) \subseteq Times(DATA'[v])]_DATA
  <2> SUFFICES ASSUME IInv, [Next]_vars, DATA' # DATA
               PROVE  \A v \in ChartVars : Times(DATA[v]) \subseteq Times(DATA'[v])
    OBVIOUS
  <2>1. PICK r \in net : Done(r)
    BY OnlyDoneShows
  <2> QED
    BY <2>1, DoneStep DEF IInv
<1> QED
  BY <1>1, InvariantHolds, PTL DEF Spec, ChartsOnlyGrow

\* A request has one answer at most.
OneAnswer == \A r \in net : \A a, b \in r.answer : a = b

LEMMA OneAnswerKept == IInv /\ OneAnswer /\ [Next]_vars => OneAnswer'
<1> SUFFICES ASSUME IInv, OneAnswer, [Next]_vars PROVE OneAnswer'
  OBVIOUS
<1>1. CASE net' \subseteq net
  BY <1>1 DEF OneAnswer
<1>2. ASSUME NEW isInit, NEW vs, NEW from, NEW to, Send(isInit, vs, from, to)
      PROVE  OneAnswer'
  <2>1. PICK i : net' = net \cup {Request(i, isInit, vs, from, to, DATA_INIT_STATUS, {})}
    BY <1>2 DEF Send, Request
  <2> QED
    BY <2>1, FieldsOf DEF OneAnswer
<1>3. ASSUME NEW q \in net, Answer(q) PROVE OneAnswer'
  <2> DEFINE x == Response(q)
             answered == [q EXCEPT !.answer = {x}]
  <2>1. net' = (net \ {q}) \cup {answered} /\ Shaped(q)
    BY <1>3 DEF Answer, IInv, NetInv
  <2> HIDE DEF x
  <2>2. answered.answer = {x}
    BY <2>1, AnsweredShape, FieldsOf
  <2> HIDE DEF answered
  <2> QED
    BY <2>1, <2>2 DEF OneAnswer
<1>4. CASE AskTime \/ Poll \/ FetchStatus \/ FetchChart
  BY <1>2, <1>4 DEF AskTime, Poll, FetchStatus, FetchChart
<1>5. CASE StatusDone \/ ChartDone \/ Server \/ User \/ UNCHANGED vars
  BY <1>1, <1>5 DEF StatusDone, ChartDone, Server, Tick, Recording, Record, User, ToggleSwitch,
     PlusTwoHours, ShowPicker, HidePicker, PickRange, ajax, vars
<1>6. CASE Network
  BY <1>1, <1>3, <1>6 DEF Network, Done, Fail, Finish
<1> QED
  BY <1>4, <1>5, <1>6 DEF Next, Client, DataHandler, Ajax

\* An answered request that leaves the network without a failure has been handled.
LEMMA AnsweredThenDone ==
    ASSUME IInv, Next, NEW r \in net, r.answer # {}, r \notin net', failures' = failures
    PROVE  Done(r)
<1>1. \A q \in net : ~Fail(q)
  BY DEF IInv, ClientInv, Fail
<1>2. ASSUME NEW q \in net, Answer(q) PROVE FALSE
  <2>1. q # r /\ r \in net \ {q}
    BY <1>2 DEF Answer
  <2> QED
    BY <1>2, <2>1 DEF Answer
<1>3. ASSUME NEW q \in net, Done(q) PROVE q = r
  BY <1>3 DEF Done, Finish
<1>4. \E q \in net : Done(q)
  <2>1. ~(net \subseteq net')
    OBVIOUS
  <2>2. ~DataHandler
    BY <2>1 DEF DataHandler, AskTime, Poll, FetchStatus, FetchChart, StatusDone, ChartDone, Send,
       ajax
  <2>3. ~Server /\ ~User
    BY <2>1 DEF Server, Tick, Recording, Record, User, ToggleSwitch, PlusTwoHours, ShowPicker,
       HidePicker, PickRange, ajax
  <2> QED
    BY <1>1, <1>2, <2>2, <2>3 DEF Next, Client, Ajax, Network
<1> QED
  BY <1>3, <1>4

\* What is in an answer is in the chart when it has been handled, or is of one of the
\* three kinds that a merge drops: whatever was loaded before, in whatever order.
THEOREM NothingOverlooked == Spec => AnswersTaken
<1> DEFINE Taken ==
             \A r \in net : \A a \in r.answer :
                r \notin net' /\ failures' = failures /\ DATA_TO_TIMESTAMP # 0 =>
                   \A v \in r.vars \cap ChartVars : \A t \in Times(a.series[v]) :
                      \/ t \in Times(DATA'[v])
                      \/ DATA[v] # <<>> /\ Dropped(t, a.series[v], DATA[v])
<1>1. Init => OneAnswer
  BY DEF Init, OneAnswer
<1>2. IInv /\ OneAnswer /\ [Next]_vars => [Taken]_vars
  <2> SUFFICES ASSUME IInv, OneAnswer, Next,
                      NEW r \in net, NEW a \in r.answer,
                      r \notin net', failures' = failures, DATA_TO_TIMESTAMP # 0,
                      NEW v \in r.vars \cap ChartVars, NEW t \in Times(a.series[v])
               PROVE  \/ t \in Times(DATA'[v])
                      \/ DATA[v] # <<>> /\ Dropped(t, a.series[v], DATA[v])
    OBVIOUS
  <2>1. Done(r)
    BY AnsweredThenDone
  <2>2. v \in Var /\ DATA' = [w \in Var |-> IF w \in r.vars THEN Added(w, a.series[w]) ELSE DATA[w]]
    BY <2>1 DEF Done, OneAnswer, Var
  <2> DEFINE value == a.series[v]
             data == DATA[v]
  <2>3. DATA'[v] = Merge(value, data)
    BY <2>2 DEF Added
  <2>4. value \in Seq(Int) /\ Sorted(value) /\ data \in Seq(Int) /\ Sorted(data)
    BY <2>2 DEF IInv, AnswersInv, DataInv, Genuine
  <2>5. t \in Times(value)
    OBVIOUS
  <2> HIDE DEF value, data
  <2>6. value # <<>>
    BY <2>5, EmptySeq DEF Times
  <2>7. CASE data = <<>>
    BY <2>3, <2>5, <2>6, <2>7 DEF Merge
  <2>8. CASE data # <<>>
    <3>1. t \in Times(Merge(value, data)) \/ Dropped(t, value, data)
      BY <2>4, <2>5, <2>6, <2>8, MergeLoses
    <3> QED
      BY <2>3, <2>8, <3>1 DEF value, data
  <2> QED
    BY <2>7, <2>8
<1>3. Spec => []OneAnswer
  BY <1>1, OneAnswerKept, InvariantHolds, PTL DEF Spec
<1> QED
  BY <1>2, <1>3, InvariantHolds, PTL DEF Spec, AnswersTaken

\* The client and the views implement HmiView: a sample shown was recorded, a chart
\* forgets none, any other variable shows at most one.
THEOREM ClientImplementsView == Spec => ViewSpec
<1> DEFINE recorded == [v \in Var |-> {rows[v][i].time : i \in 1..Len(rows[v])}]
           shown == [v \in Var |-> Times(DATA[v])]
<1>1. \A v \in Var : recorded[v] = Known(v) /\ shown[v] = Times(DATA[v])
  BY DEF Known
<1>2. Init => View!Init
  <2> SUFFICES ASSUME Init PROVE View!Init
    OBVIOUS
  <2>1. IInv
    BY InitHolds
  <2>2. ASSUME NEW v \in Var PROVE Known(v) \in SUBSET Int
    <3>1. rows[v] \in Seq(Row)
      BY <2>1 DEF IInv, ServerInv
    <3>2. \A i \in 1..Len(rows[v]) : rows[v][i].time \in Int
      <4>1. \A i \in 1..Len(rows[v]) : rows[v][i] \in Row
        BY <3>1, ElementOfSeq
      <4> QED
        BY <4>1 DEF Row
    <3> QED
      BY <3>2 DEF Known
  <2>3. recorded \in [Var -> SUBSET Int]
    BY <2>2 DEF Known
  <2>4. \A v \in Var : Times(DATA[v]) = {}
    BY EmptySeq DEF Init, Times
  <2>5. shown = [v \in Var |-> {}]
    BY <2>4
  <2> QED
    BY <2>3, <2>5 DEF View!Init
<1>3. IInv /\ IInv' /\ [Next]_vars => [View!Next]_<<recorded, shown>>
  <2> SUFFICES ASSUME IInv, IInv', [Next]_vars PROVE [View!Next]_<<recorded, shown>>
    OBVIOUS
  <2>1. CASE UNCHANGED rows /\ UNCHANGED DATA
    BY <2>1
  <2>2. CASE UNCHANGED rows /\ \E r \in net : Done(r)
    <3>1. PICK r \in net : Done(r)
      BY <2>2
    <3>2. /\ DataInv' /\ \A v : Known(v)' = Known(v)
          /\ \A v \in ChartVars : Times(DATA[v]) \subseteq Times(DATA'[v])
      BY <2>2, <3>1, DoneStep, KnownStays DEF IInv
    <3>3. UNCHANGED recorded
      BY <2>2
    <3>4. \A v \in Var : shown'[v] \subseteq recorded[v]
      BY ZenonT(40), <3>2 DEF DataInv, Genuine, Known
    <3>5. \A v \in ChartVars : shown[v] \subseteq shown'[v]
      BY <3>2 DEF Var
    <3>6. ASSUME NEW v \in Var \ ChartVars PROVE \A t, u \in shown'[v] : t = u
      <4>1. DATA'[v] \in Seq(Int) /\ Len(DATA'[v]) <= 1
        BY <3>2 DEF DataInv
      <4>2. Len(DATA'[v]) \in Nat
        BY <4>1, LenProperties
      <4>3. \A i, j \in 1..Len(DATA'[v]) : i = j
        BY <4>1, <4>2
      <4> QED
        BY <4>3 DEF Times
    <3>7. View!Show
      BY <3>3, <3>4, <3>5, <3>6 DEF View!Show
    <3> QED
      BY <3>7 DEF View!Next
  <2>3. CASE UNCHANGED DATA /\ \E v \in Var, t \in 1..MaxNow : Record(v, t)
    <3>1. PICK v \in Var, t \in 1..MaxNow : Record(v, t)
      BY <2>3
    <3>2. /\ Known(v)' = Known(v) \cup {t} /\ \A u \in Known(v) : u < t
          /\ \A w \in Var \ {v} : Known(w)' = Known(w)
      BY <3>1, RecordStep, ClientAssumption DEF IInv
    <3>3. recorded'[v] = Known(v)' /\ recorded[v] = Known(v)
          /\ \A w \in Var \ {v} : recorded'[w] = Known(w)' /\ recorded[w] = Known(w)
      BY DEF Known
    <3>4. UNCHANGED shown
      BY <2>3
    <3> HIDE DEF recorded, shown
    <3>5. /\ recorded[v] \subseteq recorded'[v]
          /\ \A u \in recorded[v], w \in recorded'[v] \ recorded[v] : u < w
          /\ \A w \in Var \ {v} : recorded'[w] = recorded[w]
      BY <3>2, <3>3
    <3>6. View!Record(v)
      BY <3>4, <3>5 DEF View!Record, recorded, shown
    <3> QED
      BY <3>6 DEF View!Next
  <2> QED
    BY <2>1, <2>2, <2>3, OnlyDoneShows, OnlyRecordRecords
<1> QED
  BY <1>2, <1>3, InvariantHolds, PTL DEF Spec, ViewSpec, View!Spec
----------------------------------------------------------------------------
(* The status variables.                                                   *)

\* Rows are recorded before now, and saved in the order of their times.
SavedInOrder ==
    \A v \in Var : \A i, j \in 1..Len(rows[v]) :
       /\ rows[v][i].time < now /\ rows[v][i].saved <= now
       /\ i < j => rows[v][i].saved <= rows[v][j].saved

\* A status variable is asked for by one request at a time, up to the latest sample: by its
\* initial request, which is counted, or by a poll, when all initial requests are over.
StatusRequests ==
    /\ \A v \in Status : KEYS[v] >= 0
    /\ \A r \in net : \A v \in r.vars \cap Status :
          /\ r.to = None
          /\ IF r.init THEN KEYS[v] >= 1 ELSE INIT_STATUS_VARIABLES_DONE
          /\ \A q \in net : v \in q.vars => q = r

\* What is on its way for it is not older than what is shown.
StatusAnswers ==
    \A r \in net : \A a \in r.answer : \A v \in r.vars \cap Status :
       DATA[v] # <<>> /\ a.series[v] # <<>> => Final(DATA[v]) <= Final(a.series[v])
StatusInv == SavedInOrder /\ (failures = 0 => StatusRequests /\ StatusAnswers)

LEMMA RowTypes ==
    ASSUME ServerInv, NEW v \in Var
    PROVE  /\ rows[v] \in Seq(Row) /\ Len(rows[v]) \in Nat /\ now \in Int
           /\ \A i \in 1..Len(rows[v]) :
                 rows[v][i] \in Row /\ rows[v][i].time \in Int /\ rows[v][i].saved \in Int
<1>1. rows[v] \in Seq(Row) /\ now \in Int
  BY DEF ServerInv
<1>2. \A i \in 1..Len(rows[v]) : rows[v][i] \in Row
  BY <1>1, ElementOfSeq
<1> QED
  BY <1>1, <1>2, LenProperties DEF Row

LEMMA SavedInit == Init => SavedInOrder
<1> SUFFICES ASSUME Init, NEW v \in Var, NEW i \in 1..Len(rows[v]), NEW j \in 1..Len(rows[v])
             PROVE  /\ rows[v][i].time < now /\ rows[v][i].saved <= now
                    /\ i < j => rows[v][i].saved <= rows[v][j].saved
  BY DEF SavedInOrder
<1>1. rows[v][i].time \in Int /\ rows[v][i].saved \in Int
  BY InitHolds, RowTypes DEF IInv
<1>2. /\ rows[v][i].time < rows[v][i].saved /\ rows[v][i].saved <= now
      /\ i < j => rows[v][i].saved <= rows[v][j].saved
      /\ now \in Int
  BY ClientAssumption DEF ClientAssumption, Init
<1> QED
  BY <1>1, <1>2

LEMMA SavedTick ==
    ASSUME IInv, SavedInOrder, Tick
    PROVE  SavedInOrder'
<1> SUFFICES ASSUME NEW v \in Var, NEW i \in 1..Len(rows[v]), NEW j \in 1..Len(rows[v])
             PROVE  /\ rows[v][i].time < now + 1 /\ rows[v][i].saved <= now + 1
                    /\ i < j => rows[v][i].saved <= rows[v][j].saved
  BY DEF SavedInOrder, Tick
<1>1. rows[v][i].time \in Int /\ rows[v][i].saved \in Int /\ now \in Int
  BY RowTypes DEF IInv
<1>2. /\ rows[v][i].time < now /\ rows[v][i].saved <= now
      /\ i < j => rows[v][i].saved <= rows[v][j].saved
  BY DEF SavedInOrder
<1> QED
  BY <1>1, <1>2

LEMMA SavedRecord ==
    ASSUME IInv, SavedInOrder, NEW v \in Var, NEW t \in 1..MaxNow, Record(v, t)
    PROVE  SavedInOrder'
<1> DEFINE s == rows[v]
           e == [time |-> t, saved |-> now]
<1>1. /\ rows \in [Var -> Seq(Row)] /\ s \in Seq(Row) /\ Len(s) \in Nat /\ now \in Int
      /\ t \in Int /\ e \in Row
  BY RowTypes, ClientAssumption DEF IInv, ServerInv, ClientAssumption, Row
<1>2. t < now /\ UNCHANGED now /\ rows' = [rows EXCEPT ![v] = Append(@, e)]
  BY DEF Record
<1>3. rows'[v] = Append(s, e) /\ \A w \in Var \ {v} : rows'[w] = rows[w]
  BY <1>1, <1>2
<1>4. /\ Len(Append(s, e)) = Len(s) + 1
      /\ \A i \in 1..Len(s) : Append(s, e)[i] = s[i]
      /\ Append(s, e)[Len(s) + 1] = e
  BY <1>1, AppendProperties
<1>5. e.time = t /\ e.saved = now
  OBVIOUS
<1> HIDE DEF e
<1>6. ASSUME NEW i \in 1..Len(rows'[v])
      PROVE  \/ i \in 1..Len(s) /\ rows'[v][i] = s[i]
             \/ i = Len(s) + 1 /\ rows'[v][i].time = t /\ rows'[v][i].saved = now
  BY SMTT(30), <1>1, <1>3, <1>4, <1>5
<1> SUFFICES ASSUME NEW w \in Var, NEW i \in 1..Len(rows'[w]), NEW j \in 1..Len(rows'[w])
             PROVE  /\ rows'[w][i].time < now /\ rows'[w][i].saved <= now
                    /\ i < j => rows'[w][i].saved <= rows'[w][j].saved
  BY <1>2 DEF SavedInOrder
<1>7. CASE w # v
  BY <1>3, <1>7 DEF SavedInOrder
<1>8. CASE w = v
  <2>1. CASE i \in 1..Len(s) /\ rows'[v][i] = s[i]
    <3>1. s[i].time < now /\ s[i].saved <= now
      BY <2>1 DEF SavedInOrder
    <3>2. CASE j \in 1..Len(s) /\ rows'[v][j] = s[j]
      BY <1>8, <2>1, <3>1, <3>2 DEF SavedInOrder
    <3>3. CASE j = Len(s) + 1 /\ rows'[v][j].saved = now
      BY <1>8, <2>1, <3>1, <3>3
    <3> QED
      BY <1>6, <1>8, <3>2, <3>3
  <2>2. CASE i = Len(s) + 1 /\ rows'[v][i].time = t /\ rows'[v][i].saved = now
    <3>1. Len(s) \in Nat /\ now \in Int
      BY <1>1
    <3>2. j \in 1..Len(s) \/ j = Len(s) + 1
      BY <1>6, <1>8
    <3> HIDE DEF s
    <3>3. ~(i < j) /\ now <= now
      BY <2>2, <3>1, <3>2
    <3> QED
      BY <1>2, <1>8, <2>2, <3>3
  <2> QED
    BY <1>6, <1>8, <2>1, <2>2
<1> QED
  BY <1>7, <1>8

LEMMA SavedKept ==
    ASSUME IInv, SavedInOrder, [Next]_vars
    PROVE  SavedInOrder'
<1>1. CASE Tick
  BY <1>1, SavedTick
<1>2. CASE \E v \in Var, t \in 1..MaxNow : Record(v, t)
  BY <1>2, SavedRecord
<1>3. CASE UNCHANGED <<now, rows>>
  BY <1>3 DEF SavedInOrder
<1>4. Tick \/ (\E v \in Var, t \in 1..MaxNow : Record(v, t)) \/ UNCHANGED <<now, rows>>
  BY DEF Next, Client, Ajax, Server, User, DataHandler, Network, Recording, AskTime, Poll,
         FetchStatus, StatusDone, FetchChart, ChartDone, Answer, Done, Fail,
         ToggleSwitch, PlusTwoHours, ShowPicker, HidePicker, PickRange, vars, server
<1> QED
  BY <1>1, <1>2, <1>3, <1>4

\* A query up to now that returns a row of a variable returns its last one.
LEMMA LastIsSelected ==
    ASSUME ServerInv, SavedInOrder, ClientAssumption, NEW r, IsRequest(r), r.to = None,
           NEW v \in Var, NEW i \in Selected(r, v)
    PROVE  Len(rows[v]) \in Selected(r, v)
<1> DEFINE n == Len(rows[v])
           from == RangeFrom(r)
           low == IF r.init THEN from - LookBack ELSE from
<1>1. /\ n \in Nat /\ now \in Int
      /\ \A j \in 1..n : rows[v][j].time \in Int /\ rows[v][j].saved \in Int
  BY RowTypes
<1>2. from \in Int /\ low \in Int /\ from - LookBack \in Int
  <2>1. from \in Int /\ LookBack \in Int
    BY RangeIsInt DEF ClientAssumption
  <2> HIDE DEF from
  <2> QED
    BY <2>1
<1>3. RangeTo(r) = now
  BY DEF RangeTo
<1>4. /\ i \in 1..n /\ n \in 1..n
      /\ from - LookBack <= rows[v][i].time /\ low <= rows[v][i].saved
  BY <1>1 DEF Selected
<1>5. /\ rows[v][n].time < now /\ rows[v][n].saved <= now
      /\ i < n => rows[v][i].time < rows[v][n].time /\ rows[v][i].saved <= rows[v][n].saved
  BY <1>4 DEF SavedInOrder, ServerInv, RowsInOrder
<1> DEFINE x == rows[v][i].time
           y == rows[v][n].time
           p == rows[v][i].saved
           q == rows[v][n].saved
           least == from - LookBack
<1>6. i = n \/ i < n
  BY <1>1, <1>4
<1>7. /\ x \in Int /\ y \in Int /\ p \in Int /\ q \in Int /\ least \in Int
      /\ (x = y /\ p = q) \/ (x < y /\ p <= q)
  BY <1>1, <1>2, <1>4, <1>5, <1>6
<1>8. least <= x /\ low <= p
  BY <1>4
<1> HIDE DEF x, y, p, q, least, low, from
<1>9. least <= y /\ low <= q
  BY <1>2, <1>7, <1>8
<1> QED
  BY <1>3, <1>4, <1>5, <1>9 DEF Selected, x, y, p, q, least, low, from

LEMMA TwiceFinal ==
    ASSUME NEW s \in Seq(Int), s # <<>>
    PROVE  Final(Twice(s)) = Final(s)
<1>1. Len(s) \in Nat /\ Len(s) \in 1..Len(s) /\ Final(s) \in Int
  BY EmptySeq, LenProperties, ElementOfSeq DEF Final
<1> DEFINE x == Final(s)
<1> HIDE DEF x
<1>2. x \in Int
  BY <1>1 DEF x
<1>3. Len(Append(s, x)) = Len(s) + 1 /\ Append(s, x)[Len(s) + 1] = x
  BY <1>2, AppendProperties
<1> QED
  BY <1>3 DEF Twice, Final, x

\* A stretch of a series of a variable up to now ends with its last row.
LEMMA InRangeFinal ==
    ASSUME ServerInv, SavedInOrder, ClientAssumption, NEW r, IsRequest(r), r.to = None,
           NEW v \in Var, InRange(r, v) # <<>>
    PROVE  Final(InRange(r, v)) = Final(rows[v]).time
<1> DEFINE I == {i \in Selected(r, v) : rows[v][i].time >= RangeFrom(r)}
           n == Len(rows[v])
<1>1. n \in Nat /\ \A i \in 1..n : rows[v][i].time \in Int
  BY RowTypes
<1>2. I # {} /\ I \subseteq 1..n
  BY DEF InRange, Selected
<1>3. PICK i \in I : TRUE
  BY <1>2
<1>4. n \in Selected(r, v) /\ i \in 1..n /\ n \in 1..n /\ rows[v][i].time >= RangeFrom(r)
  <2>1. i \in Selected(r, v) /\ rows[v][i].time >= RangeFrom(r)
    BY <1>3
  <2>2. i \in 1..n
    BY <2>1 DEF Selected
  <2>3. n \in Selected(r, v)
    BY <2>1, LastIsSelected
  <2> QED
    BY <1>1, <2>1, <2>2, <2>3
<1>5. n \in I
  <2>1. i = n \/ rows[v][i].time < rows[v][n].time
    BY <1>1, <1>4 DEF ServerInv, RowsInOrder
  <2> DEFINE x == rows[v][i].time
             y == rows[v][n].time
             from == RangeFrom(r)
  <2>2. x \in Int /\ y \in Int /\ from \in Int /\ x >= from /\ (x = y \/ x < y)
    BY <1>1, <1>4, <2>1, RangeIsInt
  <2> HIDE DEF x, y, from
  <2>3. y >= from
    BY <2>2
  <2> QED
    BY <1>4, <2>3 DEF y, from
<1> HIDE DEF I, n
<1>6. /\ I \subseteq Int /\ I # {} /\ n \in Int /\ 1 \in Int
      /\ (\A j \in I : 1 <= j) /\ \A j \in I : j <= n
  BY <1>1, <1>2
<1>7. Max(I) \in I /\ \A j \in I : Max(I) >= j
  BY <1>6, BoundedMax
<1>8. Min(I) \in I
  BY <1>6, BoundedMin
<1> DEFINE m == Min(I)
           k == Max(I)
<1>9. k = n /\ m \in 1..n /\ n \in m..n
  <2>1. k \in Int /\ m \in Int /\ k <= n /\ k >= n /\ 1 <= m /\ m <= n
    BY <1>5, <1>6, <1>7, <1>8
  <2> HIDE DEF k, m
  <2> QED
    BY <1>6, <2>1
<1>11. InRange(r, v) = [j \in 1..(n - m + 1) |-> rows[v][m + j - 1].time]
  BY <1>2, <1>9 DEF InRange, I
<1> HIDE DEF m, k
<1> DEFINE s == [j \in 1..(n - m + 1) |-> rows[v][m + j - 1].time]
<1>12. Len(s) = n - m + 1
  BY <1>9, StretchInOrder DEF n
<1>13. n - m + 1 \in 1..(n - m + 1) /\ m + (n - m + 1) - 1 = n
  BY <1>6, <1>9
<1>14. s[n - m + 1] = rows[v][n].time
  BY <1>13
<1> HIDE DEF s
<1>15. Final(s) = rows[v][n].time
  BY <1>12, <1>14 DEF Final
<1> QED
  BY <1>11, <1>15 DEF s, n, Final

\* So does every series that answers a request up to now.
LEMMA NewestAnswered ==
    ASSUME ServerInv, SavedInOrder, ClientAssumption, NEW r, IsRequest(r), r.to = None,
           NEW v \in Var, Series(r, v) # <<>>
    PROVE  Final(Series(r, v)) = Final(rows[v]).time
<1> DEFINE before == {i \in Selected(r, v) : rows[v][i].time < RangeFrom(r)}
           part == InRange(r, v)
           n == Len(rows[v])
           last == Final(rows[v]).time
<1>1. n \in Nat /\ rows[v] \in Seq(Row) /\ \A i \in 1..n : rows[v][i].time \in Int
  BY RowTypes
<1>2. part \in Seq(Int) /\ Len(part) \in Nat /\ (part # <<>> => Final(part) = last)
  BY InRangeInOrder, InRangeFinal, LenProperties DEF Genuine
<1>3. CASE ~r.init
  BY <1>2, <1>3 DEF Series
<1>4. CASE r.init /\ before # {}
  <2>1. PICK i \in before : TRUE
    BY <1>4
  <2>2. n \in Selected(r, v) /\ n \in 1..n
    BY <2>1, LastIsSelected DEF Selected
  <2>3. /\ before \subseteq 1..n /\ before \subseteq Int /\ before # {} /\ n \in Int
        /\ \A j \in before : j <= n
    <3>1. before \subseteq 1..n /\ before # {}
      BY <1>4 DEF Selected
    <3> HIDE DEF before, n
    <3> QED
      BY <1>1, <3>1
  <2>4. part = <<>> => n \in before
    <3>1. ASSUME part = <<>> PROVE ~(rows[v][n].time >= RangeFrom(r))
      <4> DEFINE I == {j \in Selected(r, v) : rows[v][j].time >= RangeFrom(r)}
      <4>1. ASSUME I # {} PROVE FALSE
        <5>1. part = [k \in 1..(Max(I) - Min(I) + 1) |-> rows[v][Min(I) + k - 1].time]
          BY <4>1 DEF InRange
        <5>7. I \subseteq 1..n
          BY DEF Selected
        <5> HIDE DEF I, n
        <5>2. /\ I \subseteq Int /\ I # {} /\ n \in Int /\ 1 \in Int
              /\ (\A j \in I : 1 <= j) /\ \A j \in I : j <= n
          BY <1>1, <4>1, <5>7
        <5>3. Max(I) \in I /\ Min(I) \in I /\ Max(I) >= Min(I)
          BY <5>2, BoundedMax, BoundedMin
        <5>4. 1 \in 1..(Max(I) - Min(I) + 1)
          <6> DEFINE k == Max(I)
                     m == Min(I)
          <6>1. k \in Int /\ m \in Int /\ k >= m
            BY <5>2, <5>3
          <6> HIDE DEF k, m
          <6>2. 1 \in 1..(k - m + 1)
            BY <6>1
          <6> QED
            BY <6>2 DEF k, m
        <5>5. DOMAIN part = 1..(Max(I) - Min(I) + 1)
          BY <5>1
        <5>6. DOMAIN part = {}
          BY <3>1
        <5> QED
          BY <5>4, <5>5, <5>6
      <4> QED
        BY <2>2, <4>1
    <3>2. rows[v][n].time \in Int /\ RangeFrom(r) \in Int
      BY <1>1, <2>2, RangeIsInt
    <3> QED
      BY <2>2, <3>1, <3>2
  <2> HIDE DEF before
  <2>5. Max(before) \in before /\ \A j \in before : Max(before) >= j
    BY <2>3, BoundedMax
  <2> DEFINE x == rows[v][Max(before)].time
  <2>6. x \in Int
    BY <1>1, <2>3, <2>5
  <2>7. part = <<>> => x = last
    <3> DEFINE k == Max(before)
    <3>2. k \in Int /\ k <= n /\ n \in Int /\ (part = <<>> => k >= n)
      BY <2>3, <2>4, <2>5
    <3> HIDE DEF k, n, part
    <3>3. part = <<>> => k = n
      BY <3>2
    <3>1. part = <<>> => Max(before) = n
      BY <3>3 DEF k
    <3> QED
      BY <3>1 DEF Final, n
  <2>8. Series(r, v) = Twice(<<x>> \o part)
    BY <1>4 DEF Series, before
  <2> HIDE DEF x, part, last
  <2> DEFINE p == <<x>>
             t == p \o part
  <2>9. p \in Seq(Int) /\ Len(p) = 1 /\ p[1] = x
    BY <2>6
  <2> HIDE DEF p
  <2>10. /\ t \in Seq(Int) /\ Len(t) = Len(p) + Len(part)
         /\ \A k \in 1..(Len(p) + Len(part)) :
               t[k] = IF k <= Len(p) THEN p[k] ELSE part[k - Len(p)]
    BY <1>2, <2>9, ConcatProperties
  <2> HIDE DEF t
  <2>11. Len(t) = 1 + Len(part) /\ 1 + Len(part) \in 1..(1 + Len(part))
    BY <1>2, <2>9, <2>10
  <2>12. Final(t) = last
    <3>1. CASE part = <<>>
      <4>1. Len(t) = 1 /\ t[1] = x
        BY <1>2, <2>9, <2>10, <2>11, <3>1, EmptySeq
      <4> QED
        BY <2>7, <3>1, <4>1 DEF Final
    <3>2. CASE part # <<>>
      <4>1. Len(part) # 0
        BY <1>2, <3>2, EmptySeq
      <4> DEFINE k == 1 + Len(part)
      <4>4. k \in 1..(Len(p) + Len(part))
        BY <1>2, <2>9
      <4> HIDE DEF k
      <4>5. t[k] = IF k <= Len(p) THEN p[k] ELSE part[k - Len(p)]
        BY <2>10, <4>4
      <4> USE DEF k
      <4>3. t[1 + Len(part)] = IF 1 + Len(part) <= 1 THEN p[1 + Len(part)]
                               ELSE part[1 + Len(part) - 1]
        BY <2>9, <4>5
      <4>2. t[1 + Len(part)] = part[Len(part)]
        BY <1>2, <4>1, <4>3
      <4> QED
        BY <1>2, <2>11, <3>2, <4>2 DEF Final
    <3> QED
      BY <3>1, <3>2
  <2>13. t # <<>>
    BY <1>2, <2>10, <2>11, EmptySeq
  <2> QED
    BY <2>8, <2>10, <2>12, <2>13, TwiceFinal DEF t, p, last
<1>5. CASE r.init /\ before = {} /\ rows[v] # <<>>
  <2>1. n \in 1..n
    BY <1>1, <1>5, EmptySeq
  <2>2. last \in Int
    BY <1>1, <2>1 DEF Final
  <2>3. Series(r, v) = Twice(Append(part, last))
    BY <1>5 DEF Series
  <2> HIDE DEF last, part
  <2> DEFINE t == Append(part, last)
  <2>4. t \in Seq(Int) /\ Len(t) = Len(part) + 1 /\ t[Len(part) + 1] = last
    BY <1>2, <2>2, AppendProperties
  <2> HIDE DEF t
  <2>5. Final(t) = last /\ t # <<>>
    BY <1>2, <2>4, EmptySeq DEF Final
  <2> QED
    BY <2>3, <2>4, <2>5, TwiceFinal DEF t, last
<1>6. CASE r.init /\ before = {} /\ rows[v] = <<>>
  BY <1>6 DEF Series
<1> QED
  BY <1>3, <1>4, <1>5, <1>6

\* Nothing that was recorded is newer than the last row.
LEMMA LastIsNewest ==
    ASSUME ServerInv, NEW v \in Var, NEW s, Genuine(s, v), s # <<>>
    PROVE  Final(s) <= Final(rows[v]).time
<1> DEFINE n == Len(rows[v])
<1>1. n \in Nat /\ \A i \in 1..n : rows[v][i].time \in Int
  BY RowTypes
<1>2. s \in Seq(Int) /\ Len(s) \in 1..Len(s)
  BY EmptySeq, LenProperties DEF Genuine
<1>3. Final(s) \in Known(v)
  BY <1>2 DEF Final, Genuine, Times
<1>4. PICK i \in 1..n : Final(s) = rows[v][i].time
  BY <1>3 DEF Known
<1>5. n \in 1..n /\ (i = n \/ i < n)
  BY <1>1, <1>4
<1>6. i = n \/ rows[v][i].time < rows[v][n].time
  BY <1>4, <1>5 DEF ServerInv, RowsInOrder
<1> DEFINE x == rows[v][i].time
           y == rows[v][n].time
<1>7. x \in Int /\ y \in Int /\ (x = y \/ x < y)
  BY <1>1, <1>4, <1>5, <1>6
<1> HIDE DEF x, y
<1>8. x <= y
  BY <1>7
<1> QED
  BY <1>4, <1>8 DEF x, y, Final

\* What data_handler_ajax sends for a status variable is the only request for it.
LEMMA RequestsSent ==
    ASSUME IInv, StatusRequests, NEW isInit \in BOOLEAN, NEW b \in SUBSET Var, NEW from,
           NEW to, Send(isInit, b, from, to), UNCHANGED INIT_STATUS_VARIABLES_DONE,
           \A v \in Status : KEYS'[v] >= 0 /\ (KEYS[v] >= 1 => KEYS'[v] >= 1),
           \A v \in b \cap Status :
              /\ to = None
              /\ IF isInit THEN KEYS'[v] >= 1 ELSE INIT_STATUS_VARIABLES_DONE
              /\ \A q \in net : v \notin q.vars
    PROVE  StatusRequests'
<1>1. PICK i \in 1..(Cardinality(net) + 1) :
         net' = net \cup {Request(i, isInit, b, from, to, DATA_INIT_STATUS, {})}
  BY DEF Send, Request
<1> DEFINE new == Request(i, isInit, b, from, to, DATA_INIT_STATUS, {})
<1>2. new.init = isInit /\ new.vars = b /\ new.to = to
  BY DEF Request
<1>3. net' = net \cup {new}
  BY <1>1
<1> HIDE DEF new
<1> SUFFICES ASSUME NEW r \in net', NEW v \in r.vars \cap Status
             PROVE  /\ r.to = None
                    /\ IF r.init THEN KEYS'[v] >= 1 ELSE INIT_STATUS_VARIABLES_DONE'
                    /\ \A q \in net' : v \in q.vars => q = r
  BY DEF StatusRequests
<1>4. CASE r \in net
  <2>1. /\ r.to = None /\ IF r.init THEN KEYS[v] >= 1 ELSE INIT_STATUS_VARIABLES_DONE
        /\ \A q \in net : v \in q.vars => q = r
    BY <1>4 DEF StatusRequests
  <2>2. v \notin new.vars
    BY <1>2, <1>4
  <2> QED
    BY <1>3, <2>1, <2>2
<1>5. CASE r = new
  BY <1>2, <1>3, <1>5
<1> QED
  BY <1>3, <1>4, <1>5

LEMMA RequestsKept ==
    ASSUME IInv, StatusRequests, [Next]_vars, failures' = 0
    PROVE  StatusRequests'
<1>1. /\ NetInv /\ ClientInv /\ KEYS \in [Var -> Int] /\ failures \in Nat
      /\ Status \subseteq Var /\ ChartVars \subseteq Var /\ Status \cap ChartVars = {}
  BY DEF IInv, ClientInv, Status, Var
<1>2. CASE /\ net' \subseteq net /\ UNCHANGED KEYS
           /\ INIT_STATUS_VARIABLES_DONE => INIT_STATUS_VARIABLES_DONE'
  BY <1>2 DEF StatusRequests
<1>3. CASE AskTime
  <2>1. Send(FALSE, {}, now, None) /\ UNCHANGED <<KEYS, init>>
    BY <1>3 DEF AskTime
  <2>2. /\ UNCHANGED INIT_STATUS_VARIABLES_DONE /\ {} \in SUBSET Var /\ FALSE \in BOOLEAN
        /\ \A v \in Status : KEYS'[v] >= 0 /\ (KEYS[v] >= 1 => KEYS'[v] >= 1)
        /\ {} \cap Status = {}
    BY <2>1 DEF init, StatusRequests
  <2> QED
    BY <2>1, <2>2, RequestsSent
<1>4. CASE Poll
  <2>1. /\ Send(FALSE, Var, LAST_QUERY_TIME, None) /\ UNCHANGED <<KEYS, init>>
        /\ INIT_STATUS_VARIABLES_DONE /\ FETCH_DATA_PENDING <= 0
    BY <1>4 DEF Poll, InitDone
  <2>2. IsFiniteSet(net) /\ Cardinality(net) \in Nat /\ Cardinality(net) <= 0
    BY <1>1, <2>1, FS_CardinalityType DEF NetInv, PendingIsInFlight
  <2>3. net = {}
    BY <2>2, FS_EmptySet
  <2>4. /\ UNCHANGED INIT_STATUS_VARIABLES_DONE /\ Var \in SUBSET Var /\ FALSE \in BOOLEAN
        /\ \A v \in Status : KEYS'[v] >= 0 /\ (KEYS[v] >= 1 => KEYS'[v] >= 1)
    BY <2>1 DEF init, StatusRequests
  <2> QED
    BY <2>1, <2>3, <2>4, RequestsSent
<1>5. CASE FetchStatus
  <2>1. PICK b \in Batches(StatusToDo, StatusBatch) \ {{}} :
           KEYS' = Counted(b) /\ Send(TRUE, b, DATA_TO_TIMESTAMP, None)
    BY <1>5 DEF FetchStatus
  <2>2. /\ b \subseteq Status /\ \A v \in b : KEYS[v] < 1
        /\ ~INIT_STATUS_VARIABLES_DONE /\ UNCHANGED init
    BY <1>5, <2>1 DEF Batches, StatusToDo, FetchStatus
  <2>3. \A v \in Var : KEYS'[v] = IF v \in b THEN KEYS[v] + 1 ELSE KEYS[v]
    BY <2>1 DEF Counted
  <2>4. ASSUME NEW v \in Status
        PROVE  KEYS'[v] >= 0 /\ (KEYS[v] >= 1 => KEYS'[v] >= 1) /\ (v \in b => KEYS'[v] >= 1)
    <3>1. KEYS[v] \in Int /\ KEYS[v] >= 0
      BY <1>1 DEF StatusRequests
    <3>2. KEYS'[v] = IF v \in b THEN KEYS[v] + 1 ELSE KEYS[v]
      BY <1>1, <2>3
    <3> QED
      BY <3>1, <3>2
  <2>5. ASSUME NEW v \in b, NEW q \in net PROVE v \notin q.vars
    <3>1. v \in q.vars => IF q.init THEN KEYS[v] >= 1 ELSE INIT_STATUS_VARIABLES_DONE
      BY <2>2 DEF StatusRequests
    <3>2. KEYS[v] \in Int /\ KEYS[v] < 1 /\ ~INIT_STATUS_VARIABLES_DONE
      BY <1>1, <2>2
    <3>3. ~(KEYS[v] >= 1)
      BY <3>2
    <3> QED
      BY <3>1, <3>2, <3>3
  <2>6. b \in SUBSET Var /\ UNCHANGED INIT_STATUS_VARIABLES_DONE
    BY <1>1, <2>2 DEF init
  <2>7. \A v \in b \cap Status : KEYS'[v] >= 1 /\ \A q \in net : v \notin q.vars
    BY <2>4, <2>5
  <2> QED
    BY <2>1, <2>4, <2>6, <2>7, RequestsSent
<1>6. CASE FetchChart
  <2>1. PICK b \in Batches(ChartToDo, ChartBatch) \ {{}} :
           KEYS' = Counted(b) /\ Send(TRUE, b, DATA_FROM_TIMESTAMP, HistoryTo(b))
    BY <1>6 DEF FetchChart
  <2>2. b \subseteq ChartVars /\ UNCHANGED init
    BY <1>6, <2>1 DEF Batches, ChartToDo, FetchChart
  <2>3. \A v \in Status : KEYS'[v] = KEYS[v]
    BY <1>1, <2>1, <2>2 DEF Counted
  <2>4. b \in SUBSET Var /\ b \cap Status = {} /\ UNCHANGED INIT_STATUS_VARIABLES_DONE
    BY <1>1, <2>2 DEF init
  <2>5. \A v \in Status : KEYS'[v] >= 0 /\ (KEYS[v] >= 1 => KEYS'[v] >= 1)
    BY <2>3 DEF StatusRequests
  <2> QED
    BY <2>1, <2>4, <2>5, RequestsSent
<1>7. CASE \E r \in net : Answer(r)
  <2>1. PICK r \in net : Answer(r)
    BY <1>7
  <2> DEFINE x == Response(r)
             new == [r EXCEPT !.answer = {x}]
  <2>2. net' = (net \ {r}) \cup {new} /\ UNCHANGED <<KEYS, init>>
    BY <2>1 DEF Answer
  <2>3. new.init = r.init /\ new.vars = r.vars /\ new.to = r.to
    <3>1. Shaped(r)
      BY <1>1 DEF NetInv
    <3>2. new = Request(r.id, r.init, r.vars, r.from, r.to, r.round, {x})
      BY <3>1, AnsweredShape
    <3> HIDE DEF new
    <3> QED
      BY <3>2, FieldsOf
  <2> HIDE DEF new
  <2> SUFFICES ASSUME NEW q \in net', NEW v \in q.vars \cap Status
               PROVE  /\ q.to = None
                      /\ IF q.init THEN KEYS[v] >= 1 ELSE INIT_STATUS_VARIABLES_DONE
                      /\ \A p \in net' : v \in p.vars => p = q
    BY <2>2 DEF StatusRequests, init
  <2>4. CASE q = new
    BY <2>2, <2>3, <2>4 DEF StatusRequests
  <2>5. CASE q \in net \ {r}
    BY <2>2, <2>3, <2>5 DEF StatusRequests
  <2> QED
    BY <2>2, <2>4, <2>5
<1>8. CASE \E r \in net : Fail(r)
  BY <1>1, <1>8 DEF Fail
<1>9. \/ AskTime \/ Poll \/ FetchStatus \/ FetchChart
      \/ (\E r \in net : Answer(r)) \/ (\E r \in net : Fail(r))
      \/ /\ net' \subseteq net /\ UNCHANGED KEYS
         /\ INIT_STATUS_VARIABLES_DONE => INIT_STATUS_VARIABLES_DONE'
  <2>1. CASE Client
    BY <2>1 DEF Client, DataHandler, StatusDone, ChartDone, ajax
  <2>2. CASE Ajax
    BY <2>2 DEF Ajax, Network, Done, Finish, init
  <2>3. CASE Server
    BY <2>3 DEF Server, Tick, Recording, Record, ajax, init
  <2>4. CASE User
    BY <2>4 DEF User, ToggleSwitch, PlusTwoHours, ShowPicker, HidePicker, PickRange, Restart,
                ajax, init
  <2>5. CASE UNCHANGED vars
    BY <2>5 DEF vars, ajax, init
  <2> QED
    BY <2>1, <2>2, <2>3, <2>4, <2>5 DEF Next
<1> QED
  BY <1>2, <1>3, <1>4, <1>5, <1>6, <1>7, <1>8, <1>9

\* What an answer does to a status variable: it shows the last sample of it.
LEMMA StatusShown ==
    ASSUME IInv, NEW r \in net, Done(r), NEW v \in Status
    PROVE  \/ DATA'[v] = DATA[v]
           \/ /\ v \in r.vars
              /\ \E a \in r.answer : a.series[v] # <<>> /\ Final(DATA'[v]) = Final(a.series[v])
<1>1. v \in Var /\ v \notin ChartVars /\ DATA \in [Var -> Seq(Int)]
  BY DEF Status, Var, IInv, DataInv
<1>2. PICK a \in r.answer :
         IF DATA_TO_TIMESTAMP = 0 THEN UNCHANGED DATA
         ELSE DATA' = [w \in Var |-> IF w \in r.vars THEN Added(w, a.series[w]) ELSE DATA[w]]
  BY DEF Done
<1>3. CASE DATA_TO_TIMESTAMP # 0 /\ v \in r.vars /\ a.series[v] # <<>>
  <2>1. DATA'[v] = <<Final(a.series[v])>>
    BY <1>1, <1>2, <1>3 DEF Added
  <2>2. Final(DATA'[v]) = Final(a.series[v])
    BY <2>1 DEF Final
  <2> QED
    BY <1>2, <1>3, <2>2
<1> QED
  BY <1>1, <1>2, <1>3 DEF Added

LEMMA AnswersNewer ==
    ASSUME IInv, StatusInv, [Next]_vars, failures' = 0
    PROVE  StatusAnswers'
<1>1. /\ ServerInv /\ NetInv /\ DataInv /\ SavedInOrder /\ ClientAssumption
      /\ failures = 0 /\ StatusRequests /\ StatusAnswers /\ Status \subseteq Var
  BY UnderwayStays, ClientAssumption DEF IInv, StatusInv, Status, Var
<1>2. CASE UNCHANGED DATA /\ \A r \in net' : r \in net \/ r.answer = {}
  BY <1>1, <1>2 DEF StatusAnswers
<1>3. CASE \E r \in net : Answer(r)
  <2>1. PICK r \in net : Answer(r)
    BY <1>3
  <2> DEFINE x == Response(r)
             new == [r EXCEPT !.answer = {x}]
  <2>2. net' = (net \ {r}) \cup {new} /\ UNCHANGED DATA
    BY <2>1 DEF Answer
  <2>3. new.vars = r.vars /\ new.answer = {x} /\ IsRequest(r)
    <3>1. Shaped(r) /\ IsRequest(r)
      BY <1>1 DEF NetInv
    <3>2. new = Request(r.id, r.init, r.vars, r.from, r.to, r.round, {x})
      BY <3>1, AnsweredShape
    <3> HIDE DEF new
    <3> QED
      BY <3>1, <3>2, FieldsOf
  <2>4. \A v \in r.vars : x.series[v] = Series(r, v)
    BY DEF Response
  <2> HIDE DEF new, x
  <2> SUFFICES ASSUME NEW q \in net', NEW a \in q.answer, NEW v \in q.vars \cap Status,
                      DATA[v] # <<>>, a.series[v] # <<>>
               PROVE  Final(DATA[v]) <= Final(a.series[v])
    BY <2>2 DEF StatusAnswers
  <2>5. CASE q \in net
    BY <1>1, <2>5 DEF StatusAnswers
  <2>6. CASE q = new
    <3>1. a = x /\ v \in r.vars \cap Status /\ v \in Var /\ r.to = None
      BY <1>1, <2>3, <2>6 DEF StatusRequests
    <3>2. a.series[v] = Series(r, v)
      BY <2>4, <3>1
    <3>3. Final(a.series[v]) = Final(rows[v]).time
      BY <1>1, <2>3, <3>1, <3>2, NewestAnswered
    <3>4. Genuine(DATA[v], v)
      BY <1>1, <3>1 DEF DataInv
    <3>5. Final(DATA[v]) <= Final(rows[v]).time
      BY <1>1, <3>1, <3>4, LastIsNewest
    <3> QED
      BY <3>3, <3>5
  <2> QED
    BY <2>2, <2>5, <2>6
<1>4. CASE \E r \in net : Done(r)
  <2>1. PICK r \in net : Done(r)
    BY <1>4
  <2>2. net' = net \ {r}
    BY <2>1 DEF Done, Finish
  <2> SUFFICES ASSUME NEW q \in net', NEW a \in q.answer, NEW v \in q.vars \cap Status,
                      DATA'[v] # <<>>, a.series[v] # <<>>
               PROVE  Final(DATA'[v]) <= Final(a.series[v])
    BY DEF StatusAnswers
  <2>3. q \in net /\ v \notin r.vars
    BY <1>1, <2>2 DEF StatusRequests
  <2>4. DATA'[v] = DATA[v]
    BY <2>1, <2>3, StatusShown
  <2> QED
    BY <1>1, <2>3, <2>4 DEF StatusAnswers
<1>5. \/ \E r \in net : Answer(r)
      \/ \E r \in net : Done(r)
      \/ UNCHANGED DATA /\ \A r \in net' : r \in net \/ r.answer = {}
  <2>1. CASE Client
    <3>1. ASSUME NEW isInit, NEW b, NEW from, NEW to, Send(isInit, b, from, to)
          PROVE  \A r \in net' : r \in net \/ r.answer = {}
      BY <3>1 DEF Send
    <3>2. UNCHANGED DATA
      BY <2>1 DEF Client, DataHandler, AskTime, Poll, FetchStatus, StatusDone, FetchChart,
                  ChartDone
    <3>3. UNCHANGED net \/ \E isInit, b, from, to : Send(isInit, b, from, to)
      BY <2>1 DEF Client, DataHandler, AskTime, Poll, FetchStatus, StatusDone, FetchChart,
                  ChartDone, ajax
    <3> QED
      BY <3>1, <3>2, <3>3
  <2>2. CASE Ajax
    BY <2>2 DEF Ajax, Network, Fail, Finish
  <2>3. CASE Server
    BY <2>3 DEF Server, Tick, Recording, Record, ajax
  <2>4. CASE User
    BY <2>4 DEF User, ToggleSwitch, PlusTwoHours, ShowPicker, HidePicker, PickRange, ajax
  <2>5. CASE UNCHANGED vars
    BY <2>5 DEF vars, ajax
  <2> QED
    BY <2>1, <2>2, <2>3, <2>4, <2>5 DEF Next
<1> QED
  BY <1>2, <1>3, <1>4, <1>5

\* As long as no request fails, a status variable never shows a value older than one it has
\* shown, whatever is recorded when and however late the answers are: its requests do not
\* overlap, and each answer brings the last sample there was.
THEOREM NeverOlder == Spec => StatusNeverOlder
<1>1. Init => StatusInv
  <2> SUFFICES ASSUME Init PROVE StatusRequests /\ StatusAnswers
    BY SavedInit DEF StatusInv
  <2> QED
    BY DEF Init, StatusRequests, StatusAnswers, Status, Var
<1>2. IInv /\ StatusInv /\ [Next]_vars => StatusInv'
  <2> SUFFICES ASSUME IInv, StatusInv, [Next]_vars PROVE StatusInv'
    OBVIOUS
  <2>1. SavedInOrder'
    BY SavedKept DEF StatusInv
  <2>2. ASSUME failures' = 0 PROVE StatusRequests' /\ StatusAnswers'
    <3>1. failures = 0
      BY <2>2, UnderwayStays
    <3> QED
      BY <2>2, <3>1, RequestsKept, AnswersNewer DEF StatusInv
  <2> QED
    BY <2>1, <2>2 DEF StatusInv
<1>3. IInv /\ StatusInv /\ [Next]_vars =>
         [\A v \in Status : failures' = 0 /\ DATA[v] # <<>> =>
             Final(DATA[v]) <= Final(DATA'[v])]_DATA
  <2> SUFFICES ASSUME IInv, StatusInv, [Next]_vars, DATA' # DATA, NEW v \in Status,
                      failures' = 0, DATA[v] # <<>>
               PROVE  Final(DATA[v]) <= Final(DATA'[v])
    OBVIOUS
  <2>1. PICK r \in net : Done(r)
    BY OnlyDoneShows
  <2>2. failures = 0 /\ StatusAnswers
    BY UnderwayStays DEF StatusInv
  <2>3. CASE DATA'[v] = DATA[v]
    <3>1. DATA[v] \in Seq(Int)
      BY DEF IInv, DataInv, Status, Var
    <3>2. Len(DATA[v]) \in 1..Len(DATA[v])
      BY <3>1, EmptySeq, LenProperties
    <3>3. Final(DATA[v]) \in Int
      BY <3>1, <3>2, ElementOfSeq DEF Final
    <3> QED
      BY <2>3, <3>3
  <2>4. CASE DATA'[v] # DATA[v]
    BY <2>1, <2>2, <2>4, StatusShown DEF StatusAnswers
  <2> QED
    BY <2>3, <2>4
<1> QED
  BY <1>1, <1>2, <1>3, InvariantHolds, PTL DEF Spec, StatusNeverOlder
----------------------------------------------------------------------------
(* The page never hangs.                                                   *)

\* A variable to be loaded, if there is any, is in some batch.
LEMMA BatchExists ==
    ASSUME NEW todo, IsFiniteSet(todo), NEW size \in Nat \ {0}, todo # {}
    PROVE  \E b \in Batches(todo, size) : b # {}
<1> DEFINE Large == {b \in SUBSET todo : Cardinality(b) >= size}
           sizes == {Cardinality(b) : b \in Large}
<1>1. \A b \in SUBSET todo : IsFiniteSet(b) /\ Cardinality(b) \in Nat /\ (Cardinality(b) = 0 => b = {})
  BY FS_Subset, FS_CardinalityType, FS_EmptySet
<1>2. todo \in SUBSET todo /\ Cardinality(todo) \in Nat
  BY <1>1
<1>3. CASE Cardinality(todo) < size
  <2>1. todo \in Batches(todo, size)
    BY <1>3 DEF Batches
  <2> QED
    BY <2>1
<1>4. CASE ~(Cardinality(todo) < size)
  <2>1. Cardinality(todo) \in sizes /\ sizes \subseteq Nat
    BY <1>1, <1>2, <1>4
  <2> HIDE DEF sizes
  <2>2. PICK n \in sizes : \A m \in sizes : n <= m
    BY <2>1, LeastNatural
  <2>3. PICK b \in Large : Cardinality(b) = n
    BY DEF sizes
  <2>4. b # {}
    BY <1>1, <2>3, FS_EmptySet
  <2>5. PICK x \in b : TRUE
    BY <2>4
  <2>6. /\ b \ {x} \in SUBSET todo /\ Cardinality(b) \in Nat
        /\ Cardinality(b \ {x}) = Cardinality(b) - 1
    BY <1>1, <2>3, <2>5, FS_RemoveElement
  <2>7. ~(Cardinality(b \ {x}) >= size)
    <3>1. SUFFICES ASSUME Cardinality(b \ {x}) >= size PROVE FALSE
      OBVIOUS
    <3>2. Cardinality(b \ {x}) \in sizes
      BY <2>6, <3>1 DEF sizes
    <3> QED
      BY <2>2, <2>3, <2>6, <3>2
  <2>8. Cardinality(b) = size
    BY <2>3, <2>6, <2>7
  <2>9. b \in Batches(todo, size)
    BY <1>4, <2>3, <2>8 DEF Batches
  <2> QED
    BY <2>4, <2>9
<1> QED
  BY <1>3, <1>4

\* What a pass of the periodic handler may find to do: the guards of its branches.
Handles ==
    \/ DATA_TO_TIMESTAMP = 0 /\ Cardinality(net) < MaxTimeReq
    \/ DATA_TO_TIMESTAMP # 0 /\ InitDone /\ FETCH_DATA_PENDING <= 0
    \/ /\ MayFetch /\ ~INIT_STATUS_VARIABLES_DONE
       /\ StatusToDo = {} \/ \E b \in Batches(StatusToDo, StatusBatch) : b # {}
    \/ /\ MayFetch /\ INIT_STATUS_VARIABLES_DONE /\ ~INIT_CHART_VARIABLES_DONE
       /\ ChartToDo = {} \/ \E b \in Batches(ChartToDo, ChartBatch) : b # {}

\* As long as auto update is on, or the initialisation not over, and nothing is in flight, of
\* which the end is still to be handled, the next pass of the handler finds something to do.
NeverHangs == Active /\ net = {} => Handles /\ \E i \in 1..(Cardinality(net) + 1) : IsFree(i)

\* The brake FETCH_DATA_PENDING never stops the page for good: it is released whenever
\* nothing is in flight, and then any part of the initialisation can go on.
THEOREM PageNeverHangs == Spec => []NeverHangs
<1>1. IInv => NeverHangs
  <2> SUFFICES ASSUME IInv, Active, net = {}
               PROVE  Handles /\ \E i \in 1..(Cardinality(net) + 1) : IsFree(i)
    BY DEF NeverHangs
  <2>1. Cardinality(net) = 0 /\ FETCH_DATA_PENDING = 0
    BY NoAnswer DEF IInv, NetInv, PendingIsInFlight
  <2>2. 1 \in 1..(Cardinality(net) + 1) /\ IsFree(1)
    BY <2>1 DEF IsFree
  <2>3. /\ INIT_STATUS_VARIABLES_DONE \in BOOLEAN /\ INIT_CHART_VARIABLES_DONE \in BOOLEAN
        /\ MaxTimeReq \in Nat \ {0} /\ StatusBatch \in Nat \ {0} /\ ChartBatch \in Nat \ {0}
    BY ClientAssumption DEF IInv, ClientInv
  <2>4. IsFiniteSet(StatusToDo) /\ IsFiniteSet(ChartToDo)
    <3>1. StatusToDo \in SUBSET Var /\ ChartToDo \in SUBSET Var
      BY DEF StatusToDo, Status, ChartToDo, Var
    <3> QED
      BY <3>1, ClientAssumption, FS_Subset
  <2>5. StatusToDo = {} \/ \E b \in Batches(StatusToDo, StatusBatch) : b # {}
    BY <2>3, <2>4, BatchExists
  <2>6. ChartToDo = {} \/ \E b \in Batches(ChartToDo, ChartBatch) : b # {}
    BY <2>3, <2>4, BatchExists
  <2>7. CASE DATA_TO_TIMESTAMP = 0
    BY <2>1, <2>2, <2>3, <2>7 DEF Handles
  <2>8. CASE DATA_TO_TIMESTAMP # 0 /\ InitDone
    BY <2>1, <2>2, <2>8 DEF Handles
  <2>9. CASE DATA_TO_TIMESTAMP # 0 /\ ~InitDone
    <3>1. MayFetch
      BY <2>1, <2>9 DEF MayFetch
    <3> QED
      BY <2>2, <2>5, <2>6, <2>9, <3>1 DEF Handles, InitDone
  <2> QED
    BY <2>7, <2>8, <2>9
<1> QED
  BY <1>1, InvariantHolds, PTL
===============================================================================
