----------------------------- MODULE ExportProofs -----------------------------
(***************************************************************************)
(* TLAPS proofs about Export: its types, that no task is exported more     *)
(* often than processes are killed, and that none stays busy for ever      *)
(* without somebody who will take the label away, for every number of      *)
(* tasks, rows and kills.                                                  *)
(***************************************************************************)
EXTENDS Export, FiniteSetTheorems, SequenceTheorems, WellFoundedInduction, TLAPS

BPRow == [task : Existing, pid : BOOLEAN, done : BOOLEAN, age : 0..Hour]
Points == {"none", "new", "ready", "read", "busy", "written", "closing", "idle"}

\* The types, with those of the copies of rows the processes hold.
Shape ==
    /\ offset \in Offsets /\ passed \in BOOLEAN /\ wait \in [Existing -> Past..MaxDelay]
    /\ Existing \subseteq Tasks /\ task \in [Existing -> Task]
    /\ \A t \in Existing : task[t].bp <= Len(bp)
    /\ bp \in Seq(BPRow) /\ Len(bp) <= MaxRows /\ tracked \subseteq 1..Len(bp)
    /\ proc \in [Rows -> [at : Points, task : Task]]
    /\ \A b \in Rows : /\ proc[b].at # "none" => b \in tracked
                       /\ proc[b].task.bp <= Len(bp)
                       /\ proc[b].at # "read" => proc[b].task = NoTask
    /\ master \in [at : {"idle", "check", "start", "claim"}, tasks : Seq(Existing \X Task)]
    /\ \A i \in 1..Len(master.tasks) : master.tasks[i][2].bp <= Len(bp)
    /\ master.at \in {"start", "claim"} => master.tasks # <<>>
    /\ exports \in [Tasks -> Nat] /\ deaths \in 0..MaxDeaths
    /\ masterKills \in Nat /\ Cardinality(Existing) + masterKills <= MaxRows

\* A task labelled done in the table, in a copy, or about to be, has been exported.
DoneInv ==
    /\ \A t \in Existing : task[t].done => exports[t] > 0
    /\ \A i \in 1..Len(master.tasks) :
          master.tasks[i][2].done => exports[master.tasks[i][1]] > 0
    /\ \A b \in tracked :
          proc[b].task.done \/ proc[b].at = "written" => exports[bp[b].task] > 0

\* The rows a task has been given, and those an export may still come from.
RowsOf(t) == {b \in 1..Len(bp) : bp[b].task = t}
Before == {"none", "new", "ready", "read", "busy"}
Open(t) == {b \in RowsOf(t) : ~bp[b].done /\ proc[b].at \in Before}

\* A task nobody has written to since its creation; nothing makes it so again.
Fresh(t) == t \in Existing => ~task[t].done /\ ~task[t].busy /\ ~task[t].failed
At(point, t) == master.at = point /\ master.tasks[1][1] = t

\* A second row is given to a task only after a kill of the master, and an export comes
\* from a row of its own or after a death.
MayStart(t) == (Fresh(t) /\ ~At("claim", t)) \/ At("start", t)
Counted(t) ==
    /\ Cardinality(RowsOf(t)) <= 1 + masterKills
    /\ MayStart(t) => Cardinality(RowsOf(t)) <= masterKills
    /\ exports[t] + Cardinality(Open(t)) <= Cardinality(RowsOf(t)) + deaths
CountInv == \A t \in Tasks : Counted(t)

\* A process works for a row that is not done, and waits for its end when it is.
Working == {"new", "ready", "read", "busy"}
RowsInv ==
    \A b \in tracked : /\ proc[b].at \in Working => ~bp[b].done
                       /\ proc[b].at = "idle" => bp[b].done

IInv == Shape /\ DoneInv /\ CountInv /\ RowsInv
----------------------------------------------------------------------------
(* Lemmas about sets and sequences.                                        *)

Below == {ss \in Nat \X Nat : ss[1] < ss[2]}

LEMMA LeastNatural ==
    ASSUME NEW T, T \subseteq Nat, T # {}
    PROVE  \E x \in T : \A y \in T : x <= y
<1>1. IsWellFoundedOn(Below, Nat)
  BY NatLessThanWellFounded DEF OpToRel, Below
<1>2. PICK x \in T : \A y \in T : ~(<<y, x>> \in Below)
  BY <1>1, WFMin
<1>3. ASSUME NEW y \in T PROVE x <= y
  <2>1. <<y, x>> \in Nat \X Nat /\ x \in Nat /\ y \in Nat
    OBVIOUS
  <2>2. ~(y < x)
    BY <1>2, <2>1 DEF Below
  <2> QED
    BY <2>1, <2>2
<1> QED
  BY <1>3

\* The tasks of a set can be listed by their ids.
Increasing(s) == \A i, j \in DOMAIN s : i < j => s[i] < s[j]
Listed(T) == \E s \in [1..Cardinality(T) -> T] : Increasing(s)
LEMMA CanBeListed ==
    ASSUME NEW S, S \subseteq Nat, IsFiniteSet(S)
    PROVE  Listed(S)
<1> DEFINE Bad == {n \in Nat : \E T \in SUBSET S : Cardinality(T) = n /\ ~Listed(T)}
<1>1. SUFFICES ASSUME ~Listed(S) PROVE FALSE
  OBVIOUS
<1>2. Cardinality(S) \in Bad
  BY <1>1, FS_CardinalityType
<1> HIDE DEF Bad
<1>3. PICK n \in Bad : \A m \in Bad : n <= m
  BY <1>2, LeastNatural DEF Bad
<1>4. PICK T \in SUBSET S : n \in Nat /\ Cardinality(T) = n /\ ~Listed(T)
  BY <1>3 DEF Bad
<1>5. T \subseteq Nat /\ IsFiniteSet(T)
  BY <1>4, FS_Subset
<1>6. CASE T = {}
  <2>1. n = 0
    BY <1>4, <1>6, FS_EmptySet
  <2> DEFINE s == [i \in 1..0 |-> i]
  <2>2. s \in [1..0 -> T] /\ DOMAIN s = {}
    OBVIOUS
  <2> HIDE DEF s
  <2>3. s \in [1..Cardinality(T) -> T] /\ Increasing(s)
    BY <1>4, <2>1, <2>2 DEF Increasing
  <2> QED
    BY <1>4, <2>3 DEF Listed
<1>7. CASE T # {}
  <2>1. PICK x \in T : \A y \in T : x <= y
    BY <1>5, <1>7, LeastNatural
  <2> DEFINE R == T \ {x}
  <2>2. /\ R \in SUBSET S /\ IsFiniteSet(R) /\ Cardinality(R) = n - 1 /\ n - 1 \in Nat
        /\ \A y \in R : x < y
    <3>1. IsFiniteSet(R) /\ Cardinality(R) = n - 1
      BY <1>4, <1>5, FS_RemoveElement
    <3>2. Cardinality(R) \in Nat
      BY <3>1, FS_CardinalityType
    <3>3. \A y \in R : x < y
      BY <1>5, <2>1
    <3> QED
      BY <1>4, <3>1, <3>2, <3>3
  <2> HIDE DEF R
  <2>3. n - 1 \notin Bad
    BY <1>3, <1>4
  <2>4. Listed(R)
    BY <2>2, <2>3 DEF Bad
  <2>5. PICK r \in [1..(n - 1) -> R] : Increasing(r)
    BY <2>2, <2>4 DEF Listed
  <2> DEFINE s == [i \in 1..n |-> IF i = 1 THEN x ELSE r[i - 1]]
  <2>6. \A i \in 1..n : i = 1 \/ (i > 1 /\ i - 1 \in 1..(n - 1) /\ r[i - 1] \in R)
    BY <1>4, <2>5
  <2>7. s \in [1..n -> T]
    BY <2>6 DEF R
  <2>8. /\ 1 \in 1..n => s[1] = x
        /\ \A i \in 1..n : i > 1 => s[i] = r[i - 1]
    BY <1>4
  <2> HIDE DEF s
  <2>9. ASSUME NEW i \in 1..n, NEW j \in 1..n, i < j PROVE s[i] < s[j]
    <3>1. j > 1 /\ j - 1 \in 1..(n - 1) /\ s[j] = r[j - 1] /\ r[j - 1] \in R
      BY <1>4, <2>6, <2>8, <2>9
    <3>2. CASE i = 1
      BY <2>2, <2>8, <3>1, <3>2
    <3>3. CASE i > 1
      <4>1. i - 1 \in 1..(n - 1) /\ s[i] = r[i - 1] /\ i - 1 < j - 1
        BY <1>4, <2>6, <2>8, <2>9, <3>3
      <4>2. i - 1 \in DOMAIN r /\ j - 1 \in DOMAIN r
        BY <2>5, <3>1, <4>1
      <4> QED
        BY <2>5, <3>1, <4>1, <4>2 DEF Increasing
    <3> QED
      BY <2>6, <3>2, <3>3
  <2>10. s \in [1..Cardinality(T) -> T] /\ Increasing(s)
    BY <1>4, <2>7, <2>9 DEF Increasing
  <2> QED
    BY <1>4, <2>10 DEF Listed
<1> QED
  BY <1>6, <1>7

LEMMA IsSequence ==
    ASSUME NEW S, NEW n \in Nat, NEW f \in [1..n -> S]
    PROVE  f \in Seq(S) /\ Len(f) = n /\ \A i \in 1..n : f[i] \in S
<1>1. f \in Seq(S)
  BY SeqDef
<1>2. DOMAIN f = 1..n /\ DOMAIN f = 1..Len(f) /\ Len(f) \in Nat
  BY <1>1, LenProperties
<1> QED
  BY <1>1, <1>2

\* The copies of rows a query returns.
LEMMA CopiesAreRows ==
    ASSUME Shape, NEW S \in SUBSET Existing
    PROVE  /\ Copies(S) \in Seq(Existing \X Task)
           /\ S # {} => Copies(S) # <<>>
           /\ \A i \in 1..Len(Copies(S)) : \E t \in S : Copies(S)[i] = <<t, task[t]>>
<1>1. S \subseteq Nat /\ IsFiniteSet(S) /\ Cardinality(S) \in Nat
  <2>1. S \in SUBSET Tasks
    BY DEF Shape
  <2> QED
    BY <2>1, ExportAssumption, FS_Subset, FS_CardinalityType DEF ExportAssumption
<1> DEFINE n == Cardinality(S)
           c == Copies(S)
<1>2. InOrder(S) \in [1..n -> S]
  <2>1. Listed(S)
    BY <1>1, CanBeListed
  <2> QED
    BY <2>1 DEF Listed, Increasing, InOrder
<1>3. \A i \in 1..n : InOrder(S)[i] \in S /\ task[InOrder(S)[i]] \in Task
  BY <1>2 DEF Shape
<1>4. c = [i \in 1..n |-> <<InOrder(S)[i], task[InOrder(S)[i]]>>]
  BY DEF Copies
<1> HIDE DEF c
<1>5. c \in [1..n -> Existing \X Task]
  BY <1>3, <1>4
<1>6. c \in Seq(Existing \X Task) /\ Len(c) = n
  BY <1>1, <1>5, IsSequence
<1>7. S # {} => c # <<>>
  BY <1>1, <1>6, FS_EmptySet, EmptySeq
<1>8. \A i \in 1..Len(c) : \E t \in S : c[i] = <<t, task[t]>>
  BY <1>3, <1>4, <1>6
<1> QED
  BY <1>6, <1>7, <1>8 DEF c
----------------------------------------------------------------------------
(* The clock of the installation.                                          *)

LEMMA SameClock == ASSUME UNCHANGED offset PROVE Past' = Past
  BY DEF Past

LEMMA PastIsPast == ASSUME offset \in Offsets PROVE offset \in Int /\ Past \in Int /\ Past < 0
  BY ExportAssumption DEF Past, ExportAssumption
----------------------------------------------------------------------------
(* Counting rows.                                                          *)

LEMMA Finite ==
    ASSUME Shape, NEW t
    PROVE  /\ IsFiniteSet(RowsOf(t)) /\ Cardinality(RowsOf(t)) \in Nat
           /\ IsFiniteSet(Open(t)) /\ Cardinality(Open(t)) \in Nat
           /\ deaths \in Nat /\ masterKills \in Nat /\ Len(bp) \in Nat
<1>1. Len(bp) \in Nat
  BY LenProperties DEF Shape
<1>2. IsFiniteSet(1..Len(bp))
  BY <1>1, FS_Interval
<1>3. RowsOf(t) \in SUBSET (1..Len(bp)) /\ Open(t) \in SUBSET (1..Len(bp))
  BY DEF RowsOf, Open
<1>4. deaths \in Nat /\ masterKills \in Nat
  BY ExportAssumption DEF Shape, ExportAssumption
<1> QED
  BY <1>1, <1>2, <1>3, <1>4, FS_Subset, FS_CardinalityType

\* A step that neither exports nor makes room for an export.
LEMMA QuietCount ==
    ASSUME Shape, Shape', NEW t \in Tasks, Counted(t), RowsOf(t)' = RowsOf(t),
           Open(t)' \subseteq Open(t), exports'[t] = exports[t], UNCHANGED masterKills,
           deaths <= deaths',
           MayStart(t)' => MayStart(t)
    PROVE  Counted(t)'
<1>1. /\ Cardinality(RowsOf(t)) \in Nat /\ Cardinality(RowsOf(t)') \in Nat
      /\ Cardinality(RowsOf(t)') = Cardinality(RowsOf(t))
      /\ deaths \in Nat /\ deaths' \in Nat /\ masterKills \in Nat
  <2>1. deaths' \in Nat
    BY ExportAssumption DEF Shape, ExportAssumption
  <2> QED
    BY <2>1, Finite
<1>2. Open(t)' \in SUBSET Open(t)
  OBVIOUS
<1>3. Cardinality(Open(t)') <= Cardinality(Open(t)) /\ Cardinality(Open(t)) \in Nat
      /\ IsFiniteSet(Open(t)')
  BY <1>2, Finite, FS_Subset
<1>4. Cardinality(Open(t)') \in Nat
  BY <1>3, FS_CardinalityType
<1>5. exports[t] \in Nat
  BY DEF Shape
<1>6. exports'[t] + Cardinality(Open(t)') <= Cardinality(RowsOf(t)') + deaths'
  <2>1. exports[t] + Cardinality(Open(t)) <= Cardinality(RowsOf(t)) + deaths
    BY DEF Counted
  <2>2. exports'[t] = exports[t]
    OBVIOUS
  <2> HIDE DEF RowsOf, Open
  <2> QED
    BY <1>1, <1>3, <1>4, <1>5, <2>1, <2>2
<1> QED
  BY <1>1, <1>6 DEF Counted

\* The step that exports.
LEMMA ExportCount ==
    ASSUME Shape, NEW t \in Tasks, Counted(t), RowsOf(t)' = RowsOf(t),
           NEW b \in Open(t), Open(t)' \subseteq Open(t) \ {b},
           exports'[t] = exports[t] + 1, UNCHANGED <<deaths, masterKills>>,
           MayStart(t)' => MayStart(t)
    PROVE  Counted(t)'
<1> DEFINE R == RowsOf(t)
           O == Open(t)
           P == Open(t)'
<1>1. /\ Cardinality(R) \in Nat /\ Cardinality(O) \in Nat /\ IsFiniteSet(O)
      /\ deaths \in Nat /\ masterKills \in Nat /\ exports[t] \in Nat /\ b \in O
      /\ P \in SUBSET (O \ {b})
  BY Finite DEF Shape
<1>2. exports[t] + Cardinality(O) <= Cardinality(R) + deaths
  BY DEF Counted
<1> HIDE DEF R, O, P
<1>3. IsFiniteSet(O \ {b}) /\ Cardinality(O \ {b}) = Cardinality(O) - 1
  BY <1>1, FS_RemoveElement
<1>4. Cardinality(P) <= Cardinality(O) - 1 /\ IsFiniteSet(P)
  BY <1>1, <1>3, FS_Subset
<1>5. Cardinality(P) \in Nat
  BY <1>4, FS_CardinalityType
<1>6. exports[t] + 1 + Cardinality(P) <= Cardinality(R) + deaths
  BY <1>1, <1>2, <1>4, <1>5
<1> QED
  BY <1>6 DEF Counted, R, P

\* The death of a process may make room for one more export.
LEMMA DeathCount ==
    ASSUME Shape, NEW t \in Tasks, Counted(t), RowsOf(t)' = RowsOf(t),
           NEW b, Open(t)' \subseteq Open(t) \cup {b},
           deaths' = deaths + 1, UNCHANGED <<exports, masterKills>>,
           MayStart(t)' => MayStart(t)
    PROVE  Counted(t)'
<1> DEFINE R == RowsOf(t)
           O == Open(t)
           P == Open(t)'
<1>1. /\ Cardinality(R) \in Nat /\ Cardinality(O) \in Nat /\ IsFiniteSet(O)
      /\ deaths \in Nat /\ masterKills \in Nat /\ exports[t] \in Nat
      /\ P \in SUBSET (O \cup {b})
  BY Finite DEF Shape
<1>2. exports[t] + Cardinality(O) <= Cardinality(R) + deaths
  BY DEF Counted
<1> HIDE DEF R, O, P
<1>3. /\ IsFiniteSet(O \cup {b}) /\ Cardinality(O \cup {b}) \in Nat
      /\ Cardinality(O \cup {b}) <= Cardinality(O) + 1
  <2>1. /\ IsFiniteSet(O \cup {b})
        /\ Cardinality(O \cup {b}) = IF b \in O THEN Cardinality(O) ELSE Cardinality(O) + 1
    BY <1>1, FS_AddElement
  <2> QED
    BY <1>1, <2>1, FS_CardinalityType
<1>4. Cardinality(P) <= Cardinality(O) + 1 /\ IsFiniteSet(P)
  <2>1. Cardinality(P) <= Cardinality(O \cup {b}) /\ IsFiniteSet(P)
    BY <1>1, <1>3, FS_Subset
  <2>2. Cardinality(P) \in Nat
    BY <2>1, FS_CardinalityType
  <2> QED
    BY <1>1, <1>3, <2>1, <2>2
<1>5. Cardinality(P) \in Nat
  BY <1>4, FS_CardinalityType
<1>6. exports[t] + Cardinality(P) <= Cardinality(R) + (deaths + 1)
  BY <1>1, <1>2, <1>4, <1>5
<1> QED
  BY <1>6 DEF Counted, R, P

\* The master gives a task a row.
LEMMA NewRowCount ==
    ASSUME Shape, NEW t \in Tasks, Counted(t), At("start", t), ~MayStart(t)',
           NEW b, b \notin RowsOf(t), RowsOf(t)' = RowsOf(t) \cup {b},
           Open(t)' \subseteq Open(t) \cup {b},
           UNCHANGED <<exports, deaths, masterKills>>
    PROVE  Counted(t)'
<1> DEFINE R == RowsOf(t)
           O == Open(t)
           P == Open(t)'
<1>1. /\ Cardinality(R) \in Nat /\ Cardinality(O) \in Nat /\ IsFiniteSet(O) /\ IsFiniteSet(R)
      /\ deaths \in Nat /\ masterKills \in Nat /\ exports[t] \in Nat
      /\ P \in SUBSET (O \cup {b}) /\ b \notin R
  BY Finite DEF Shape
<1>2. exports[t] + Cardinality(O) <= Cardinality(R) + deaths /\ Cardinality(R) <= masterKills
  BY DEF Counted, MayStart
<1> HIDE DEF R, O, P
<1>3. /\ IsFiniteSet(O \cup {b}) /\ Cardinality(O \cup {b}) \in Nat
      /\ Cardinality(O \cup {b}) <= Cardinality(O) + 1
      /\ Cardinality(R \cup {b}) = Cardinality(R) + 1
  <2>1. /\ IsFiniteSet(O \cup {b})
        /\ Cardinality(O \cup {b}) = IF b \in O THEN Cardinality(O) ELSE Cardinality(O) + 1
    BY <1>1, FS_AddElement
  <2>2. Cardinality(R \cup {b}) = Cardinality(R) + 1
    BY <1>1, FS_AddElement
  <2> QED
    BY <1>1, <2>1, <2>2, FS_CardinalityType
<1>4. Cardinality(P) <= Cardinality(O) + 1 /\ IsFiniteSet(P)
  <2>1. Cardinality(P) <= Cardinality(O \cup {b}) /\ IsFiniteSet(P)
    BY <1>1, <1>3, FS_Subset
  <2>2. Cardinality(P) \in Nat
    BY <2>1, FS_CardinalityType
  <2> QED
    BY <1>1, <1>3, <2>1, <2>2
<1>5. Cardinality(P) \in Nat
  BY <1>4, FS_CardinalityType
<1>6. /\ exports[t] + Cardinality(P) <= Cardinality(R \cup {b}) + deaths
      /\ Cardinality(R \cup {b}) <= 1 + masterKills
  BY <1>1, <1>2, <1>3, <1>4, <1>5
<1> QED
  BY <1>6 DEF Counted, R, P

\* A kill of the master makes room for one more row.
LEMMA KillCount ==
    ASSUME Shape, NEW t \in Tasks, Counted(t), RowsOf(t)' = RowsOf(t), Open(t)' = Open(t),
           masterKills' = masterKills + 1, UNCHANGED <<exports, deaths>>
    PROVE  Counted(t)'
<1>1. Cardinality(RowsOf(t)) \in Nat /\ masterKills \in Nat
  BY Finite
<1> QED
  BY <1>1 DEF Counted
----------------------------------------------------------------------------
(* Steps that change a row of the table, and steps that do not.            *)

\* Row b is changed, but still belongs to its task.
Edited(b, isDone) ==
    /\ bp' \in [1..Len(bp) -> BPRow]
    /\ bp'[b].task = bp[b].task /\ bp'[b].done = isDone
    /\ \A c \in 1..Len(bp) \ {b} : bp'[c] = bp[c]

LEMMA EditedRows ==
    ASSUME Shape, NEW b \in 1..Len(bp), NEW isDone, Edited(b, isDone), Existing' = Existing
    PROVE  /\ bp' \in Seq(BPRow') /\ Len(bp') = Len(bp)
           /\ \A c \in 1..Len(bp) : bp'[c].task = bp[c].task
           /\ \A t : RowsOf(t)' = RowsOf(t)
<1>1. Len(bp) \in Nat
  BY LenProperties DEF Shape
<1>2. bp' \in Seq(BPRow) /\ Len(bp') = Len(bp)
  BY <1>1, IsSequence DEF Edited
<1>3. BPRow' = BPRow
  BY DEF BPRow
<1>4. \A c \in 1..Len(bp) : bp'[c].task = bp[c].task
  BY DEF Edited
<1>5. ASSUME NEW t PROVE RowsOf(t)' = RowsOf(t)
  BY <1>2, <1>4 DEF RowsOf
<1> QED
  BY <1>2, <1>3, <1>4, <1>5

\* The edits the code makes.
LEMMA Edits ==
    ASSUME Shape, NEW b \in 1..Len(bp), NEW p \in BOOLEAN, NEW d \in BOOLEAN
    PROVE  /\ bp' = [bp EXCEPT ![b].pid = p, ![b].age = 0] => Edited(b, bp[b].done)
           /\ bp' = [bp EXCEPT ![b].pid = p, ![b].done = d, ![b].age = 0] => Edited(b, d)
           /\ bp' = [bp EXCEPT ![b].done = d, ![b].age = 0] => Edited(b, d)
           /\ UNCHANGED bp => Edited(b, bp[b].done)
<1>1. bp \in [1..Len(bp) -> BPRow] /\ 0 \in 0..Hour
  BY LenProperties, ExportAssumption DEF Shape, ExportAssumption
<1>2. ASSUME bp' = [bp EXCEPT ![b].pid = p, ![b].age = 0] PROVE Edited(b, bp[b].done)
  BY <1>1, <1>2 DEF Edited, BPRow
<1>3. ASSUME bp' = [bp EXCEPT ![b].pid = p, ![b].done = d, ![b].age = 0] PROVE Edited(b, d)
  BY ZenonT(40), <1>1, <1>3 DEF Edited, BPRow
<1>4. ASSUME bp' = [bp EXCEPT ![b].done = d, ![b].age = 0] PROVE Edited(b, d)
  BY <1>1, <1>4 DEF Edited, BPRow
<1>5. ASSUME UNCHANGED bp PROVE Edited(b, bp[b].done)
  BY <1>1, <1>5 DEF Edited
<1> QED
  BY <1>2, <1>3, <1>4, <1>5

\* The process of row b gets to another point, with the copy of the task it holds there.
Moved(b, x, row) == proc' = [proc EXCEPT ![b] = [at |-> x, task |-> row]]

LEMMA NoTaskIsTask == NoTask \in Task /\ NoTask.bp = 0 /\ ~NoTask.done
  BY ExportAssumption DEF NoTask, None, Task, ExportAssumption

LEMMA Moves ==
    ASSUME Shape, NEW b \in Rows, proc[b].at # "read", NEW x \in Points
    PROVE  /\ proc' = [proc EXCEPT ![b].at = x] => Moved(b, x, NoTask)
           /\ UNCHANGED proc => Moved(b, proc[b].at, NoTask)
<1>1. proc \in [Rows -> [at : Points, task : Task]] /\ proc[b].task = NoTask
  BY DEF Shape
<1>2. proc[b] = [at |-> proc[b].at, task |-> NoTask]
  BY <1>1
<1>3. ASSUME proc' = [proc EXCEPT ![b].at = x] PROVE Moved(b, x, NoTask)
  <2>1. proc' = [proc EXCEPT ![b] = [proc[b] EXCEPT !.at = x]]
    BY <1>3
  <2>2. [proc[b] EXCEPT !.at = x] = [at |-> x, task |-> NoTask]
    BY <1>1, <1>2
  <2> QED
    BY <2>1, <2>2 DEF Moved
<1>4. ASSUME UNCHANGED proc PROVE Moved(b, proc[b].at, NoTask)
  BY <1>1, <1>2, <1>4 DEF Moved
<1> QED
  BY <1>3, <1>4

LEMMA MovedProcs ==
    ASSUME Shape, NEW b \in Rows, NEW x \in Points, NEW row \in Task, Moved(b, x, row),
           row.bp <= Len(bp), x # "read" => row = NoTask,
           tracked \ {b} \subseteq tracked', x # "none" => b \in tracked'
    PROVE  /\ proc' \in [Rows -> [at : Points, task : Task]]
           /\ proc'[b].at = x /\ proc'[b].task = row
           /\ \A c \in Rows \ {b} : proc'[c] = proc[c]
           /\ \A c \in Rows : /\ proc'[c].at # "none" => c \in tracked'
                              /\ proc'[c].task.bp <= Len(bp)
                              /\ proc'[c].at # "read" => proc'[c].task = NoTask
<1>1. proc \in [Rows -> [at : Points, task : Task]]
  BY DEF Shape
<1>2. /\ proc' \in [Rows -> [at : Points, task : Task]]
      /\ proc'[b].at = x /\ proc'[b].task = row
      /\ \A c \in Rows \ {b} : proc'[c] = proc[c]
  BY <1>1 DEF Moved
<1>3. ASSUME NEW c \in Rows
      PROVE  /\ proc'[c].at # "none" => c \in tracked'
             /\ proc'[c].task.bp <= Len(bp)
             /\ proc'[c].at # "read" => proc'[c].task = NoTask
  <2>1. CASE c = b
    BY <1>2, <2>1
  <2>2. CASE c # b
    BY <1>2, <2>2 DEF Shape
  <2> QED
    BY <2>1, <2>2
<1> QED
  BY <1>2, <1>3

\* Rows of tasks are saved: none becomes fresh, and one that is done has been exported.
TaskStep ==
    /\ Existing' = Existing /\ task' \in [Existing -> Task]
    /\ \A t \in Existing : task'[t].bp <= Len(bp) /\ (task'[t].done => exports[t] > 0)
    /\ \A t : Fresh(t)' => Fresh(t)

LEMMA SameTasks == ASSUME Shape, DoneInv, UNCHANGED task PROVE TaskStep
  BY DEF TaskStep, Shape, DoneInv, Fresh, Existing

LEMMA SavedTask ==
    ASSUME Shape, DoneInv, NEW t \in Existing, NEW row \in Task, row.bp <= Len(bp),
           row.done \/ row.busy \/ row.failed, row.done => exports[t] > 0,
           task' = [task EXCEPT ![t] = row]
    PROVE  TaskStep /\ ~Fresh(t)'
<1>1. task \in [Existing -> Task]
  BY DEF Shape
<1>2. task' \in [Existing -> Task] /\ Existing' = Existing
  <2>1. task' \in [Existing -> Task]
    BY <1>1
  <2> QED
    BY <1>1, <2>1 DEF Existing
<1>3. task'[t] = row /\ \A u \in Existing \ {t} : task'[u] = task[u]
  BY <1>1
<1>4. \A u \in Existing : task'[u].bp <= Len(bp) /\ (task'[u].done => exports[u] > 0)
  BY <1>3 DEF Shape, DoneInv
<1>5. \A u : Fresh(u)' => Fresh(u) /\ u # t
  BY <1>2, <1>3 DEF Fresh
<1> QED
  BY <1>2, <1>4, <1>5 DEF TaskStep

\* A step of the process or of the scheduler that concerns row b.
RowStep(b, isDone, x, row) ==
    /\ Edited(b, isDone) /\ Moved(b, x, row) /\ TaskStep
    /\ UNCHANGED <<offset, passed, wait, master, masterKills>>
    /\ tracked \ {b} \subseteq tracked' /\ tracked' \subseteq tracked \cup {b}

LEMMA RowStepKeeps ==
    ASSUME Shape, DoneInv, RowsInv, NEW b \in 1..Len(bp), NEW isDone \in BOOLEAN, NEW x \in Points,
           NEW row \in Task, RowStep(b, isDone, x, row),
           row.bp <= Len(bp), x # "read" => row = NoTask, x # "none" => b \in tracked',
           exports' \in [Tasks -> Nat], \A t \in Tasks : exports'[t] >= exports[t],
           deaths' \in 0..MaxDeaths,
           row.done \/ x = "written" => exports'[bp[b].task] > 0,
           x \in Working => ~isDone, x = "idle" => isDone
    PROVE  Shape' /\ DoneInv' /\ RowsInv'
<1>0. b \in Rows /\ Len(bp) \in Nat
  BY LenProperties, ExportAssumption DEF Shape, Rows, ExportAssumption
<1>1. /\ bp' \in Seq(BPRow') /\ Len(bp') = Len(bp)
      /\ \A c \in 1..Len(bp) : bp'[c].task = bp[c].task
  BY EditedRows DEF RowStep, TaskStep
<1>2. /\ proc' \in [Rows -> [at : Points, task : Task]]
      /\ proc'[b].at = x /\ proc'[b].task = row
      /\ \A c \in Rows \ {b} : proc'[c] = proc[c]
      /\ \A c \in Rows : /\ proc'[c].at # "none" => c \in tracked'
                         /\ proc'[c].task.bp <= Len(bp)
                         /\ proc'[c].at # "read" => proc'[c].task = NoTask
  BY <1>0, MovedProcs DEF RowStep
<1>3. tracked' \subseteq 1..Len(bp) /\ tracked' \subseteq tracked \cup {b}
      /\ UNCHANGED <<offset, passed, wait, master, masterKills>> /\ Existing' = Existing
      /\ 1..Len(bp) \subseteq Rows
  <2>1. 1..Len(bp) \subseteq Rows
    BY <1>0, ExportAssumption DEF Shape, Rows, ExportAssumption
  <2> QED
    BY <2>1 DEF RowStep, TaskStep, Shape
<1>4. Shape'
  <2>0. Past' = Past /\ offset' \in Offsets
    BY <1>3, SameClock DEF Shape
  <2>1. /\ passed' \in BOOLEAN /\ wait' \in [Existing' -> Past'..MaxDelay]
        /\ Existing' \subseteq Tasks /\ task' \in [Existing' -> Task]
        /\ \A t \in Existing' : task'[t].bp <= Len(bp')
    BY <1>1, <1>3, <2>0 DEF Shape, RowStep, TaskStep
  <2>2. bp' \in Seq(BPRow') /\ Len(bp') <= MaxRows /\ tracked' \subseteq 1..Len(bp')
    BY <1>1, <1>3 DEF Shape
  <2>3. /\ master' \in [at : {"idle", "check", "start", "claim"}, tasks : Seq(Existing' \X Task)]
        /\ \A i \in 1..Len(master'.tasks) : master'.tasks[i][2].bp <= Len(bp')
        /\ master'.at \in {"start", "claim"} => master'.tasks # <<>>
    BY <1>1, <1>3 DEF Shape
  <2>4. masterKills' \in Nat /\ Cardinality(Existing') + masterKills' <= MaxRows
    BY <1>3 DEF Shape
  <2>5. \A c \in Rows : /\ proc'[c].at # "none" => c \in tracked'
                        /\ proc'[c].task.bp <= Len(bp')
                        /\ proc'[c].at # "read" => proc'[c].task = NoTask
    BY <1>1, <1>2
  <2> QED
    BY <1>2, <2>0, <2>1, <2>2, <2>3, <2>4, <2>5 DEF Shape
<1>5. DoneInv'
  <2>0. \A t \in Tasks : exports[t] \in Nat /\ exports'[t] \in Nat
                         /\ (exports[t] > 0 => exports'[t] > 0)
    BY DEF Shape
  <2>1. \A t \in Existing' : task'[t].done => exports'[t] > 0
    BY <1>3, <2>0 DEF RowStep, TaskStep, Shape
  <2>2. ASSUME NEW i \in 1..Len(master'.tasks), master'.tasks[i][2].done
        PROVE  exports'[master'.tasks[i][1]] > 0
    <3>1. master.tasks \in Seq(Existing \X Task)
      BY DEF Shape
    <3>2. master.tasks[i] \in Existing \X Task
      BY <1>3, <3>1, ElementOfSeq
    <3>3. master.tasks[i][1] \in Tasks
      BY <3>2 DEF Shape
    <3> QED
      BY <1>3, <2>0, <2>2, <3>3 DEF DoneInv
  <2>3. ASSUME NEW c \in tracked', proc'[c].task.done \/ proc'[c].at = "written"
        PROVE  exports'[bp'[c].task] > 0
    <3>1. CASE c = b
      BY <1>1, <1>2, <2>3, <3>1
    <3>2. CASE c # b
      <4>1. c \in tracked /\ c \in 1..Len(bp) /\ c \in Rows
        BY <1>3, <3>2
      <4>2. exports[bp[c].task] > 0
        BY <1>2, <2>3, <3>2, <4>1 DEF DoneInv
      <4>3. bp[c].task \in Tasks
        <5>1. bp[c] \in BPRow
          BY <4>1, ElementOfSeq DEF Shape
        <5> QED
          BY <5>1 DEF BPRow, Shape
      <4> QED
        BY <1>1, <2>0, <4>1, <4>2, <4>3
    <3> QED
      BY <3>1, <3>2
  <2> QED
    BY <2>1, <2>2, <2>3 DEF DoneInv
<1>6. RowsInv'
  <2> SUFFICES ASSUME NEW c \in tracked'
               PROVE  /\ proc'[c].at \in Working => ~bp'[c].done
                      /\ proc'[c].at = "idle" => bp'[c].done
    BY DEF RowsInv
  <2>1. CASE c = b
    BY <1>2, <2>1 DEF RowStep, Edited
  <2>2. CASE c # b
    <3>1. c \in tracked /\ c \in 1..Len(bp) /\ c \in Rows
      BY <1>3, <2>2
    <3>2. bp'[c] = bp[c] /\ proc'[c] = proc[c]
      BY <1>2, <2>2, <3>1 DEF RowStep, Edited
    <3> QED
      BY <3>1, <3>2 DEF RowsInv
  <2> QED
    BY <2>1, <2>2
<1> QED
  BY <1>4, <1>5, <1>6

LEMMA RowStepCounts ==
    ASSUME Shape, NEW b \in 1..Len(bp), NEW isDone \in BOOLEAN, NEW x \in Points,
           NEW row \in Task, RowStep(b, isDone, x, row), NEW t
    PROVE  /\ RowsOf(t)' = RowsOf(t) /\ (MayStart(t)' => MayStart(t))
           /\ Open(t)' \subseteq Open(t) \cup {b}
           /\ isDone \/ x \notin Before \/ (~bp[b].done /\ proc[b].at \in Before)
                 => Open(t)' \subseteq Open(t)
           /\ isDone \/ x \notin Before => b \notin Open(t)'
<1>0. b \in Rows /\ Len(bp) \in Nat
  BY LenProperties, ExportAssumption DEF Shape, Rows, ExportAssumption
<1>1. /\ Len(bp') = Len(bp) /\ bp'[b].done = isDone
      /\ \A c \in 1..Len(bp) \ {b} : bp'[c] = bp[c]
      /\ \A u : RowsOf(u)' = RowsOf(u)
  BY EditedRows DEF RowStep, TaskStep, Edited
<1>2. proc'[b].at = x /\ \A c \in Rows \ {b} : proc'[c] = proc[c]
  BY <1>0 DEF RowStep, Moved, Shape
<1>3. MayStart(t)' => MayStart(t)
  BY DEF RowStep, TaskStep, MayStart, At
<1>4. 1..Len(bp) \subseteq Rows
  BY <1>0, ExportAssumption DEF Shape, Rows, ExportAssumption
<1>5. ASSUME NEW c \in Open(t)', c # b PROVE c \in Open(t)
  <2>1. c \in RowsOf(t) /\ c \in 1..Len(bp) /\ ~bp'[c].done /\ proc'[c].at \in Before
    BY <1>1, <1>5 DEF Open, RowsOf
  <2>2. bp'[c] = bp[c] /\ proc'[c] = proc[c]
    BY <1>1, <1>2, <1>4, <1>5, <2>1
  <2> QED
    BY <2>1, <2>2 DEF Open
<1>6. b \in Open(t)' => b \in RowsOf(t) /\ ~isDone /\ x \in Before
  BY <1>1, <1>2 DEF Open
<1>7. b \in Open(t)' /\ ~bp[b].done /\ proc[b].at \in Before => b \in Open(t)
  BY <1>6 DEF Open
<1> QED
  BY <1>1, <1>3, <1>5, <1>6, <1>7

\* A row step in which nothing is exported and nobody dies.
LEMMA QuietStep ==
    ASSUME IInv, NEW b \in 1..Len(bp), NEW isDone \in BOOLEAN, NEW x \in Points,
           NEW row \in Task, RowStep(b, isDone, x, row),
           row.bp <= Len(bp), x # "read" => row = NoTask, x # "none" => b \in tracked',
           UNCHANGED <<exports, deaths>>,
           row.done \/ x = "written" => exports[bp[b].task] > 0,
           x \in Working => ~isDone, x = "idle" => isDone,
           isDone \/ x \notin Before \/ (~bp[b].done /\ proc[b].at \in Before)
    PROVE  IInv'
<1>1. Shape /\ DoneInv /\ CountInv /\ RowsInv
  BY DEF IInv
<1>2. /\ exports' \in [Tasks -> Nat] /\ \A t \in Tasks : exports'[t] >= exports[t]
      /\ deaths' \in 0..MaxDeaths
  BY <1>1 DEF Shape
<1>3. Shape' /\ DoneInv' /\ RowsInv'
  BY <1>1, <1>2, RowStepKeeps
<1>4. ASSUME NEW t \in Tasks PROVE Counted(t)'
  <2>1. /\ RowsOf(t)' = RowsOf(t) /\ (MayStart(t)' => MayStart(t))
        /\ Open(t)' \subseteq Open(t)
    BY <1>1, RowStepCounts
  <2>2. Counted(t) /\ UNCHANGED masterKills
    BY <1>1 DEF CountInv, RowStep
  <2>3. deaths <= deaths'
    <3>1. deaths \in Nat /\ deaths' = deaths
      BY <1>1, Finite
    <3> QED
      BY <3>1
  <2> QED
    BY <1>1, <1>3, <2>1, <2>2, <2>3, QuietCount
<1> QED
  BY <1>3, <1>4 DEF IInv, CountInv

\* What is known of a row a process is there for.
LEMMA TrackedRow ==
    ASSUME IInv, NEW b \in tracked
    PROVE  /\ b \in 1..Len(bp) /\ b \in Rows /\ bp[b] \in BPRow /\ bp[b].task \in Existing
           /\ bp[b].task \in Tasks /\ proc[b].at \in Points /\ proc[b].task \in Task
           /\ Len(bp) \in Nat /\ b <= Len(bp) /\ 1..Len(bp) \subseteq Rows
<1>1. Shape
  BY DEF IInv
<1>2. Len(bp) \in Nat /\ b \in 1..Len(bp) /\ 1..Len(bp) \subseteq Rows
  BY <1>1, LenProperties, ExportAssumption DEF Shape, Rows, ExportAssumption
<1>3. bp[b] \in BPRow
  BY <1>1, <1>2, ElementOfSeq DEF Shape
<1>4. proc[b].at \in Points /\ proc[b].task \in Task
  BY <1>1, <1>2 DEF Shape
<1>5. bp[b].task \in Existing
  BY <1>3 DEF BPRow
<1>6. bp[b].task \in Tasks
  BY <1>1, <1>5 DEF Shape
<1> QED
  BY <1>1, <1>2, <1>3, <1>4, <1>5, <1>6

LEMMA SpawnKeeps == ASSUME IInv, NEW b \in Rows, Spawn(b) PROVE IInv'
<1>1. Shape /\ DoneInv /\ b \in 1..Len(bp) /\ ~bp[b].done /\ b \notin tracked
  BY DEF IInv, Spawn
<1>2. proc[b].at = "none" /\ bp[b] \in BPRow
  BY <1>1, ElementOfSeq DEF Shape
<1>3. bp[b].done = FALSE /\ "new" \in Points
  BY <1>1, <1>2 DEF BPRow, Points
<1>4. Edited(b, FALSE) /\ Moved(b, "new", NoTask) /\ TaskStep
  BY <1>1, <1>2, <1>3, Edits, Moves, SameTasks DEF Spawn
<1>5. RowStep(b, FALSE, "new", NoTask) /\ b \in tracked'
  BY <1>4 DEF RowStep, Spawn, Tracked
<1>6. NoTask \in Task /\ NoTask.bp <= Len(bp) /\ ~NoTask.done
  BY <1>1, NoTaskIsTask, LenProperties DEF Shape
<1> QED
  BY <1>1, <1>2, <1>3, <1>5, <1>6, QuietStep DEF Spawn, Before

LEMMA TerminateKeeps == ASSUME IInv, NEW b \in Rows, Terminate(b) PROVE IInv'
<1>1. Shape /\ DoneInv /\ b \in tracked /\ b \in 1..Len(bp) /\ bp[b] \in BPRow
      /\ bp[b].done /\ proc[b].at = "idle"
  BY TrackedRow DEF IInv, Terminate
<1>2. bp[b].done = TRUE /\ "none" \in Points
  BY <1>1 DEF BPRow, Points
<1>3. Edited(b, TRUE) /\ TaskStep
  BY <1>1, <1>2, Edits, SameTasks DEF Terminate
<1>4. Moved(b, "none", NoTask)
  BY DEF Terminate, Moved, NoProcess
<1>5. RowStep(b, TRUE, "none", NoTask)
  BY <1>3, <1>4 DEF RowStep, Terminate
<1>6. NoTask \in Task /\ NoTask.bp <= Len(bp) /\ ~NoTask.done
  BY <1>1, NoTaskIsTask, LenProperties DEF Shape
<1> QED
  BY <1>1, <1>2, <1>5, <1>6, QuietStep DEF Terminate, Working

LEMMA SweepKeeps == ASSUME IInv, NEW b \in Rows, Sweep(b) PROVE IInv'
<1>1. Shape /\ DoneInv /\ b \in tracked /\ b \in 1..Len(bp) /\ bp[b] \in BPRow
      /\ proc[b].at = "none"
  BY TrackedRow DEF IInv, Sweep
<1>2. bp[b].done \in BOOLEAN /\ "none" \in Points
  BY <1>1 DEF BPRow, Points
<1>3. Edited(b, bp[b].done) /\ Moved(b, "none", NoTask) /\ TaskStep
  BY <1>1, <1>2, Edits, Moves, SameTasks DEF Sweep
<1>4. RowStep(b, bp[b].done, "none", NoTask)
  BY <1>3 DEF RowStep, Sweep
<1>5. NoTask \in Task /\ NoTask.bp <= Len(bp) /\ ~NoTask.done
  BY <1>1, NoTaskIsTask, LenProperties DEF Shape
<1> QED
  BY <1>1, <1>2, <1>4, <1>5, QuietStep DEF Sweep, Working, Before

LEMMA DropKeeps == ASSUME IInv, NEW b \in Rows, Drop(b) PROVE IInv'
<1>1. Shape /\ DoneInv /\ b \in tracked /\ b \in 1..Len(bp) /\ bp[b] \in BPRow
      /\ proc[b].at = "none"
  BY TrackedRow DEF IInv, Drop
<1>2. bp[b].done \in BOOLEAN /\ "none" \in Points
  BY <1>1 DEF BPRow, Points
<1>3. Edited(b, bp[b].done) /\ Moved(b, "none", NoTask) /\ TaskStep
  BY <1>1, <1>2, Edits, Moves, SameTasks DEF Drop
<1>4. RowStep(b, bp[b].done, "none", NoTask)
  BY <1>3 DEF RowStep, Drop
<1>5. NoTask \in Task /\ NoTask.bp <= Len(bp) /\ ~NoTask.done
  BY <1>1, NoTaskIsTask, LenProperties DEF Shape
<1> QED
  BY <1>1, <1>2, <1>4, <1>5, QuietStep DEF Drop, Working, Before

\* A process that is at some point has a row, and the scheduler tracks it.
LEMMA ActiveRow ==
    ASSUME IInv, NEW b \in Rows, proc[b].at # "none"
    PROVE  /\ Shape /\ DoneInv /\ b \in tracked /\ b \in 1..Len(bp) /\ bp[b] \in BPRow
           /\ bp[b].task \in Existing /\ bp[b].task \in Tasks /\ proc[b].task \in Task
           /\ bp[b].done \in BOOLEAN /\ Len(bp) \in Nat /\ b <= Len(bp)
           /\ proc[b].at \in Working => bp[b].done = FALSE
           /\ NoTask \in Task /\ NoTask.bp <= Len(bp) /\ ~NoTask.done
<1>1. Shape /\ DoneInv /\ RowsInv /\ b \in tracked
  BY DEF IInv, Shape
<1>2. /\ b \in 1..Len(bp) /\ bp[b] \in BPRow /\ bp[b].task \in Existing
      /\ bp[b].task \in Tasks /\ proc[b].task \in Task /\ Len(bp) \in Nat /\ b <= Len(bp)
  BY <1>1, TrackedRow
<1>3. bp[b].done \in BOOLEAN
  BY <1>2 DEF BPRow
<1>4. proc[b].at \in Working => bp[b].done = FALSE
  BY <1>1, <1>3 DEF RowsInv
<1> QED
  BY <1>1, <1>2, <1>3, <1>4, NoTaskIsTask

LEMMA RegisterKeeps == ASSUME IInv, NEW b \in Rows, Register(b) PROVE IInv'
<1>1. proc[b].at = "new" /\ proc' = [proc EXCEPT ![b].at = "ready"]
  BY DEF Register, Step
<1>2. /\ Shape /\ DoneInv /\ b \in tracked /\ b \in 1..Len(bp) /\ bp[b].done = FALSE
      /\ NoTask \in Task /\ NoTask.bp <= Len(bp) /\ ~NoTask.done
  BY <1>1, ActiveRow DEF Working
<1>3. "ready" \in Points
  BY DEF Points
<1>4. Edited(b, FALSE) /\ TaskStep
  BY <1>2, Edits, SameTasks DEF Register
<1>5. Moved(b, "ready", NoTask)
  BY <1>1, <1>2, <1>3, Moves
<1>6. RowStep(b, FALSE, "ready", NoTask) /\ b \in tracked'
  BY <1>2, <1>4, <1>5 DEF RowStep, Register
<1> QED
  BY <1>1, <1>2, <1>3, <1>6, QuietStep DEF Register, Before

LEMMA ReadTaskKeeps == ASSUME IInv, NEW b \in Rows, ReadTask(b) PROVE IInv'
<1> DEFINE row == task[bp[b].task]
<1>1. proc[b].at = "ready"
  BY DEF ReadTask
<1>2. /\ Shape /\ DoneInv /\ b \in tracked /\ b \in 1..Len(bp) /\ bp[b].done = FALSE
      /\ bp[b].task \in Existing
  BY <1>1, ActiveRow DEF Working
<1>3. "read" \in Points /\ row \in Task /\ row.bp <= Len(bp)
      /\ (row.done => exports[bp[b].task] > 0)
  BY <1>2 DEF Points, Shape, DoneInv
<1>4. Moved(b, "read", row)
  BY DEF ReadTask, Moved
<1> HIDE DEF row
<1>5. Edited(b, FALSE) /\ TaskStep
  BY <1>2, Edits, SameTasks DEF ReadTask
<1>6. RowStep(b, FALSE, "read", row) /\ b \in tracked'
  BY <1>2, <1>4, <1>5 DEF RowStep, ReadTask
<1> QED
  BY <1>1, <1>2, <1>3, <1>6, QuietStep DEF ReadTask, Before

LEMMA CloseKeeps == ASSUME IInv, NEW b \in Rows, Close(b) PROVE IInv'
<1>1. proc[b].at = "closing" /\ proc' = [proc EXCEPT ![b].at = "idle"]
  BY DEF Close, Step
<1>2. /\ Shape /\ DoneInv /\ b \in tracked /\ b \in 1..Len(bp) /\ bp[b].done \in BOOLEAN
      /\ NoTask \in Task /\ NoTask.bp <= Len(bp) /\ ~NoTask.done
  BY <1>1, ActiveRow
<1>3. "idle" \in Points
  BY DEF Points
<1>4. Edited(b, TRUE)
  <2>1. CASE bp[b].done
    BY <1>2, <2>1, Edits DEF Close
  <2>2. CASE ~bp[b].done
    <3>1. bp' = [bp EXCEPT ![b].done = TRUE, ![b].age = 0]
      BY <2>2 DEF Close
    <3> QED
      BY <1>2, <3>1, Edits
  <2> QED
    BY <2>1, <2>2
<1>5. Moved(b, "idle", NoTask) /\ TaskStep
  BY <1>1, <1>2, <1>3, Moves, SameTasks DEF Close
<1>6. RowStep(b, TRUE, "idle", NoTask) /\ b \in tracked'
  BY <1>2, <1>4, <1>5 DEF RowStep, Close
<1> QED
  BY <1>1, <1>2, <1>3, <1>6, QuietStep DEF Close, Working

LEMMA MarkBusyKeeps == ASSUME IInv, NEW b \in Rows, MarkBusy(b) PROVE IInv'
<1> DEFINE row == [proc[b].task EXCEPT !.busy = TRUE, !.bp = b]
<1>1. proc[b].at = "read"
  BY DEF MarkBusy
<1>2. /\ Shape /\ DoneInv /\ b \in tracked /\ b \in 1..Len(bp) /\ bp[b].done = FALSE
      /\ bp[b].task \in Existing /\ proc[b].task \in Task /\ b <= Len(bp)
      /\ NoTask \in Task /\ NoTask.bp <= Len(bp) /\ ~NoTask.done
  BY <1>1, ActiveRow DEF Working
<1>3. row \in Task /\ row.bp <= Len(bp) /\ row.busy /\ (row.done => exports[bp[b].task] > 0)
  <2>1. b \in 0..MaxRows
    BY ExportAssumption DEF Rows, ExportAssumption
  <2>2. row \in Task /\ row.bp = b /\ row.busy /\ row.done = proc[b].task.done
    BY <1>2, <2>1 DEF Task
  <2> QED
    BY <1>2, <2>2 DEF DoneInv
<1>4. Moved(b, "busy", NoTask) /\ task' = [task EXCEPT ![bp[b].task] = row]
  BY DEF MarkBusy, Moved
<1> HIDE DEF row
<1>5. Edited(b, FALSE) /\ TaskStep
  BY <1>2, <1>3, <1>4, Edits, SavedTask DEF MarkBusy
<1>6. RowStep(b, FALSE, "busy", NoTask) /\ b \in tracked' /\ "busy" \in Points
  BY <1>2, <1>4, <1>5 DEF RowStep, MarkBusy, Points
<1> QED
  BY <1>1, <1>2, <1>6, QuietStep DEF MarkBusy, Before

LEMMA MarkDoneKeeps == ASSUME IInv, NEW b \in Rows, MarkDone(b) PROVE IInv'
<1> DEFINE t == bp[b].task
           row == [task[t] EXCEPT !.done = TRUE, !.busy = FALSE]
<1>1. proc[b].at = "written" /\ proc' = [proc EXCEPT ![b].at = "closing"]
  BY DEF MarkDone, Step
<1>2. /\ Shape /\ DoneInv /\ b \in tracked /\ b \in 1..Len(bp) /\ bp[b].done \in BOOLEAN
      /\ t \in Existing
      /\ NoTask \in Task /\ NoTask.bp <= Len(bp) /\ ~NoTask.done
  BY <1>1, ActiveRow
<1>3. row \in Task /\ row.bp <= Len(bp) /\ row.done /\ exports[t] > 0
  <2>1. task[t] \in Task /\ task[t].bp <= Len(bp)
    BY <1>2 DEF Shape
  <2>2. row \in Task /\ row.bp = task[t].bp /\ row.done
    BY <2>1 DEF Task
  <2> QED
    BY <1>1, <1>2, <2>1, <2>2 DEF DoneInv
<1>4. task' = [task EXCEPT ![t] = row]
  BY <1>2 DEF MarkDone, Shape
<1> HIDE DEF row, t
<1>5. "closing" \in Points
  BY DEF Points
<1>6. Edited(b, bp[b].done) /\ TaskStep /\ Moved(b, "closing", NoTask)
  BY <1>1, <1>2, <1>3, <1>4, <1>5, Edits, SavedTask, Moves DEF MarkDone
<1>7. RowStep(b, bp[b].done, "closing", NoTask) /\ b \in tracked'
  BY <1>2, <1>6 DEF RowStep, MarkDone
<1> QED
  BY <1>1, <1>2, <1>5, <1>7, QuietStep DEF MarkDone, Before, Working

LEMMA WriteFileKeeps == ASSUME IInv, NEW b \in Rows, WriteFile(b) PROVE IInv'
<1> DEFINE u == bp[b].task
<1>1. proc[b].at = "busy" /\ proc' = [proc EXCEPT ![b].at = "written"]
  BY DEF WriteFile, Step
<1>2. /\ Shape /\ DoneInv /\ b \in tracked /\ b \in 1..Len(bp) /\ bp[b].done = FALSE
      /\ u \in Tasks /\ CountInv /\ RowsInv
      /\ NoTask \in Task /\ NoTask.bp <= Len(bp) /\ ~NoTask.done
  BY <1>1, ActiveRow DEF Working, IInv
<1>3. PICK data \in BOOLEAN : bp' = [bp EXCEPT ![b].done = data, ![b].age = 0]
  BY DEF WriteFile
<1>4. /\ exports' \in [Tasks -> Nat] /\ exports'[u] = exports[u] + 1
      /\ \A t \in Tasks \ {u} : exports'[t] = exports[t]
      /\ \A t \in Tasks : exports'[t] >= exports[t]
      /\ exports'[u] > 0 /\ deaths' \in 0..MaxDeaths
  <2>1. exports \in [Tasks -> Nat] /\ exports' = [exports EXCEPT ![u] = @ + 1]
    BY <1>2 DEF Shape, WriteFile
  <2> HIDE DEF u
  <2> QED
    BY <1>2, <2>1 DEF Shape, WriteFile
<1>5. "written" \in Points /\ "written" \notin Before /\ "written" \notin Working
  BY DEF Points, Before, Working
<1>6. Edited(b, data) /\ TaskStep /\ Moved(b, "written", NoTask)
  BY <1>1, <1>2, <1>3, <1>5, Edits, SameTasks, Moves DEF WriteFile
<1>7. RowStep(b, data, "written", NoTask) /\ b \in tracked'
  BY <1>2, <1>6 DEF RowStep, WriteFile
<1>8. Shape' /\ DoneInv' /\ RowsInv'
  BY <1>2, <1>4, <1>5, <1>7, RowStepKeeps
<1>9. b \in Open(u)
  BY <1>1, <1>2 DEF Open, RowsOf, Before
<1>10. ASSUME NEW t \in Tasks PROVE Counted(t)'
  <2>1. /\ RowsOf(t)' = RowsOf(t) /\ (MayStart(t)' => MayStart(t))
        /\ Open(t)' \subseteq Open(t) /\ b \notin Open(t)'
    <3>1. proc[b].at \in Before /\ ~bp[b].done
      BY <1>1, <1>2 DEF Before
    <3> QED
      BY <1>2, <1>5, <1>7, <3>1, RowStepCounts
  <2>2. Counted(t) /\ UNCHANGED <<deaths, masterKills>>
    BY <1>2 DEF CountInv, WriteFile
  <2>3. CASE t = u
    BY <1>2, <1>4, <1>9, <2>1, <2>2, <2>3, ExportCount
  <2>4. CASE t # u
    <3>1. RowsOf(t)' = RowsOf(t) /\ exports'[t] = exports[t]
      BY <1>4, <2>1, <2>4
    <3> QED
      BY <1>2, <1>8, <2>1, <2>2, <3>1, QuietCount, Finite
  <2> QED
    BY <2>3, <2>4
<1> QED
  BY <1>8, <1>10 DEF IInv, CountInv

LEMMA DieKeeps == ASSUME IInv, NEW b \in Rows, Die(b) PROVE IInv'
<1>1. /\ Shape /\ DoneInv /\ b \in tracked /\ b \in 1..Len(bp) /\ bp[b].done \in BOOLEAN
      /\ NoTask \in Task /\ NoTask.bp <= Len(bp) /\ ~NoTask.done
  BY ActiveRow DEF Die
<1>2. /\ CountInv /\ RowsInv /\ deaths' = deaths + 1 /\ deaths < MaxDeaths
      /\ UNCHANGED <<exports, masterKills>>
  BY DEF IInv, Die
<1>3. Edited(b, bp[b].done) /\ TaskStep
  <2>1. CASE UNCHANGED bp
    BY <1>1, <2>1, Edits, SameTasks DEF Die
  <2>2. CASE bp' = [bp EXCEPT ![b].pid = FALSE, ![b].age = 0]
    BY <1>1, <2>2, Edits, SameTasks DEF Die
  <2> QED
    BY <2>1, <2>2 DEF Die
<1>4. Moved(b, "none", NoTask)
  BY DEF Die, Moved, NoProcess
<1>5. RowStep(b, bp[b].done, "none", NoTask) /\ "none" \in Points /\ "none" \notin Working
  BY <1>3, <1>4 DEF RowStep, Die, Points, Working
<1>6. /\ exports' \in [Tasks -> Nat] /\ \A t \in Tasks : exports'[t] >= exports[t]
      /\ deaths' \in 0..MaxDeaths
  BY <1>1, <1>2, ExportAssumption DEF Shape, ExportAssumption
<1>7. Shape' /\ DoneInv' /\ RowsInv'
  BY <1>1, <1>2, <1>5, <1>6, RowStepKeeps
<1>8. ASSUME NEW t \in Tasks PROVE Counted(t)'
  <2>1. /\ RowsOf(t)' = RowsOf(t) /\ (MayStart(t)' => MayStart(t))
        /\ Open(t)' \subseteq Open(t) \cup {b}
    BY <1>1, <1>5, RowStepCounts
  <2>2. Counted(t)
    BY <1>2 DEF CountInv
  <2> QED
    BY <1>1, <1>2, <2>1, <2>2, DeathCount
<1> QED
  BY <1>7, <1>8 DEF IInv, CountInv
----------------------------------------------------------------------------
(* The steps of the master.                                                *)

Copied(m) ==
    /\ m \in [at : {"idle", "check", "start", "claim"}, tasks : Seq(Existing \X Task)]
    /\ m.at \in {"start", "claim"} => m.tasks # <<>>
    /\ \A i \in 1..Len(m.tasks) : /\ m.tasks[i][2].bp <= Len(bp)
                                  /\ m.tasks[i][2].done => exports[m.tasks[i][1]] > 0
MasterStep ==
    /\ TaskStep /\ UNCHANGED <<offset, wait, bp, tracked, proc, exports, deaths>>
    /\ passed' \in BOOLEAN /\ Copied(master')
    /\ masterKills' \in Nat /\ Cardinality(Existing) + masterKills' <= MaxRows

LEMMA MasterIsCopied == ASSUME Shape, DoneInv PROVE Copied(master)
  BY DEF Shape, DoneInv, Copied

LEMMA IdleIsCopied == Copied(Idle)
<1>1. <<>> \in Seq(Existing \X Task) /\ Len(<<>>) = 0
  BY EmptySeq
<1>2. Idle = [at |-> "idle", tasks |-> <<>>]
  BY DEF Idle
<1>3. 1..Len(Idle.tasks) = {}
  BY <1>1, <1>2
<1> QED
  BY <1>1, <1>2, <1>3 DEF Copied

LEMMA MasterStepKeeps ==
    ASSUME Shape, DoneInv, RowsInv, MasterStep
    PROVE  /\ Shape' /\ DoneInv' /\ RowsInv'
           /\ \A t : RowsOf(t)' = RowsOf(t) /\ Open(t)' = Open(t)
<1>1. /\ Existing' = Existing /\ UNCHANGED <<offset, wait, bp, tracked, proc, exports, deaths>>
      /\ task' \in [Existing -> Task]
      /\ \A t \in Existing : task'[t].bp <= Len(bp) /\ (task'[t].done => exports[t] > 0)
  BY DEF MasterStep, TaskStep
<1>2. /\ passed' \in BOOLEAN /\ Copied(master')
      /\ masterKills' \in Nat /\ Cardinality(Existing) + masterKills' <= MaxRows
  BY DEF MasterStep
<1>3. BPRow' = BPRow
  BY <1>1 DEF BPRow
<1>4. Shape'
  <2>0. Past' = Past /\ offset' \in Offsets
    BY <1>1, SameClock DEF Shape
  <2>1. /\ wait' \in [Existing' -> Past'..MaxDelay] /\ Existing' \subseteq Tasks
        /\ task' \in [Existing' -> Task] /\ \A t \in Existing' : task'[t].bp <= Len(bp')
    BY <1>1, <2>0 DEF Shape
  <2>2. bp' \in Seq(BPRow') /\ Len(bp') <= MaxRows /\ tracked' \subseteq 1..Len(bp')
    BY <1>1, <1>3 DEF Shape
  <2>3. /\ proc' \in [Rows -> [at : Points, task : Task]]
        /\ \A b \in Rows : /\ proc'[b].at # "none" => b \in tracked'
                           /\ proc'[b].task.bp <= Len(bp')
                           /\ proc'[b].at # "read" => proc'[b].task = NoTask
        /\ exports' \in [Tasks -> Nat] /\ deaths' \in 0..MaxDeaths
    BY <1>1 DEF Shape
  <2>4. /\ master' \in [at : {"idle", "check", "start", "claim"}, tasks : Seq(Existing' \X Task)]
        /\ \A i \in 1..Len(master'.tasks) : master'.tasks[i][2].bp <= Len(bp')
        /\ master'.at \in {"start", "claim"} => master'.tasks # <<>>
    BY <1>1, <1>2 DEF Copied
  <2>5. masterKills' \in Nat /\ Cardinality(Existing') + masterKills' <= MaxRows
    BY <1>1, <1>2
  <2> QED
    BY <1>2, <2>0, <2>1, <2>2, <2>3, <2>4, <2>5 DEF Shape
<1>5. DoneInv'
  BY <1>1, <1>2 DEF DoneInv, Copied
<1>6. RowsInv'
  BY <1>1 DEF RowsInv
<1>7. \A t : RowsOf(t)' = RowsOf(t) /\ Open(t)' = Open(t)
  BY <1>1 DEF RowsOf, Open
<1> QED
  BY <1>4, <1>5, <1>6, <1>7

LEMMA MasterKeeps ==
    ASSUME IInv, MasterStep, UNCHANGED masterKills,
           \A t \in Tasks : MayStart(t)' => MayStart(t)
    PROVE  IInv'
<1>1. Shape /\ DoneInv /\ RowsInv /\ CountInv /\ UNCHANGED <<exports, deaths>>
  BY DEF IInv, MasterStep
<1>2. Shape' /\ DoneInv' /\ RowsInv' /\ \A t : RowsOf(t)' = RowsOf(t) /\ Open(t)' = Open(t)
  BY <1>1, MasterStepKeeps
<1>3. ASSUME NEW t \in Tasks PROVE Counted(t)'
  <2>1. Counted(t) /\ RowsOf(t)' = RowsOf(t) /\ Open(t)' \subseteq Open(t)
        /\ (MayStart(t)' => MayStart(t))
    BY <1>1, <1>2 DEF CountInv
  <2>2. deaths <= deaths' /\ exports'[t] = exports[t]
    <3>1. deaths \in Nat /\ deaths' = deaths
      BY <1>1, Finite
    <3> QED
      BY <1>1, <3>1
  <2> QED
    BY <1>1, <1>2, <2>1, <2>2, QuietCount
<1> QED
  BY <1>2, <1>3 DEF IInv, CountInv

\* When the master neither is about to save a task, nor will be, fresh tasks stay as they are.
LEMMA StillMayStart ==
    ASSUME TaskStep, master.at # "claim", master'.at \notin {"start", "claim"}
    PROVE  \A t \in Tasks : MayStart(t)' => MayStart(t)
  BY DEF TaskStep, MayStart, At

\* The queries of the master return copies of rows.
LEMMA CopiesAreCopied ==
    ASSUME Shape, DoneInv, NEW S \in SUBSET Existing
    PROVE  \A i \in 1..Len(Copies(S)) :
              /\ Copies(S)[i][2].bp <= Len(bp)
              /\ Copies(S)[i][2].done => exports[Copies(S)[i][1]] > 0
<1> SUFFICES ASSUME NEW i \in 1..Len(Copies(S))
             PROVE  /\ Copies(S)[i][2].bp <= Len(bp)
                    /\ Copies(S)[i][2].done => exports[Copies(S)[i][1]] > 0
  OBVIOUS
<1>1. PICK t \in S : Copies(S)[i] = <<t, task[t]>>
  BY CopiesAreRows
<1> QED
  BY <1>1 DEF Shape, DoneInv

LEMMA LookKeeps == ASSUME IInv, Look PROVE IInv'
<1>1. /\ Shape /\ DoneInv /\ master.at = "idle" /\ TaskStep
      /\ UNCHANGED <<offset, wait, bp, tracked, proc, exports, deaths, masterKills>>
  BY SameTasks DEF IInv, Look
<1>2. Running \in SUBSET Existing /\ Due \in SUBSET Existing
  BY DEF Running, Due
<1>3. SUFFICES Copied(master') /\ passed' \in BOOLEAN
               /\ \A t \in Tasks : MayStart(t)' => MayStart(t)
  BY <1>1, MasterKeeps DEF MasterStep, Shape
<1>4. CASE master' = [at |-> "check", tasks |-> Copies(Running)] /\ UNCHANGED passed
  <2>1. Copies(Running) \in Seq(Existing \X Task)
    BY <1>1, <1>2, CopiesAreRows
  <2>2. Copied(master')
    BY <1>1, <1>2, <1>4, <2>1, CopiesAreCopied DEF Copied
  <2> QED
    BY <1>1, <1>4, <2>2, StillMayStart DEF Shape
<1>5. CASE Due # {} /\ master' = [at |-> "start", tasks |-> <<Copies(Due)[1]>>] /\ UNCHANGED passed
  <2> DEFINE c == Copies(Due)
             m == <<c[1]>>
  <2>1. c \in Seq(Existing \X Task) /\ c # <<>>
    BY <1>1, <1>2, <1>5, CopiesAreRows
  <2>2. 1 \in 1..Len(c) /\ c[1] \in Existing \X Task
    BY <2>1, LenProperties, EmptySeq, ElementOfSeq
  <2>3. PICK d \in Due : c[1] = <<d, task[d]>>
    BY <1>1, <1>2, <2>2, CopiesAreRows
  <2>4. c[1][2].bp <= Len(bp) /\ (c[1][2].done => exports[c[1][1]] > 0)
    BY <1>1, <1>2, <2>2, CopiesAreCopied
  <2> HIDE DEF c
  <2>5. m \in Seq(Existing \X Task) /\ Len(m) = 1 /\ m[1] = c[1] /\ m # <<>>
    BY <2>2
  <2>6. master' = [at |-> "start", tasks |-> m]
    BY <1>5 DEF c
  <2> HIDE DEF m
  <2>7. Copied(master')
    BY <1>1, <2>4, <2>5, <2>6 DEF Copied
  <2>8. \A t \in Tasks : MayStart(t)' => MayStart(t)
    <3>1. Fresh(d) /\ d \in Existing
      BY <2>3 DEF Due, Fresh
    <3>2. \A t \in Tasks : At("start", t)' <=> t = d
      BY <2>3, <2>5, <2>6 DEF At
    <3>3. \A t \in Tasks : Fresh(t)' => Fresh(t)
      BY <1>1 DEF TaskStep
    <3>4. \A t \in Tasks : ~At("claim", t)
      BY <1>1 DEF At
    <3> QED
      BY <3>1, <3>2, <3>3, <3>4 DEF MayStart
  <2> QED
    BY <1>1, <1>5, <2>7, <2>8 DEF Shape
<1>6. CASE EndPass
  <2>1. master' = Idle /\ passed' = TRUE /\ master'.at = "idle"
    BY <1>6 DEF EndPass, Idle
  <2> QED
    BY <1>1, <2>1, IdleIsCopied, StillMayStart
<1> QED
  BY <1>4, <1>5, <1>6 DEF Look

LEMMA EndCheckKeeps == ASSUME IInv, EndCheck PROVE IInv'
<1>1. /\ Shape /\ DoneInv /\ master.at = "check" /\ TaskStep
      /\ UNCHANGED <<offset, wait, bp, tracked, proc, exports, deaths, masterKills>>
  BY SameTasks DEF IInv, EndCheck
<1>2. master' = Idle /\ passed' = TRUE /\ master'.at = "idle"
  BY DEF EndCheck, EndPass, Idle
<1> QED
  BY <1>1, <1>2, IdleIsCopied, StillMayStart, MasterKeeps DEF MasterStep, Shape

\* The first copy the master holds.
LEMMA FirstCopy ==
    ASSUME Shape, DoneInv, master.tasks # <<>>
    PROVE  /\ master.tasks[1][1] \in Existing /\ master.tasks[1][2] \in Task
           /\ master.tasks[1][2].bp <= Len(bp)
           /\ master.tasks[1][2].done => exports[master.tasks[1][1]] > 0
<1>1. master.tasks \in Seq(Existing \X Task)
  BY DEF Shape
<1>2. 1 \in 1..Len(master.tasks) /\ master.tasks[1] \in Existing \X Task
  BY <1>1, LenProperties, EmptySeq, ElementOfSeq
<1> QED
  BY <1>2 DEF Shape, DoneInv

LEMMA CheckKeeps == ASSUME IInv, Check PROVE IInv'
<1> DEFINE t == Head(master.tasks)
           row == [t[2] EXCEPT !.failed = TRUE]
           rest == Tail(master.tasks)
<1>1. /\ Shape /\ DoneInv /\ master.at = "check" /\ master.tasks # <<>>
      /\ master' = [master EXCEPT !.tasks = rest]
      /\ UNCHANGED <<offset, passed, wait, bp, tracked, proc, exports, deaths, masterKills>>
  BY DEF IInv, Check
<1>2. master.tasks \in Seq(Existing \X Task) /\ t = master.tasks[1]
  BY <1>1 DEF Shape
<1>3. /\ t[1] \in Existing /\ t[2] \in Task /\ t[2].bp <= Len(bp)
      /\ (t[2].done => exports[t[1]] > 0)
  BY <1>1, <1>2, FirstCopy
<1>4. /\ rest \in Seq(Existing \X Task)
      /\ \A i \in 1..Len(rest) : i + 1 \in 1..Len(master.tasks) /\ rest[i] = master.tasks[i + 1]
  BY <1>1, <1>2, HeadTailProperties, LenProperties
<1>5. task' = [task EXCEPT ![t[1]] = row] \/ UNCHANGED task
  BY DEF Check
<1> HIDE DEF t, rest
<1>6. row \in Task /\ row.failed /\ row.bp = t[2].bp /\ row.done = t[2].done
  BY <1>3 DEF Task
<1> HIDE DEF row
<1>7. TaskStep
  <2>1. CASE UNCHANGED task
    BY <1>1, <2>1, SameTasks
  <2>2. CASE task' = [task EXCEPT ![t[1]] = row]
    BY <1>1, <1>3, <1>6, <2>2, SavedTask
  <2> QED
    BY <1>5, <2>1, <2>2
<1>8. master' = [at |-> "check", tasks |-> rest]
  BY <1>1 DEF Shape
<1>9. Copied(master')
  <2>1. ASSUME NEW i \in 1..Len(rest)
        PROVE  rest[i][2].bp <= Len(bp) /\ (rest[i][2].done => exports[rest[i][1]] > 0)
    <3>1. i + 1 \in 1..Len(master.tasks) /\ rest[i] = master.tasks[i + 1]
      BY <1>4
    <3> QED
      BY <1>1, <3>1, MasterIsCopied DEF Copied
  <2>2. master'.at = "check" /\ master'.tasks = rest
    BY <1>8
  <2>3. master' \in [at : {"idle", "check", "start", "claim"}, tasks : Seq(Existing \X Task)]
    BY <1>4, <1>8
  <2> QED
    BY <2>1, <2>2, <2>3 DEF Copied
<1>10. MasterStep
  BY <1>1, <1>7, <1>9 DEF MasterStep, Shape
<1> QED
  BY <1>1, <1>7, <1>8, <1>10, StillMayStart, MasterKeeps

LEMMA ClaimKeeps == ASSUME IInv, Claim PROVE IInv'
<1> DEFINE t == master.tasks[1][1]
           row == [master.tasks[1][2] EXCEPT !.busy = TRUE]
<1>1. /\ Shape /\ DoneInv /\ master.at = "claim" /\ master.tasks # <<>>
      /\ task' = [task EXCEPT ![t] = row]
      /\ UNCHANGED <<offset, wait, bp, tracked, proc, exports, deaths, masterKills>>
  BY DEF IInv, Claim, Shape
<1>2. /\ t \in Existing /\ master.tasks[1][2] \in Task /\ master.tasks[1][2].bp <= Len(bp)
      /\ (master.tasks[1][2].done => exports[t] > 0)
  BY <1>1, FirstCopy
<1>3. row \in Task /\ row.busy /\ row.bp <= Len(bp) /\ (row.done => exports[t] > 0)
  <2>1. row \in Task /\ row.busy /\ row.bp = master.tasks[1][2].bp
        /\ row.done = master.tasks[1][2].done
    BY <1>2 DEF Task
  <2> QED
    BY <1>2, <2>1
<1>4. master' = Idle /\ passed' = TRUE /\ master'.at = "idle"
  BY DEF Claim, EndPass, Idle
<1>5. \A u \in Tasks : At("claim", u) <=> u = t
  BY <1>1 DEF At
<1> HIDE DEF t, row
<1>6. PICK d \in Existing : d = t
  BY <1>2
<1>7. TaskStep /\ ~Fresh(d)'
  BY <1>1, <1>2, <1>3, <1>6, SavedTask
<1>8. MasterStep
  BY <1>1, <1>4, <1>7, IdleIsCopied DEF MasterStep, Shape
<1>9. \A u \in Tasks : MayStart(u)' => MayStart(u)
  <2>1. \A u \in Tasks : ~At("start", u)'
    BY <1>4 DEF At
  <2>2. \A u \in Tasks : Fresh(u)' => Fresh(u) /\ u # d
    BY <1>7 DEF TaskStep
  <2> QED
    BY <1>5, <1>6, <2>1, <2>2 DEF MayStart
<1> QED
  BY <1>1, <1>8, <1>9, MasterKeeps

LEMMA KillMasterKeeps == ASSUME IInv, KillMaster PROVE IInv'
<1>1. /\ Shape /\ DoneInv /\ RowsInv /\ CountInv /\ TaskStep /\ master' = Idle
      /\ UNCHANGED <<offset, passed, wait, bp, tracked, proc, exports, deaths>>
      /\ masterKills' = masterKills + 1 /\ Cardinality(Existing) + masterKills < MaxRows
  BY SameTasks DEF IInv, KillMaster, MoreRows
<1>2. masterKills' \in Nat /\ Cardinality(Existing) + masterKills' <= MaxRows
  <2>1. Existing \in SUBSET Tasks /\ masterKills \in Nat
    BY <1>1 DEF Shape
  <2>2. Cardinality(Existing) \in Nat
    BY <2>1, ExportAssumption, FS_Subset, FS_CardinalityType DEF ExportAssumption
  <2> QED
    BY <1>1, <2>1, <2>2, ExportAssumption DEF ExportAssumption
<1>3. MasterStep
  BY <1>1, <1>2, IdleIsCopied DEF MasterStep, Shape
<1>4. Shape' /\ DoneInv' /\ RowsInv' /\ \A t : RowsOf(t)' = RowsOf(t) /\ Open(t)' = Open(t)
  BY <1>1, <1>3, MasterStepKeeps
<1>5. ASSUME NEW t \in Tasks PROVE Counted(t)'
  BY <1>1, <1>4, KillCount DEF CountInv
<1> QED
  BY <1>4, <1>5 DEF IInv, CountInv

LEMMA AddProcessKeeps == ASSUME IInv, AddProcess PROVE IInv'
<1>1. /\ Shape /\ DoneInv /\ RowsInv /\ CountInv /\ master.at = "start" /\ master.tasks # <<>>
      /\ Len(bp) < MaxRows /\ Len(bp) \in Nat /\ MaxRows \in Nat /\ bp \in Seq(BPRow)
      /\ UNCHANGED <<offset, passed, task, wait, tracked, proc, exports, deaths, masterKills>>
      /\ master' = [master EXCEPT !.at = "claim"]
  BY LenProperties, ExportAssumption DEF IInv, AddProcess, Shape, ExportAssumption
<1>2. PICK u \in Existing : u = master.tasks[1][1]
  BY <1>1, FirstCopy
<1>3. u \in Tasks
  BY <1>1, <1>2 DEF Shape
<1> DEFINE r == [task |-> u, pid |-> FALSE, done |-> FALSE, age |-> 0]
           n == Len(bp)
           b == n + 1
<1>4. r \in BPRow /\ r.task = u /\ bp' = Append(bp, r)
  BY <1>2, ExportAssumption DEF BPRow, AddProcess, ExportAssumption
<1> HIDE DEF r
<1>5. /\ bp' \in Seq(BPRow) /\ Len(bp') = b /\ bp'[b] = r
      /\ \A c \in 1..n : bp'[c] = bp[c]
  BY <1>1, <1>4, AppendProperties
<1>6. Existing' = Existing /\ BPRow' = BPRow
  BY <1>1 DEF Existing, BPRow
<1>7. /\ master' \in [at : {"idle", "check", "start", "claim"}, tasks : Seq(Existing \X Task)]
      /\ master'.at = "claim" /\ master'.tasks = master.tasks
  BY <1>1 DEF Shape
<1> HIDE DEF b
<1>8. n \in Nat /\ b = n + 1 /\ b \in Nat /\ b <= MaxRows /\ \A x \in Nat : x <= n => x <= b
  BY <1>1 DEF b
<1>9. \A x \in Task : x.bp \in Nat
  BY <1>1 DEF Task
<1>10. Shape'
  <2>0. Past' = Past /\ offset' \in Offsets
    BY <1>1, SameClock DEF Shape
  <2>1. /\ wait' \in [Existing' -> Past'..MaxDelay] /\ Existing' \subseteq Tasks
        /\ task' \in [Existing' -> Task]
    BY <1>1, <1>6, <2>0 DEF Shape
  <2>2. \A t \in Existing' : task'[t].bp <= b
    BY <1>1, <1>6, <1>8, <1>9 DEF Shape
  <2>3. bp' \in Seq(BPRow') /\ Len(bp') <= MaxRows /\ tracked' \subseteq 1..Len(bp')
    BY <1>1, <1>5, <1>6, <1>8 DEF Shape
  <2>4. /\ proc' \in [Rows -> [at : Points, task : Task]]
        /\ exports' \in [Tasks -> Nat] /\ deaths' \in 0..MaxDeaths /\ passed' \in BOOLEAN
        /\ masterKills' \in Nat /\ Cardinality(Existing') + masterKills' <= MaxRows
    BY <1>1, <1>6 DEF Shape
  <2>5. \A c \in Rows : /\ proc'[c].at # "none" => c \in tracked'
                        /\ proc'[c].task.bp <= b
                        /\ proc'[c].at # "read" => proc'[c].task = NoTask
    BY <1>1, <1>8, <1>9 DEF Shape
  <2>6. ASSUME NEW i \in 1..Len(master'.tasks) PROVE master'.tasks[i][2].bp <= b
    <3>1. master.tasks \in Seq(Existing \X Task) /\ i \in 1..Len(master.tasks)
      BY <1>1, <1>7 DEF Shape
    <3>2. master.tasks[i] \in Existing \X Task
      BY <3>1, ElementOfSeq
    <3>3. master.tasks[i][2] \in Task /\ master.tasks[i][2].bp <= n
      BY <1>1, <3>1, <3>2 DEF Shape
    <3> QED
      BY <1>7, <1>8, <1>9, <3>3
  <2>7. master' \in [at : {"idle", "check", "start", "claim"}, tasks : Seq(Existing' \X Task)]
        /\ (master'.at \in {"start", "claim"} => master'.tasks # <<>>)
    BY <1>1, <1>6, <1>7
  <2> QED
    BY <1>5, <2>0, <2>1, <2>2, <2>3, <2>4, <2>5, <2>6, <2>7 DEF Shape
<1>11. \A c \in tracked : c \in 1..n /\ bp'[c] = bp[c]
  BY <1>1, <1>5 DEF Shape
<1>12. DoneInv'
  BY <1>1, <1>6, <1>7, <1>11 DEF DoneInv
<1>13. RowsInv'
  BY <1>1, <1>11 DEF RowsInv
<1>14. /\ RowsOf(u)' = RowsOf(u) \cup {b} /\ b \notin RowsOf(u)
       /\ \A t \in Tasks \ {u} : RowsOf(t)' = RowsOf(t)
  <2>1. 1..Len(bp') = (1..n) \cup {b} /\ b \notin 1..n
    BY <1>5, <1>8
  <2> HIDE DEF n
  <2>2. b \notin RowsOf(u)
    BY <2>1 DEF RowsOf, n
  <2>3. ASSUME NEW t PROVE RowsOf(t)' = {c \in 1..n : bp[c].task = t} \cup (IF t = u THEN {b} ELSE {})
    BY <1>4, <1>5, <2>1 DEF RowsOf
  <2> QED
    BY <2>2, <2>3 DEF RowsOf, n
<1>15. Open(u)' \subseteq Open(u) \cup {b} /\ \A t \in Tasks \ {u} : Open(t)' \subseteq Open(t)
  <2>1. ASSUME NEW t, NEW c \in Open(t)', c \in 1..n PROVE c \in Open(t)
    BY <1>1, <1>5, <2>1 DEF Open, RowsOf
  <2>2. \A c \in 1..Len(bp') : c \in 1..n \/ c = b
    BY <1>5, <1>8
  <2>3. \A t : Open(t)' \subseteq RowsOf(t)' /\ RowsOf(t)' \subseteq 1..Len(bp')
    BY DEF Open, RowsOf
  <2>4. ASSUME NEW t \in Tasks \ {u} PROVE b \notin RowsOf(t)'
    BY <1>4, <1>5, <2>4 DEF RowsOf
  <2> QED
    BY <2>1, <2>2, <2>3, <2>4
<1>16. /\ At("start", u) /\ ~MayStart(u)'
       /\ \A t \in Tasks \ {u} : MayStart(t)' => MayStart(t)
  <2>1. At("start", u) /\ \A t : ~At("start", t)' /\ (At("claim", t)' <=> t = u)
    BY <1>1, <1>2, <1>7 DEF At
  <2>2. \A t : Fresh(t)' => Fresh(t)
    BY <1>1, <1>6 DEF Fresh
  <2>3. \A t : ~At("claim", t)
    BY <1>1 DEF At
  <2> QED
    BY <2>1, <2>2, <2>3 DEF MayStart
<1>17. ASSUME NEW t \in Tasks PROVE Counted(t)'
  <2>1. Counted(t) /\ UNCHANGED <<exports, deaths, masterKills>> /\ deaths \in Nat
    BY <1>1, Finite DEF CountInv
  <2>2. CASE t = u
    BY <1>1, <1>14, <1>15, <1>16, <2>1, <2>2, NewRowCount
  <2>3. CASE t # u
    <3>1. /\ RowsOf(t)' = RowsOf(t) /\ Open(t)' \subseteq Open(t)
          /\ (MayStart(t)' => MayStart(t))
      BY <1>14, <1>15, <1>16, <2>3
    <3>2. exports'[t] = exports[t] /\ deaths <= deaths'
      BY <2>1
    <3> QED
      BY <1>1, <1>10, <2>1, <3>1, <3>2, QuietCount
  <2> QED
    BY <2>2, <2>3
<1> QED
  BY <1>10, <1>12, <1>13, <1>17 DEF IInv, CountInv
----------------------------------------------------------------------------
(* Time and new tasks.                                                     *)

LEMMA TickKeeps == ASSUME IInv, Tick PROVE IInv'
<1>1. /\ Shape /\ DoneInv /\ RowsInv /\ CountInv
      /\ UNCHANGED <<offset, task, tracked, proc, master, exports, deaths, masterKills>>
      /\ passed' = FALSE /\ Existing' = Existing /\ BPRow' = BPRow
      /\ Len(bp) \in Nat /\ bp \in [1..Len(bp) -> BPRow] /\ Hour \in Nat /\ MaxDelay \in Nat
  BY LenProperties, ExportAssumption DEF IInv, Tick, Shape, Existing, BPRow, ExportAssumption
<1> DEFINE n == Len(bp)
           older(c) == IF bp[c].pid \/ bp[c].age = Hour THEN bp[c].age ELSE bp[c].age + 1
<1>2. bp' = [c \in 1..n |-> [bp[c] EXCEPT !.age = older(c)]]
  BY DEF Tick
<1>3. \A c \in 1..n : older(c) \in 0..Hour
  BY <1>1 DEF BPRow
<1> HIDE DEF older
<1>4. \A c \in 1..n : [bp[c] EXCEPT !.age = older(c)] \in BPRow
  BY <1>1, <1>3 DEF BPRow
<1>5. /\ bp' \in [1..n -> BPRow]
      /\ \A c \in 1..n : bp'[c].task = bp[c].task /\ bp'[c].done = bp[c].done
  BY <1>1, <1>2, <1>4 DEF BPRow
<1>6. bp' \in Seq(BPRow) /\ Len(bp') = Len(bp)
  BY <1>1, <1>5, IsSequence
<1>7. wait' \in [Existing -> Past..MaxDelay] /\ Past' = Past /\ offset' \in Offsets
  <2>1. wait' = [t \in Existing |-> IF wait[t] = Past THEN Past ELSE wait[t] - 1]
    BY DEF Tick
  <2>2. (\A t \in Existing : wait[t] \in Past..MaxDelay) /\ Past \in Int /\ Past < 0
    BY <1>1, PastIsPast DEF Shape
  <2>3. \A t \in Existing : (IF wait[t] = Past THEN Past ELSE wait[t] - 1) \in Past..MaxDelay
    BY <1>1, <2>2
  <2> QED
    BY <1>1, <2>1, <2>3, SameClock DEF Shape
<1>8. Shape'
  BY <1>1, <1>6, <1>7 DEF Shape
<1>9. \A c \in tracked : c \in 1..n
  BY <1>1 DEF Shape
<1>10. DoneInv'
  BY <1>1, <1>5, <1>9 DEF DoneInv
<1>11. RowsInv'
  BY <1>1, <1>5, <1>9 DEF RowsInv
<1>12. \A t : RowsOf(t)' = RowsOf(t) /\ Open(t)' = Open(t) /\ MayStart(t)' = MayStart(t)
  BY <1>1, <1>5, <1>6 DEF RowsOf, Open, MayStart, Fresh, At
<1>13. ASSUME NEW t \in Tasks PROVE Counted(t)'
  <2>1. Counted(t)
    BY <1>1 DEF CountInv
  <2> QED
    BY <1>1, <1>12, <2>1 DEF Counted
<1> QED
  BY <1>8, <1>10, <1>11, <1>13 DEF IInv, CountInv

LEMMA CreateKeeps == ASSUME IInv, NEW t \in Tasks, Create(t) PROVE IInv'
<1>1. /\ Shape /\ DoneInv /\ RowsInv /\ CountInv /\ t \notin Existing
      /\ Cardinality(Existing) + masterKills < MaxRows
      /\ UNCHANGED <<offset, passed, bp, tracked, proc, master, exports, deaths, masterKills>>
      /\ task' = [u \in Existing \cup {t} |-> IF u = t THEN NoTask ELSE task[u]]
  BY DEF IInv, Create, MoreRows
<1>2. Existing' = Existing \cup {t} /\ Existing \subseteq Existing'
  BY <1>1 DEF Existing
<1>3. PICK w \in Past..MaxDelay : wait' = [u \in Existing \cup {t} |-> IF u = t THEN w ELSE wait[u]]
  BY DEF Create
<1>4. wait' \in [Existing' -> Past'..MaxDelay] /\ task' \in [Existing' -> Task]
      /\ task'[t] = NoTask /\ \A u \in Existing : task'[u] = task[u]
  BY <1>1, <1>2, <1>3, NoTaskIsTask, SameClock DEF Shape
<1>5. Cardinality(Existing') + masterKills' <= MaxRows
  <2>1. Existing \in SUBSET Tasks /\ masterKills \in Nat
    BY <1>1 DEF Shape
  <2>2. IsFiniteSet(Existing) /\ Cardinality(Existing) \in Nat
    BY <2>1, ExportAssumption, FS_Subset, FS_CardinalityType DEF ExportAssumption
  <2>3. Cardinality(Existing') = Cardinality(Existing) + 1
    BY <1>1, <1>2, <2>2, FS_AddElement
  <2> QED
    BY <1>1, <2>1, <2>2, <2>3, ExportAssumption DEF ExportAssumption
<1>6. bp \in Seq(BPRow') /\ master.tasks \in Seq(Existing' \X Task) /\ Len(bp) \in Nat
  <2>1. BPRow \subseteq BPRow' /\ Existing \X Task \subseteq Existing' \X Task
    BY <1>2 DEF BPRow
  <2>2. bp \in Seq(BPRow) /\ master.tasks \in Seq(Existing \X Task)
    BY <1>1 DEF Shape
  <2> QED
    BY <2>1, <2>2, SeqDef, LenProperties
<1>7. Shape'
  <2>1. \A u \in Existing' : task'[u].bp <= Len(bp')
    BY SMTT(30), <1>1, <1>2, <1>4, <1>6, NoTaskIsTask DEF Shape
  <2>2. Existing' \subseteq Tasks
    BY <1>1, <1>2 DEF Shape
  <2>3. master' \in [at : {"idle", "check", "start", "claim"}, tasks : Seq(Existing' \X Task)]
    BY <1>1, <1>6 DEF Shape
  <2>4. bp' \in Seq(BPRow')
    BY <1>1, <1>6
  <2> QED
    BY <1>1, <1>4, <1>5, <2>1, <2>2, <2>3, <2>4 DEF Shape
<1>8. DoneInv'
  BY <1>1, <1>2, <1>4, NoTaskIsTask DEF DoneInv
<1>9. RowsInv'
  BY <1>1 DEF RowsInv
<1>10. \A u : RowsOf(u)' = RowsOf(u) /\ Open(u)' = Open(u)
  BY <1>1 DEF RowsOf, Open
<1>11. \A u : MayStart(u)' => MayStart(u)
  <2>1. \A u : Fresh(u)' => Fresh(u)
    BY <1>1, <1>2, <1>4 DEF Fresh
  <2> QED
    BY <1>1, <2>1 DEF MayStart, At
<1>12. ASSUME NEW u \in Tasks PROVE Counted(u)'
  <2>1. Counted(u)
    BY <1>1 DEF CountInv
  <2> QED
    BY <1>1, <1>10, <1>11, <2>1 DEF Counted
<1> QED
  BY <1>7, <1>8, <1>9, <1>12 DEF IInv, CountInv
----------------------------------------------------------------------------
LEMMA InitEstablishes == ASSUME Init PROVE IInv
<1>1. /\ Existing = {} /\ bp = <<>> /\ Len(bp) = 0 /\ 1..Len(bp) = {} /\ tracked = {}
  <2>1. DOMAIN task = {}
    BY EmptySeq DEF Init
  <2>2. bp = <<>> /\ tracked = {}
    BY DEF Init
  <2> QED
    BY <2>1, <2>2, EmptySeq DEF Existing
<1>2. Copied(Idle) /\ master = Idle /\ master.at = "idle" /\ master.tasks = <<>>
  BY IdleIsCopied DEF Init, Idle
<1>3. 1..Len(master.tasks) = {}
  BY <1>2, EmptySeq
<1>4. Shape
  <2>1. Cardinality(Existing) = 0
    BY <1>1, FS_EmptySet
  <2>2. task \in [Existing -> Task] /\ wait \in [Existing -> Past..MaxDelay]
    <3>1. task = [x \in {} |-> 0] /\ wait = [x \in {} |-> 0]
      BY EmptySeq DEF Init
    <3> QED
      BY <1>1, <3>1
  <2>3. proc \in [Rows -> [at : Points, task : Task]]
        /\ \A b \in Rows : proc[b].at = "none" /\ proc[b].task = NoTask
    BY NoTaskIsTask DEF Init, NoProcess, Points
  <2>4. bp \in Seq(BPRow)
    BY <1>1, EmptySeq
  <2>5. exports \in [Tasks -> Nat] /\ deaths \in 0..MaxDeaths /\ masterKills = 0
        /\ offset \in Offsets /\ passed \in BOOLEAN /\ MaxRows \in Nat
    <3>1. MaxDeaths \in Nat /\ MaxRows \in Nat
      BY ExportAssumption DEF ExportAssumption
    <3>2. exports = [t \in Tasks |-> 0] /\ deaths = 0 /\ masterKills = 0 /\ passed = FALSE
      BY DEF Init
    <3>3. exports \in [Tasks -> Nat]
      BY <3>2
    <3>4. deaths \in 0..MaxDeaths
      BY <3>1, <3>2
    <3>5. passed \in BOOLEAN /\ offset \in Offsets
      BY <3>2 DEF Init
    <3> QED
      BY <3>1, <3>2, <3>3, <3>4, <3>5
  <2>6. NoTask.bp = 0
    BY NoTaskIsTask
  <2>7. \A b \in Rows : proc[b].task.bp <= Len(bp)
    BY <1>1, <2>3, <2>6
  <2>8. Len(bp) <= MaxRows /\ tracked \subseteq 1..Len(bp) /\ masterKills \in Nat
        /\ Cardinality(Existing) + masterKills <= MaxRows
    BY <1>1, <2>1, <2>5
  <2>9. \A t \in Existing : task[t].bp <= Len(bp)
    BY <1>1
  <2> QED
    BY <1>1, <1>2, <1>3, <2>2, <2>3, <2>4, <2>5, <2>7, <2>8, <2>9 DEF Shape, Copied
<1>5. DoneInv /\ RowsInv
  BY <1>1, <1>3 DEF DoneInv, RowsInv
<1>6. ASSUME NEW t \in Tasks PROVE Counted(t)
  <2>1. RowsOf(t) = {} /\ Open(t) = {}
    BY <1>1 DEF RowsOf, Open
  <2>2. Cardinality(RowsOf(t)) = 0 /\ Cardinality(Open(t)) = 0
    BY <2>1, FS_EmptySet
  <2>3. exports[t] = 0 /\ deaths = 0 /\ masterKills = 0
    BY DEF Init
  <2> QED
    BY <2>2, <2>3 DEF Counted
<1> QED
  BY <1>4, <1>5, <1>6 DEF IInv, CountInv

LEMMA StutterKeeps == ASSUME IInv, UNCHANGED vars PROVE IInv'
<1>1. Existing' = Existing
  BY DEF vars, Existing
<1>2. BPRow' = BPRow /\ Past' = Past
  BY <1>1, SameClock DEF BPRow, vars
<1>3. Shape'
  BY <1>1, <1>2 DEF IInv, Shape, vars
<1>4. DoneInv' /\ RowsInv'
  BY <1>1 DEF IInv, DoneInv, RowsInv, vars
<1>5. \A t : RowsOf(t)' = RowsOf(t) /\ Open(t)' = Open(t) /\ MayStart(t)' = MayStart(t)
  BY <1>1 DEF RowsOf, Open, MayStart, Fresh, At, vars
<1>6. ASSUME NEW t \in Tasks PROVE Counted(t)'
  <2>1. Counted(t) /\ UNCHANGED <<exports, deaths, masterKills>>
    BY DEF IInv, CountInv, vars
  <2> QED
    BY <1>5, <2>1 DEF Counted
<1> QED
  BY <1>3, <1>4, <1>6 DEF IInv, CountInv

LEMMA NextKeeps == ASSUME IInv, [Next]_vars PROVE IInv'
<1>1. ASSUME Tick PROVE IInv'
  BY <1>1, TickKeeps
<1>2. ASSUME Master PROVE IInv'
  BY <1>2, LookKeeps, CheckKeeps, EndCheckKeeps, AddProcessKeeps, ClaimKeeps DEF Master
<1>3. ASSUME KillMaster PROVE IInv'
  BY <1>3, KillMasterKeeps
<1>4. ASSUME NEW t \in Tasks, Create(t) PROVE IInv'
  BY <1>4, CreateKeeps
<1>5. ASSUME NEW b \in Rows, Scheduler(b) PROVE IInv'
  BY <1>5, SpawnKeeps, TerminateKeeps, DropKeeps, SweepKeeps DEF Scheduler
<1>6. ASSUME NEW b \in Rows, ExportProcess(b) PROVE IInv'
  BY <1>6, RegisterKeeps, ReadTaskKeeps, MarkBusyKeeps, WriteFileKeeps, MarkDoneKeeps,
     CloseKeeps DEF ExportProcess
<1>7. ASSUME NEW b \in Rows, Die(b) PROVE IInv'
  BY <1>7, DieKeeps
<1>8. CASE UNCHANGED vars
  BY <1>8, StutterKeeps
<1> QED
  BY <1>1, <1>2, <1>3, <1>4, <1>5, <1>6, <1>7, <1>8 DEF Next

\* Tables, copies of rows and counts agree, whatever the processes overwrite.
THEOREM InvariantHolds == Spec => []IInv
<1>1. Init => IInv
  BY InitEstablishes
<1>2. IInv /\ [Next]_vars => IInv'
  BY NextKeeps
<1> QED
  BY <1>1, <1>2, PTL DEF Spec

\* The variables keep their types.
THEOREM TypeCorrect == Spec => []TypeOK
<1>1. ASSUME IInv PROVE TypeOK
  <2>1. Shape
    BY <1>1 DEF IInv
  <2>2. \A t \in Existing : task[t] \in Task /\ task[t].bp <= Len(bp)
    BY <2>1 DEF Shape
  <2>3. masterKills \in 0..MaxRows
    <3>1. Existing \in SUBSET Tasks /\ masterKills \in Nat
      BY <2>1 DEF Shape
    <3>2. Cardinality(Existing) \in Nat
      BY <3>1, ExportAssumption, FS_Subset, FS_CardinalityType DEF ExportAssumption
    <3> QED
      BY <2>1, <3>1, <3>2, ExportAssumption DEF Shape, ExportAssumption
  <2>4. bp \in Seq([task : Existing, pid : BOOLEAN, done : BOOLEAN, age : 0..Hour])
    BY <2>1 DEF Shape, BPRow
  <2> QED
    BY <2>1, <2>2, <2>3, <2>4 DEF Shape, TypeOK
<1> QED
  BY <1>1, InvariantHolds, PTL

\* A task labelled done has been exported, and no task is exported a second time unless a
\* process was killed or the master was.
THEOREM ExportsCounted == Spec => []ExportedOnce
<1>1. ASSUME IInv PROVE ExportedOnce
  <2>1. Shape /\ DoneInv /\ CountInv
    BY <1>1 DEF IInv
  <2>2. ASSUME NEW t \in Existing PROVE exports[t] <= 1 + deaths + masterKills
    <3>1. t \in Tasks /\ exports[t] \in Nat
      BY <2>1 DEF Shape
    <3>2. Counted(t)
      BY <2>1, <3>1 DEF CountInv
    <3>3. /\ Cardinality(RowsOf(t)) \in Nat /\ Cardinality(Open(t)) \in Nat
          /\ deaths \in Nat /\ masterKills \in Nat
      BY <2>1, Finite
    <3>4. /\ Cardinality(RowsOf(t)) <= 1 + masterKills
          /\ exports[t] + Cardinality(Open(t)) <= Cardinality(RowsOf(t)) + deaths
      BY <3>2 DEF Counted
    <3> QED
      BY <3>1, <3>3, <3>4
  <2> QED
    BY <2>1, <2>2 DEF DoneInv, ExportedOnce
<1> QED
  BY <1>1, InvariantHolds, PTL
----------------------------------------------------------------------------
(* The label busy.                                                         *)

\* As long as a task is labelled busy, and has not failed, the master starts no other one:
\* the label is a lock on all exports, and every process that may take it away can die.
\* Somebody is left to take it away when the task names no row, or when the process of the
\* row it names has not passed MarkDone, or the scheduler has not noticed yet that it has
\* died, or will spawn it once more, or has the pid 0 that the checks of the master look
\* for. The one case left is Stuck, which the export run excuses too: a process has died
\* between the label done of its row and the one of its task. Besides, the start of the
\* task is past, which the check asks for. This holds whichever rows of a task are
\* overwritten by other processes that work for it.
Owned(t) == LET b == task[t].bp IN
    \/ b = None
    \/ proc[b].at \in Working \cup {"written"}
    \/ proc[b].at = "none" /\ (b \in tracked \/ ~bp[b].done)
    \/ ~bp[b].pid /\ bp[b].age < Hour
LockOwned == \A t \in Running : wait[t] <= 0 /\ (Owned(t) \/ Stuck(t))

Holding == Before \cup {"written"}
Active == {"ready", "read", "busy", "written"}
Ended(b) == proc[b].at = "none" /\ bp[b].done

\* A task whose process has ended and lost its pid is given up in the next pass, unless the
\* clock is behind: the master has a copy of it that names the row, or will make one.
Noticed(t) == \E i \in 1..Len(master.tasks) :
    master.tasks[i][1] = t /\ master.tasks[i][2].bp = task[t].bp
GivenUp(t) ==
    /\ Older(wait[t]) /\ ~passed
    /\ master.at = "idle" \/ (master.at = "check" /\ Noticed(t))
Fate(b, t) == bp[b].pid \/ offset > 0 \/ bp[b].age = 0 \/ (bp[b].age = 1 /\ GivenUp(t))
LockOf(t) == LET b == task[t].bp IN
    b # None => /\ bp[b].task = t /\ proc[b].at \in Holding
                /\ Ended(b) => deaths > 0 /\ Fate(b, t)

\* A process at work has entered its pid, and leaves it behind when it is killed.
Registered == \A b \in tracked : proc[b].at \in Active => bp[b].pid

\* A task neither busy nor done names no row, also in the copy the master will save.
Unclaimed == \A t \in Existing : ~task[t].busy /\ ~task[t].done => task[t].bp = None
Copy(i) == master.tasks[i][2]
CopyInv ==
    /\ passed => master = Idle
    /\ master.at = "check" => \A i \in 1..Len(master.tasks) : Copy(i).busy
    /\ master.at \in {"start", "claim"} => Copy(1).bp = None

\* Whatever has been started was due.
Started ==
    /\ \A t \in Existing : task[t].busy => wait[t] <= 0
    /\ \A b \in 1..Len(bp) : wait[bp[b].task] <= 0
    /\ \A i \in 1..Len(master.tasks) : wait[master.tasks[i][1]] <= 0

Locks == \A t \in Running : LockOf(t)
LockInv == Unclaimed /\ CopyInv /\ Started /\ Registered /\ Locks

\* What the locks of running tasks are about.
LEMMA LockedRow ==
    ASSUME IInv, NEW t \in Existing, task[t].bp # None
    PROVE  task[t].bp \in 1..Len(bp) /\ task[t].bp \in Rows /\ Len(bp) \in Nat
<1>1. /\ task[t] \in Task /\ task[t].bp <= Len(bp) /\ Len(bp) \in Nat /\ Len(bp) <= MaxRows
      /\ MaxRows \in Nat
  BY LenProperties, ExportAssumption DEF IInv, Shape, ExportAssumption
<1> QED
  BY <1>1 DEF Task, None, Rows

\* A step that concerns row b and saves no task.
LEMMA RowStepLocks ==
    ASSUME IInv, LockInv, NEW b \in 1..Len(bp), UNCHANGED <<offset, passed, task, wait, master>>,
           deaths' \in {deaths, deaths + 1}, tracked' \subseteq tracked \cup {b},
           Len(bp') = Len(bp), bp'[b].task = bp[b].task,
           \A c \in 1..Len(bp) \ {b} : bp'[c] = bp[c] /\ proc'[c] = proc[c],
           proc[b].at \in Holding => proc'[b].at \in Holding,
           proc'[b].at \in Active => bp'[b].pid,
           proc[b].at \in Holding /\ Ended(b)' =>
              /\ Ended(b) \/ deaths' > 0
              /\ bp'[b].pid \/ bp'[b].age = 0 \/ (Ended(b) /\ bp'[b] = bp[b])
    PROVE  LockInv'
<1>1. Unclaimed' /\ CopyInv'
  BY DEF LockInv, Unclaimed, CopyInv, Copy, Existing
<1>2. \A c \in 1..Len(bp) : bp'[c].task = bp[c].task
  OBVIOUS
<1>3. Started'
  BY <1>2 DEF LockInv, Started, Existing
<1>4. Registered'
  <2>1. ASSUME NEW c \in tracked', proc'[c].at \in Active, c # b PROVE bp'[c].pid
    <3>1. c \in tracked /\ c \in 1..Len(bp)
      BY <2>1 DEF IInv, Shape
    <3> QED
      BY <2>1, <3>1 DEF LockInv, Registered
  <2> QED
    BY <2>1 DEF Registered
<1>5. deaths \in Nat
  BY Finite DEF IInv
<1>6. ASSUME NEW t \in Running PROVE LockOf(t)'
  <2>1. t \in Existing /\ LockOf(t)
    BY <1>6 DEF Running, LockInv, Locks
  <2>2. GivenUp(t)' = GivenUp(t)
    BY DEF GivenUp, Noticed, Older
  <2>3. CASE task[t].bp = None
    BY <2>3 DEF LockOf
  <2>4. CASE task[t].bp # None
    <3>1. PICK r \in 1..Len(bp) : r = task[t].bp
      BY <2>1, <2>4, LockedRow
    <3>2. /\ bp[r].task = t /\ proc[r].at \in Holding
          /\ Ended(r) => deaths > 0 /\ Fate(r, t)
      BY <2>1, <2>4, <3>1 DEF LockOf
    <3>3. /\ bp'[r].task = t /\ proc'[r].at \in Holding
          /\ Ended(r)' => deaths' > 0 /\ Fate(r, t)'
      <4>1. CASE r = b
        <5>1. bp'[r].task = t /\ proc'[r].at \in Holding
          BY <3>2, <4>1 DEF Holding, Before
        <5>2. ASSUME Ended(r)' PROVE deaths' > 0
          BY <1>5, <3>2, <4>1, <5>2
        <5>3. ASSUME Ended(r)' PROVE Fate(r, t)'
          BY <2>2, <3>2, <4>1, <5>3 DEF Fate
        <5> QED
          BY <5>1, <5>2, <5>3
      <4>2. CASE r # b
        <5>1. bp'[r] = bp[r] /\ proc'[r] = proc[r] /\ Ended(r)' = Ended(r)
          BY <4>2 DEF Ended
        <5>2. deaths > 0 => deaths' > 0
          BY <1>5
        <5> QED
          BY <2>2, <3>2, <5>1, <5>2 DEF Holding, Before, Fate
      <4> QED
        BY <4>1, <4>2
    <3> QED
      BY <3>1, <3>3 DEF LockOf
  <2> QED
    BY <2>3, <2>4
<1>7. Running' = Running
  BY DEF Running, Existing
<1> QED
  BY <1>1, <1>3, <1>4, <1>6, <1>7 DEF LockInv, Locks

\* A row that is edited, for the lemma above.
LEMMA EditLocks ==
    ASSUME IInv, LockInv, NEW b \in 1..Len(bp), NEW isDone, Edited(b, isDone),
           UNCHANGED <<offset, passed, task, wait, master>>, deaths' \in {deaths, deaths + 1},
           NEW p, proc' = [proc EXCEPT ![b] = p], tracked' \subseteq tracked \cup {b},
           proc[b].at \in Holding => p.at \in Holding,
           p.at \in Active => bp'[b].pid,
           proc[b].at \in Holding /\ Ended(b)' =>
              /\ Ended(b) \/ deaths' > 0
              /\ bp'[b].pid \/ bp'[b].age = 0 \/ (Ended(b) /\ bp'[b] = bp[b])
    PROVE  LockInv'
<1>1. Shape /\ Len(bp) \in Nat /\ 1..Len(bp) \subseteq Rows /\ b \in Rows
  BY LenProperties, ExportAssumption DEF IInv, Shape, Rows, ExportAssumption
<1>2. Len(bp') = Len(bp) /\ bp'[b].task = bp[b].task
  BY <1>1, EditedRows DEF Edited, Existing
<1>3. proc' \in [Rows -> {proc[c] : c \in Rows} \cup {p}]
      /\ proc'[b] = p /\ \A c \in Rows \ {b} : proc'[c] = proc[c]
  BY <1>1 DEF Shape
<1>4. \A c \in 1..Len(bp) \ {b} : bp'[c] = bp[c] /\ proc'[c] = proc[c]
  BY <1>1, <1>3 DEF Edited
<1>5. /\ proc[b].at \in Holding => proc'[b].at \in Holding
      /\ proc'[b].at \in Active => bp'[b].pid
  BY <1>3
<1> QED
  BY <1>2, <1>4, <1>5, RowStepLocks

LEMMA SpawnLocks == ASSUME IInv, LockInv, NEW b \in Rows, Spawn(b) PROVE LockInv'
<1>1. Shape /\ b \in 1..Len(bp) /\ bp[b].done \in BOOLEAN /\ proc[b].at # "read"
  <2>1. b \in 1..Len(bp) /\ b \notin tracked /\ Shape
    BY DEF Spawn, IInv
  <2>2. bp[b] \in BPRow /\ proc[b].at = "none"
    BY <2>1, ElementOfSeq DEF Shape
  <2> QED
    BY <2>1, <2>2 DEF BPRow
<1>2. Edited(b, bp[b].done) /\ Moved(b, "new", NoTask)
  <2>1. "new" \in Points
    BY DEF Points
  <2> QED
    BY <1>1, <2>1, Edits, Moves DEF Spawn
<1> DEFINE p == [at |-> "new", task |-> NoTask]
<1>3. /\ proc' = [proc EXCEPT ![b] = p] /\ p.at \in Holding /\ p.at \notin Active
      /\ proc'[b].at = "new"
  BY <1>1, <1>2 DEF Moved, Holding, Before, Active, Shape
<1> HIDE DEF p
<1>4. ~Ended(b)'
  BY <1>3 DEF Ended
<1>5. UNCHANGED <<offset, passed, task, wait, master, deaths>> /\ tracked' \subseteq tracked \cup {b}
  BY DEF Spawn, Tracked
<1> QED
  BY <1>1, <1>2, <1>3, <1>4, <1>5, EditLocks

LEMMA TerminateLocks == ASSUME IInv, LockInv, NEW b \in Rows, Terminate(b) PROVE LockInv'
<1>1. Shape /\ b \in 1..Len(bp) /\ bp \in [1..Len(bp) -> BPRow]
  BY TrackedRow, LenProperties DEF Terminate, IInv, Shape
<1>0. bp[b].done \in BOOLEAN
  BY <1>1 DEF BPRow
<1>2. Edited(b, bp[b].done) /\ proc[b].at \notin Holding
  <2>1. proc[b].at \notin Holding /\ FALSE \in BOOLEAN
    BY DEF Terminate, Holding, Before
  <2>2. bp' = [bp EXCEPT ![b].pid = FALSE, ![b].age = 0]
    BY DEF Terminate
  <2> QED
    BY <1>1, <1>0, <2>1, <2>2, Edits
<1>3. NoProcess.at \notin Active
  BY DEF NoProcess, Active
<1>4. /\ UNCHANGED <<offset, passed, task, wait, master, deaths>>
      /\ proc' = [proc EXCEPT ![b] = NoProcess] /\ tracked' \subseteq tracked \cup {b}
  BY DEF Terminate
<1> QED
  BY <1>1, <1>2, <1>3, <1>4, EditLocks

\* The scheduler forgets a process that is not there: the row had ended before.
LEMMA ForgetLocks ==
    ASSUME IInv, LockInv, NEW b \in tracked, proc[b].at = "none",
           UNCHANGED <<offset, passed, task, wait, master, proc, deaths>>,
           tracked' = tracked \ {b},
           UNCHANGED bp \/ bp' = [bp EXCEPT ![b].pid = FALSE, ![b].age = 0]
    PROVE  LockInv'
<1>1. /\ Shape /\ b \in 1..Len(bp) /\ b \in Rows /\ bp \in [1..Len(bp) -> BPRow]
      /\ bp[b].done \in BOOLEAN
  <2>1. Shape /\ b \in 1..Len(bp) /\ b \in Rows /\ bp \in [1..Len(bp) -> BPRow]
    BY TrackedRow, LenProperties DEF IInv, Shape
  <2> QED
    BY <2>1 DEF BPRow
<1>2. Edited(b, bp[b].done) /\ bp'[b].done = bp[b].done
  <2>1. CASE UNCHANGED bp
    BY <1>1, <2>1, Edits
  <2>2. CASE bp' = [bp EXCEPT ![b].pid = FALSE, ![b].age = 0]
    <3>1. Edited(b, bp[b].done)
      BY <1>1, <2>2, Edits
    <3> QED
      BY <3>1 DEF Edited
  <2> QED
    BY <2>1, <2>2
<1>3. bp'[b].age = 0 \/ bp'[b] = bp[b]
  BY <1>1 DEF BPRow
<1>4. Ended(b)' => Ended(b)
  BY <1>2 DEF Ended
<1> DEFINE p == proc[b]
<1>5. /\ proc' = [proc EXCEPT ![b] = p] /\ p.at \notin Active
      /\ proc[b].at \in Holding => p.at \in Holding
  BY <1>1 DEF Shape, Active
<1> HIDE DEF p
<1>6. tracked' \subseteq tracked \cup {b}
  OBVIOUS
<1> QED
  BY <1>1, <1>2, <1>3, <1>4, <1>5, <1>6, EditLocks

LEMMA DropLocks == ASSUME IInv, LockInv, NEW b \in Rows, Drop(b) PROVE LockInv'
  BY ForgetLocks DEF Drop

LEMMA SweepLocks == ASSUME IInv, LockInv, NEW b \in Rows, Sweep(b) PROVE LockInv'
  BY ForgetLocks DEF Sweep

\* The process of row b makes a step, which leaves it there.
LEMMA ProcessLocks ==
    ASSUME IInv, LockInv, NEW b \in Rows, proc[b].at # "none", NEW isDone, Edited(b, isDone),
           UNCHANGED <<offset, passed, task, wait, master, tracked, deaths>>,
           NEW x \in Points \ {"none"}, NEW row, Moved(b, x, row),
           proc[b].at \in Holding => x \in Holding,
           x \in Active => bp'[b].pid
    PROVE  LockInv'
<1>1. Shape /\ b \in tracked /\ b \in 1..Len(bp)
  BY ActiveRow
<1> DEFINE p == [at |-> x, task |-> row]
<1>2. /\ proc' = [proc EXCEPT ![b] = p] /\ p.at # "none"
      /\ proc[b].at \in Holding => p.at \in Holding
      /\ p.at \in Active => bp'[b].pid
  BY DEF Moved
<1> HIDE DEF p
<1>3. ~Ended(b)' /\ tracked' \subseteq tracked \cup {b}
  <2>1. proc \in [Rows -> [at : Points, task : Task]]
    BY <1>1 DEF Shape
  <2> QED
    BY <1>2, <2>1 DEF Ended
<1> QED
  BY <1>1, <1>2, <1>3, EditLocks

LEMMA RegisterLocks == ASSUME IInv, LockInv, NEW b \in Rows, Register(b) PROVE LockInv'
<1>1. proc[b].at = "new" /\ proc' = [proc EXCEPT ![b].at = "ready"] /\ "ready" \in Points
  BY DEF Register, Step, Points
<1>2. Edited(b, FALSE) /\ Moved(b, "ready", NoTask)
  <2>1. Shape /\ b \in 1..Len(bp)
    BY <1>1, ActiveRow
  <2>2. Moved(b, "ready", NoTask)
    BY <1>1, <2>1, Moves
  <2>3. bp' = [bp EXCEPT ![b].pid = TRUE, ![b].done = FALSE, ![b].age = 0]
    BY DEF Register
  <2> QED
    BY <2>1, <2>2, <2>3, Edits
<1>3. UNCHANGED <<offset, passed, task, wait, master, tracked, deaths>>
  BY DEF Register
<1>4. bp'[b].pid
  <2>1. b \in 1..Len(bp) /\ bp \in [1..Len(bp) -> BPRow]
    BY <1>1, ActiveRow, LenProperties DEF Shape
  <2> QED
    BY <2>1 DEF Register, BPRow
<1> QED
  BY <1>1, <1>2, <1>3, <1>4, ProcessLocks DEF Holding, Before

LEMMA ReadTaskLocks == ASSUME IInv, LockInv, NEW b \in Rows, ReadTask(b) PROVE LockInv'
<1>1. proc[b].at = "ready" /\ "read" \in Points
  BY DEF ReadTask, Points
<1>2. Edited(b, bp[b].done) /\ Moved(b, "read", task[bp[b].task])
  <2>1. Shape /\ b \in 1..Len(bp) /\ bp[b].done \in BOOLEAN
    BY <1>1, ActiveRow
  <2>2. Moved(b, "read", task[bp[b].task]) /\ UNCHANGED bp
    BY DEF ReadTask, Moved
  <2> QED
    BY <2>1, <2>2, Edits
<1>3. UNCHANGED <<offset, passed, task, wait, bp, master, tracked, deaths>>
  BY DEF ReadTask
<1>4. bp'[b].pid
  BY <1>1, <1>3, ActiveRow DEF LockInv, Registered, Active
<1> QED
  BY <1>1, <1>2, <1>3, <1>4, ProcessLocks DEF Holding, Before

LEMMA WriteFileLocks == ASSUME IInv, LockInv, NEW b \in Rows, WriteFile(b) PROVE LockInv'
<1>1. proc[b].at = "busy" /\ proc' = [proc EXCEPT ![b].at = "written"] /\ "written" \in Points
  BY DEF WriteFile, Step, Points
<1>2. PICK data \in BOOLEAN : bp' = [bp EXCEPT ![b].done = data, ![b].age = 0]
  BY DEF WriteFile
<1>3. Edited(b, data) /\ Moved(b, "written", NoTask)
  <2>1. Shape /\ b \in 1..Len(bp)
    BY <1>1, ActiveRow
  <2>2. Moved(b, "written", NoTask)
    BY <1>1, <2>1, Moves
  <2> QED
    BY <1>2, <2>1, <2>2, Edits
<1>4. UNCHANGED <<offset, passed, task, wait, master, tracked, deaths>>
  BY DEF WriteFile
<1>5. bp'[b].pid
  <2>1. b \in tracked /\ b \in 1..Len(bp) /\ bp \in [1..Len(bp) -> BPRow]
    BY <1>1, ActiveRow, LenProperties DEF Shape
  <2>2. bp[b].pid
    BY <1>1, <2>1 DEF LockInv, Registered, Active
  <2> QED
    BY <1>2, <2>1, <2>2 DEF BPRow
<1> QED
  BY <1>1, <1>3, <1>4, <1>5, ProcessLocks DEF Holding, Before

LEMMA CloseLocks == ASSUME IInv, LockInv, NEW b \in Rows, Close(b) PROVE LockInv'
<1>1. proc[b].at = "closing" /\ proc' = [proc EXCEPT ![b].at = "idle"] /\ "idle" \in Points
  BY DEF Close, Step, Points
<1>2. Shape /\ b \in 1..Len(bp) /\ Moved(b, "idle", NoTask)
  BY <1>1, ActiveRow, Moves
<1>3. Edited(b, bp[b].done) \/ Edited(b, TRUE)
  <2>1. bp[b].done \in BOOLEAN
    BY <1>1, ActiveRow
  <2>2. CASE UNCHANGED bp
    BY <1>2, <2>1, <2>2, Edits
  <2>3. CASE bp' = [bp EXCEPT ![b].done = TRUE, ![b].age = 0]
    BY <1>2, <2>1, <2>3, Edits
  <2> QED
    BY <2>2, <2>3 DEF Close
<1>4. /\ "closing" \notin Holding /\ "idle" \notin Active
      /\ UNCHANGED <<offset, passed, task, wait, master, tracked, deaths>>
  BY DEF Close, Holding, Before, Active
<1> QED
  BY <1>1, <1>2, <1>3, <1>4, ProcessLocks

\* A process that dies leaves its pid, or has reset it just now.
LEMMA DieLocks == ASSUME IInv, LockInv, NEW b \in Rows, Die(b) PROVE LockInv'
<1>1. /\ Shape /\ b \in tracked /\ b \in 1..Len(bp) /\ bp[b].done \in BOOLEAN
      /\ bp \in [1..Len(bp) -> BPRow] /\ deaths \in Nat
      /\ proc[b].at \in Working => bp[b].done = FALSE
  BY ActiveRow, LenProperties, Finite DEF Die, IInv, Shape
<1>2. Edited(b, bp[b].done) /\ bp'[b].done = bp[b].done
      /\ (bp'[b].age = 0 \/ bp'[b].pid = bp[b].pid)
  <2>1. CASE UNCHANGED bp
    BY <1>1, <2>1, Edits
  <2>2. CASE bp' = [bp EXCEPT ![b].pid = FALSE, ![b].age = 0]
    <3>1. Edited(b, bp[b].done)
      BY <1>1, <2>2, Edits
    <3>2. bp'[b].age = 0
      BY <1>1, <2>2 DEF BPRow
    <3> QED
      BY <3>1, <3>2 DEF Edited
  <2> QED
    BY <2>1, <2>2 DEF Die
\* A process that has not written its file yet works for a row that is not done.
<1>3. proc[b].at \in Holding /\ Ended(b)' => bp'[b].pid \/ bp'[b].age = 0
  <2> SUFFICES ASSUME proc[b].at \in Holding, bp'[b].done PROVE bp'[b].pid \/ bp'[b].age = 0
    BY DEF Ended
  <2>1. proc[b].at \notin Working
    BY <1>1, <1>2
  <2>2. proc[b].at = "written"
    BY <2>1 DEF Holding, Before, Working, Die
  <2>3. bp[b].pid
    BY <1>1, <2>2 DEF LockInv, Registered, Active
  <2> QED
    BY <1>2, <2>3
<1>4. NoProcess.at \in Holding /\ NoProcess.at \notin Active
  BY DEF NoProcess, Holding, Before, Active
<1>5. /\ proc' = [proc EXCEPT ![b] = NoProcess] /\ tracked' \subseteq tracked \cup {b}
      /\ UNCHANGED <<offset, passed, task, wait, master>>
      /\ deaths' = deaths + 1 /\ deaths' > 0
  BY <1>1 DEF Die
<1> QED
  BY <1>1, <1>2, <1>3, <1>4, <1>5, EditLocks

\* A process saves the task of its row b: nothing changes for the other tasks.
LEMMA OtherLocks ==
    ASSUME IInv, LockInv, NEW b \in 1..Len(bp), b \in Rows,
           UNCHANGED <<offset, passed, bp, tracked, wait, master, deaths>>,
           NEW row, task' = [task EXCEPT ![bp[b].task] = row],
           NEW x, proc' = [proc EXCEPT ![b] = x],
           NEW t \in Running, t # bp[b].task
    PROVE  LockOf(t)'
<1>1. /\ task \in [Existing -> Task] /\ t \in Existing /\ LockOf(t)
      /\ proc \in [Rows -> [at : Points, task : Task]]
  BY DEF IInv, Shape, Running, LockInv, Locks
<1>2. task'[t] = task[t] /\ \A c \in Rows \ {b} : proc'[c] = proc[c]
  BY <1>1
<1>3. GivenUp(t)' = GivenUp(t)
  BY <1>2 DEF GivenUp, Noticed, Older
<1>4. CASE task[t].bp = None
  BY <1>2, <1>4 DEF LockOf
<1>5. CASE task[t].bp # None
  <2>1. PICK r \in 1..Len(bp) : r = task[t].bp /\ r \in Rows
    BY <1>1, <1>5, LockedRow
  <2>2. bp[r].task = t /\ proc[r].at \in Holding
        /\ (Ended(r) => deaths > 0 /\ Fate(r, t))
    BY <1>1, <1>5, <2>1 DEF LockOf
  <2>3. proc'[r] = proc[r]
    BY <1>2, <2>1, <2>2
  <2>4. Ended(r)' = Ended(r) /\ Fate(r, t)' = Fate(r, t)
    BY <1>3, <2>3 DEF Ended, Fate
  <2> QED
    BY <1>2, <1>3, <2>1, <2>2, <2>3, <2>4 DEF LockOf, Holding, Before
<1> QED
  BY <1>4, <1>5

LEMMA MarkBusyLocks == ASSUME IInv, LockInv, NEW b \in Rows, MarkBusy(b) PROVE LockInv'
<1> DEFINE u == bp[b].task
           row == [proc[b].task EXCEPT !.busy = TRUE, !.bp = b]
           x == [at |-> "busy", task |-> NoTask]
<1>1. /\ b \in tracked /\ b \in 1..Len(bp) /\ u \in Existing /\ proc[b].task \in Task
      /\ task \in [Existing -> Task] /\ proc \in [Rows -> [at : Points, task : Task]]
  BY ActiveRow DEF MarkBusy, IInv, Shape
<1>2. UNCHANGED <<offset, passed, wait, bp, tracked, master, deaths>>
      /\ task' = [task EXCEPT ![u] = row] /\ proc' = [proc EXCEPT ![b] = x]
  BY DEF MarkBusy
<1>3. row.busy /\ row.bp = b
  BY <1>1 DEF Task
<1>4. x.at = "busy"
  OBVIOUS
<1> HIDE DEF u, row, x
<1>5. /\ Existing' = Existing /\ task'[u] = row /\ \A t \in Existing \ {u} : task'[t] = task[t]
      /\ proc'[b].at = "busy"
  BY <1>1, <1>2, <1>4 DEF Existing
<1>6. Unclaimed' /\ CopyInv'
  BY <1>2, <1>3, <1>5 DEF LockInv, Unclaimed, CopyInv, Copy
<1>7. Started'
  BY <1>1, <1>2, <1>5 DEF LockInv, Started, u
<1>8. PICK v \in Existing : v = u
  BY <1>1
<1>9. LockOf(v)'
  <2>1. ~Ended(b)'
    BY <1>5 DEF Ended
  <2> QED
    BY <1>2, <1>3, <1>5, <1>8, <2>1 DEF LockOf, Holding, Before, u
<1>10. ASSUME NEW t \in Running, t # v PROVE LockOf(t)'
  BY <1>1, <1>2, <1>8, <1>10, OtherLocks DEF u
<1>11. \A t \in Running' : t = v \/ t \in Running
  BY <1>5, <1>8 DEF Running
<1>12. Locks'
  <2> SUFFICES ASSUME NEW t \in Running' PROVE LockOf(t)'
    BY DEF Locks
  <2>1. CASE t = v
    BY <1>9, <2>1
  <2>2. CASE t # v
    BY <1>10, <1>11, <2>2
  <2> QED
    BY <2>1, <2>2
<1>13. Registered'
  <2>1. bp[b].pid
    BY <1>1 DEF MarkBusy, LockInv, Registered, Active
  <2>2. \A c \in tracked : c # b => c \in Rows /\ proc'[c] = proc[c]
    BY <1>1, <1>2, TrackedRow
  <2> QED
    BY <1>2, <2>1, <2>2 DEF LockInv, Registered
<1> QED
  BY <1>6, <1>7, <1>12, <1>13 DEF LockInv

LEMMA MarkDoneLocks == ASSUME IInv, LockInv, NEW b \in Rows, MarkDone(b) PROVE LockInv'
<1> DEFINE u == bp[b].task
           row == [task[u] EXCEPT !.done = TRUE, !.busy = FALSE]
           x == [at |-> "closing", task |-> NoTask]
<1>1. /\ Shape /\ b \in tracked /\ b \in 1..Len(bp) /\ u \in Existing /\ proc[b].at = "written"
      /\ task \in [Existing -> Task] /\ proc' = [proc EXCEPT ![b].at = "closing"]
  BY ActiveRow DEF MarkDone, Step, IInv, Shape
<1>2. UNCHANGED <<offset, passed, wait, bp, tracked, master, deaths>> /\ task' = [task EXCEPT ![u] = row]
  BY <1>1 DEF MarkDone
<1>3. proc' = [proc EXCEPT ![b] = x]
  <2>1. "closing" \in Points
    BY DEF Points
  <2> QED
    BY <1>1, <2>1, Moves DEF Moved
<1>4. row.done /\ ~row.busy /\ x.at \notin Active
  BY <1>1 DEF Task, Active
<1> HIDE DEF u, row, x
<1>5. Existing' = Existing /\ task'[u] = row /\ \A t \in Existing \ {u} : task'[t] = task[t]
  BY <1>1, <1>2 DEF Existing
<1>6. Unclaimed' /\ CopyInv'
  BY <1>2, <1>4, <1>5 DEF LockInv, Unclaimed, CopyInv, Copy
<1>7. Started'
  BY <1>2, <1>4, <1>5 DEF LockInv, Started
<1>8. ASSUME NEW t \in Running, t # u PROVE LockOf(t)'
  BY <1>1, <1>2, <1>3, <1>8, OtherLocks DEF u
<1>9. \A t \in Running' : t \in Running /\ t # u
  BY <1>4, <1>5 DEF Running
<1>10. Locks'
  BY <1>8, <1>9 DEF Locks
<1>11. Registered'
  <2>1. proc'[b] = x /\ \A c \in tracked : c # b => c \in Rows /\ proc'[c] = proc[c]
    BY <1>1, <1>3, TrackedRow DEF Shape
  <2> QED
    BY <1>2, <1>4, <2>1 DEF LockInv, Registered
<1> QED
  BY <1>6, <1>7, <1>10, <1>11 DEF LockInv

\* The steps of the master: they only save a task and move on.
LEMMA MasterLocks ==
    ASSUME IInv, LockInv, UNCHANGED <<offset, wait, bp, tracked, proc, deaths>>, Existing' = Existing,
           \A t \in Running' :
              \/ task'[t].bp = None
              \/ t \in Running /\ task'[t].bp = task[t].bp /\ (GivenUp(t) => GivenUp(t)')
    PROVE  Locks' /\ Registered'
<1>0. Registered'
  BY DEF LockInv, Registered
<1> SUFFICES ASSUME NEW t \in Running' PROVE LockOf(t)'
  BY <1>0 DEF Locks
<1>1. CASE task'[t].bp = None
  BY <1>1 DEF LockOf
<1>2. CASE t \in Running /\ task'[t].bp = task[t].bp /\ (GivenUp(t) => GivenUp(t)')
  <2>1. LockOf(t)
    BY <1>2 DEF LockInv, Locks
  <2>2. \A r : Ended(r)' = Ended(r) /\ (Fate(r, t) => Fate(r, t)')
    BY <1>2 DEF Ended, Fate
  <2> QED
    BY <1>2, <2>1, <2>2 DEF LockOf
<1> QED
  BY <1>1, <1>2

LEMMA EveryCopy ==
    ASSUME Shape, NEW S \in SUBSET Existing, NEW t \in S
    PROVE  \E i \in 1..Len(Copies(S)) : Copies(S)[i] = <<t, task[t]>>
<1> DEFINE n == Cardinality(S)
           s == InOrder(S)
<1>1. S \subseteq Nat /\ IsFiniteSet(S) /\ n \in Nat
  <2>1. S \in SUBSET Tasks
    BY DEF Shape
  <2> QED
    BY <2>1, ExportAssumption, FS_Subset, FS_CardinalityType DEF ExportAssumption
<1>2. s \in [1..n -> S] /\ Increasing(s)
  <2>1. Listed(S)
    BY <1>1, CanBeListed
  <2> QED
    BY <2>1 DEF Listed, Increasing, InOrder
<1>3. Copies(S) = [i \in 1..n |-> <<s[i], task[s[i]]>>]
  BY DEF Copies
<1> HIDE DEF n, s
<1>4. s \in Injection(1..n, S)
  <2>1. ASSUME NEW i \in 1..n, NEW j \in 1..n, i # j PROVE s[i] # s[j]
    <3>1. s[i] \in Nat /\ s[j] \in Nat /\ i \in DOMAIN s /\ j \in DOMAIN s
      BY <1>1, <1>2
    <3>2. i < j \/ j < i
      BY <1>1, <2>1
    <3>3. s[i] < s[j] \/ s[j] < s[i]
      BY <1>2, <3>1, <3>2 DEF Increasing
    <3> QED
      BY <3>1, <3>3
  <2> QED
    BY <1>2, <2>1 DEF Injection, IsInjective
<1>5. IsFiniteSet(1..n) /\ Cardinality(1..n) = Cardinality(S)
  BY <1>1, FS_Interval DEF n
<1>6. s \in Surjection(1..n, S)
  BY <1>1, <1>4, <1>5, FS_Injection
<1>7. PICK i \in 1..n : s[i] = t
  BY <1>6 DEF Surjection
<1>8. Copies(S) \in Seq(Existing \X Task) /\ Len(Copies(S)) = n
  <2>1. \A j \in 1..n : s[j] \in Existing /\ task[s[j]] \in Task
    BY <1>2 DEF Shape
  <2>2. Copies(S) \in [1..n -> Existing \X Task]
    BY <1>3, <2>1
  <2> QED
    BY <1>1, <2>2, IsSequence
<1> QED
  BY <1>3, <1>7, <1>8

LEMMA LookLocks == ASSUME IInv, LockInv, Look PROVE LockInv'
<1>1. /\ Shape /\ DoneInv /\ master.at = "idle" /\ ~passed
      /\ UNCHANGED <<offset, task, wait, bp, tracked, proc, deaths>>
      /\ Existing' = Existing /\ Running' = Running
  BY DEF IInv, Look, Existing, Running
<1>2. Running \in SUBSET Existing /\ Due \in SUBSET Existing
  BY DEF Running, Due
<1>3. Unclaimed' /\ Registered'
  BY <1>1 DEF LockInv, Unclaimed, Registered
<1>4. (\A i \in 1..Len(master'.tasks) : wait[master'.tasks[i][1]] <= 0) => Started'
  BY <1>1 DEF LockInv, Started
<1>5. CASE master' = [at |-> "check", tasks |-> Copies(Running)] /\ UNCHANGED passed
  <2> DEFINE c == Copies(Running)
  <2>1. \A i \in 1..Len(c) : \E t \in Running : c[i] = <<t, task[t]>>
    BY <1>1, <1>2, CopiesAreRows
  <2>2. \A t \in Running : \E i \in 1..Len(c) : c[i] = <<t, task[t]>>
    BY <1>1, <1>2, EveryCopy
  <2> HIDE DEF c
  <2>3. master'.at = "check" /\ master'.tasks = c /\ passed' = passed
    BY <1>5 DEF c
  <2>4. \A i \in 1..Len(c) : c[i][2].busy /\ wait[c[i][1]] <= 0
    BY <2>1 DEF LockInv, Started, Running
  <2>5. CopyInv' /\ Started'
    BY <1>1, <1>4, <2>3, <2>4 DEF CopyInv, Copy
  <2>6. ASSUME NEW t \in Running, GivenUp(t) PROVE GivenUp(t)'
    <3>1. PICK i \in 1..Len(c) : c[i] = <<t, task[t]>>
      BY <2>2
    <3>2. Noticed(t)'
      BY <1>1, <2>3, <3>1 DEF Noticed
    <3> QED
      BY <1>1, <2>3, <2>6, <3>2 DEF GivenUp, Older
  <2>7. Locks'
    BY <1>1, <2>6, MasterLocks
  <2> QED
    BY <1>3, <2>5, <2>7 DEF LockInv
<1>6. CASE /\ Running = {} /\ Due # {} /\ UNCHANGED passed
           /\ master' = [at |-> "start", tasks |-> <<Copies(Due)[1]>>]
  <2> DEFINE c == Copies(Due)
  <2>1. c \in Seq(Existing \X Task) /\ c # <<>>
    BY <1>1, <1>2, <1>6, CopiesAreRows
  <2>2. 1 \in 1..Len(c)
    BY <2>1, LenProperties, EmptySeq
  <2>3. PICK d \in Due : c[1] = <<d, task[d]>>
    BY <1>1, <1>2, <2>2, CopiesAreRows
  <2>4. d \in Existing /\ ~task[d].busy /\ ~task[d].done /\ wait[d] <= 0
    BY <2>3 DEF Due
  <2> HIDE DEF c
  <2>5. master'.at = "start" /\ master'.tasks = <<c[1]>> /\ passed' = passed
    BY <1>6 DEF c
  <2>6. Len(master'.tasks) = 1 /\ master'.tasks[1] = <<d, task[d]>>
    BY <2>3, <2>5
  <2>7. CopyInv'
    BY <1>1, <2>4, <2>5, <2>6 DEF CopyInv, Copy, LockInv, Unclaimed
  <2>8. Started'
    BY <1>4, <2>4, <2>6
  <2> QED
    BY <1>1, <1>3, <1>6, <2>7, <2>8 DEF LockInv, Locks
<1>7. CASE Running = {} /\ EndPass
  <2>1. master' = Idle /\ master'.at = "idle" /\ Len(master'.tasks) = 0
    BY <1>7, EmptySeq DEF EndPass, Idle
  <2>2. CopyInv' /\ Started'
    BY <1>4, <2>1 DEF CopyInv
  <2> QED
    BY <1>1, <1>3, <1>7, <2>2 DEF LockInv, Locks
<1> QED
  BY <1>5, <1>6, <1>7 DEF Look

LEMMA CheckLocks == ASSUME IInv, LockInv, Check PROVE LockInv'
<1> DEFINE h == Head(master.tasks)
           row == [h[2] EXCEPT !.failed = TRUE]
           rest == Tail(master.tasks)
<1>1. /\ Shape /\ DoneInv /\ master.at = "check" /\ master.tasks # <<>> /\ ~passed
      /\ UNCHANGED <<offset, passed, wait, bp, tracked, proc, deaths>>
      /\ master' = [master EXCEPT !.tasks = rest]
      /\ task' = (IF HasFailed(h[1], h[2]) THEN [task EXCEPT ![h[1]] = row] ELSE task)
  <2>1. master.at = "check" => ~passed
    BY DEF LockInv, CopyInv, Idle
  <2> QED
    BY <2>1 DEF IInv, Check
<1>2. master.tasks \in Seq(Existing \X Task) /\ h = master.tasks[1]
      /\ task \in [Existing -> Task]
  BY <1>1 DEF Shape
<1>3. /\ h[1] \in Existing /\ h[2] \in Task /\ 1 \in 1..Len(master.tasks)
      /\ h[2].busy /\ wait[h[1]] <= 0
  <2>1. 1 \in 1..Len(master.tasks)
    BY <1>1, <1>2, LenProperties, EmptySeq
  <2> QED
    BY <1>1, <1>2, <2>1, FirstCopy DEF LockInv, CopyInv, Copy, Started
<1>4. /\ Len(master.tasks) \in Nat /\ Len(rest) = Len(master.tasks) - 1
      /\ \A i \in 1..Len(rest) : i + 1 \in 1..Len(master.tasks) /\ rest[i] = master.tasks[i + 1]
  BY <1>1, <1>2, HeadTailProperties, LenProperties
<1>5. master'.at = "check" /\ master'.tasks = rest
  BY <1>1 DEF Shape
<1> HIDE DEF h, rest
<1>6. row.failed /\ row.busy /\ row.bp = h[2].bp
  BY <1>3 DEF Task
<1> HIDE DEF row
<1>7. /\ Existing' = Existing /\ \A t \in Existing : t # h[1] => task'[t] = task[t]
      /\ HasFailed(h[1], h[2]) => task'[h[1]] = row
      /\ ~HasFailed(h[1], h[2]) => task'[h[1]] = task[h[1]]
  BY <1>1, <1>2, <1>3 DEF Existing
<1>8. Unclaimed' /\ Registered'
  BY <1>1, <1>3, <1>6, <1>7 DEF LockInv, Unclaimed, Registered
<1>9. CopyInv'
  BY <1>1, <1>4, <1>5 DEF LockInv, CopyInv, Copy
<1>10. Started'
  <2>1. \A t \in Existing' : task'[t].busy => wait'[t] <= 0
    BY <1>1, <1>3, <1>7 DEF LockInv, Started
  <2>2. \A i \in 1..Len(master'.tasks) : wait'[master'.tasks[i][1]] <= 0
    BY <1>1, <1>4, <1>5 DEF LockInv, Started
  <2>3. \A b \in 1..Len(bp') : wait'[bp'[b].task] <= 0
    BY <1>1 DEF LockInv, Started
  <2> QED
    BY <2>1, <2>2, <2>3 DEF Started
<1>11. ASSUME NEW t \in Running'
       PROVE  t \in Running /\ task'[t] = task[t] /\ (t = h[1] => ~HasFailed(h[1], h[2]))
  BY <1>6, <1>7, <1>11 DEF Running
\* A task that is to be given up, and is the next one, is given up.
<1>12. ASSUME NEW t \in Running', GivenUp(t), task[t].bp # None, ~bp[task[t].bp].pid,
              bp[task[t].bp].age = 1
       PROVE  GivenUp(t)'
  <2>1. PICK i \in 1..Len(master.tasks) :
           master.tasks[i][1] = t /\ master.tasks[i][2].bp = task[t].bp
    BY <1>1, <1>12 DEF GivenUp, Noticed
  <2>2. CASE i = 1
    <3>1. HasFailed(h[1], h[2])
      <4>1. h[1] = t /\ h[2].bp = task[t].bp /\ Older(wait[t])
        BY <1>2, <1>12, <2>1, <2>2 DEF GivenUp
      <4>2. 1 < Hour
        BY ExportAssumption DEF ExportAssumption
      <4> QED
        BY <1>12, <4>1, <4>2 DEF HasFailed
    <3> QED
      BY <1>2, <1>11, <2>1, <2>2, <3>1
  <2>3. CASE i # 1
    <3>1. i - 1 \in 1..Len(rest) /\ rest[i - 1] = master.tasks[i]
      <4>1. i - 1 \in 1..Len(rest) /\ i = (i - 1) + 1
        BY <1>4, <2>3
      <4> QED
        BY <1>4, <4>1
    <3>2. Noticed(t)'
      BY <1>5, <1>11, <2>1, <3>1 DEF Noticed
    <3> QED
      BY <1>1, <1>5, <1>12, <3>2 DEF GivenUp, Older
  <2> QED
    BY <2>2, <2>3
<1>13. ASSUME NEW t \in Running' PROVE LockOf(t)'
  <2>1. LockOf(t) /\ task'[t] = task[t]
    BY <1>11 DEF LockInv, Locks
  <2>2. \A r : Ended(r)' = Ended(r)
    BY <1>1 DEF Ended
  <2>3. task[t].bp # None /\ Fate(task[t].bp, t) => Fate(task[t].bp, t)'
    BY <1>1, <1>12, <2>1 DEF Fate
  <2> QED
    BY <1>1, <2>1, <2>2, <2>3 DEF LockOf
<1> QED
  BY <1>8, <1>9, <1>10, <1>13 DEF LockInv, Locks

LEMMA EndCheckLocks == ASSUME IInv, LockInv, EndCheck PROVE LockInv'
<1>1. /\ master.at = "check" /\ master.tasks = <<>> /\ Existing' = Existing /\ Running' = Running
      /\ UNCHANGED <<offset, task, wait, bp, tracked, proc, deaths>>
      /\ master' = Idle /\ master'.at = "idle" /\ Len(master'.tasks) = 0
  BY EmptySeq DEF EndCheck, EndPass, Idle, Existing, Running
<1>2. Unclaimed' /\ CopyInv' /\ Started'
  BY <1>1 DEF LockInv, Unclaimed, CopyInv, Started
<1>3. \A t : ~GivenUp(t)
  BY <1>1, EmptySeq DEF GivenUp, Noticed
<1>4. Locks' /\ Registered'
  BY <1>1, <1>3, MasterLocks
<1> QED
  BY <1>2, <1>4 DEF LockInv

LEMMA ClaimLocks == ASSUME IInv, LockInv, Claim PROVE LockInv'
<1> DEFINE u == master.tasks[1][1]
           row == [master.tasks[1][2] EXCEPT !.busy = TRUE]
<1>1. /\ Shape /\ DoneInv /\ master.at = "claim" /\ master.tasks # <<>>
      /\ UNCHANGED <<offset, wait, bp, tracked, proc, deaths>> /\ task' = [task EXCEPT ![u] = row]
      /\ master' = Idle /\ master'.at = "idle" /\ Len(master'.tasks) = 0
  BY EmptySeq DEF IInv, Shape, Claim, EndPass, Idle
<1>2. /\ u \in Existing /\ master.tasks[1][2] \in Task /\ task \in [Existing -> Task]
      /\ 1 \in 1..Len(master.tasks)
  <2>1. master.tasks \in Seq(Existing \X Task)
    BY <1>1 DEF Shape
  <2>2. 1 \in 1..Len(master.tasks)
    BY <1>1, <2>1, LenProperties, EmptySeq
  <2> QED
    BY <1>1, <2>2, FirstCopy DEF Shape
<1>3. row.busy /\ row.bp = None /\ wait[u] <= 0
  <2>1. row.busy /\ row.bp = master.tasks[1][2].bp
    BY <1>2 DEF Task
  <2> QED
    BY <1>1, <1>2, <2>1 DEF LockInv, CopyInv, Copy, Started
<1> HIDE DEF u, row
<1>4. Existing' = Existing /\ task'[u] = row /\ \A t \in Existing \ {u} : task'[t] = task[t]
  BY <1>1, <1>2 DEF Existing
<1>5. Unclaimed' /\ CopyInv' /\ Started'
  BY <1>1, <1>3, <1>4 DEF LockInv, Unclaimed, CopyInv, Started
<1>6. \A t : ~GivenUp(t)
  BY <1>1 DEF GivenUp
<1>7. \A t \in Running' : t = u \/ (t \in Running /\ task'[t] = task[t])
  BY <1>4 DEF Running
<1>8. Locks' /\ Registered'
  BY <1>1, <1>3, <1>4, <1>6, <1>7, MasterLocks
<1> QED
  BY <1>5, <1>8 DEF LockInv

LEMMA KillMasterLocks == ASSUME IInv, LockInv, KillMaster PROVE LockInv'
<1>1. /\ Existing' = Existing /\ Running' = Running /\ ~passed /\ UNCHANGED passed
      /\ UNCHANGED <<offset, task, wait, bp, tracked, proc, deaths>>
      /\ master' = Idle /\ master'.at = "idle" /\ Len(master'.tasks) = 0
  <2>1. ~passed
    BY DEF LockInv, CopyInv, KillMaster
  <2> QED
    BY <2>1, EmptySeq DEF KillMaster, Idle, Existing, Running
<1>2. Unclaimed' /\ CopyInv' /\ Started'
  BY <1>1 DEF LockInv, Unclaimed, CopyInv, Started
<1>3. \A t : GivenUp(t) => GivenUp(t)'
  BY <1>1 DEF GivenUp, Older
<1>4. Locks' /\ Registered'
  BY <1>1, <1>3, MasterLocks
<1> QED
  BY <1>2, <1>4 DEF LockInv

LEMMA AddProcessLocks == ASSUME IInv, LockInv, AddProcess PROVE LockInv'
<1>1. /\ Shape /\ DoneInv /\ master.at = "start" /\ master.tasks # <<>> /\ Len(bp) \in Nat
      /\ bp \in Seq(BPRow) /\ UNCHANGED <<offset, passed, task, wait, tracked, proc, deaths>>
      /\ master'.at = "claim" /\ master'.tasks = master.tasks
      /\ Existing' = Existing /\ Running' = Running
  BY LenProperties DEF IInv, Shape, AddProcess, Existing, Running
<1>2. PICK u \in Existing : u = master.tasks[1][1]
  BY <1>1, FirstCopy
<1> DEFINE r == [task |-> u, pid |-> FALSE, done |-> FALSE, age |-> 0]
           n == Len(bp)
<1>3. r \in BPRow /\ r.task = u /\ bp' = Append(bp, r)
  BY <1>2, ExportAssumption DEF BPRow, AddProcess, ExportAssumption
<1> HIDE DEF r
<1>4. /\ Len(bp') = n + 1 /\ bp'[n + 1].task = u
      /\ \A c \in 1..n : bp'[c] = bp[c]
  BY <1>1, <1>3, AppendProperties
<1>5. 1 \in 1..Len(master.tasks)
  <2>1. master.tasks \in Seq(Existing \X Task)
    BY <1>1 DEF Shape
  <2> QED
    BY <1>1, <2>1, LenProperties, EmptySeq
<1>6. ~passed
  BY <1>1 DEF LockInv, CopyInv, Idle
<1>7. Unclaimed' /\ CopyInv' /\ Registered'
  <2>1. \A c \in tracked : c \in 1..n
    BY <1>1 DEF Shape
  <2> QED
    BY <1>1, <1>4, <1>6, <2>1 DEF LockInv, Unclaimed, CopyInv, Copy, Registered
<1>8. Started'
  <2>1. \A c \in 1..Len(bp') : c \in 1..n \/ c = n + 1
    BY <1>1, <1>4
  <2>2. \A c \in 1..Len(bp') : wait[bp'[c].task] <= 0
    BY <1>2, <1>4, <1>5, <2>1 DEF LockInv, Started
  <2> QED
    BY <1>1, <2>2 DEF LockInv, Started
<1>9. ASSUME NEW t \in Running PROVE LockOf(t)'
  <2>1. LockOf(t) /\ t \in Existing /\ ~GivenUp(t)
    BY <1>1, <1>9 DEF LockInv, Locks, Running, GivenUp
  <2>2. CASE task[t].bp = None
    BY <1>1, <2>2 DEF LockOf
  <2>3. CASE task[t].bp # None
    <3>1. PICK c \in 1..n : c = task[t].bp
      BY <2>1, <2>3, LockedRow
    <3>2. bp'[c] = bp[c] /\ Ended(c)' = Ended(c)
      BY <1>1, <1>4 DEF Ended
    <3>3. Fate(c, t) => Fate(c, t)'
      BY <1>1, <2>1, <3>2 DEF Fate
    <3> QED
      BY <1>1, <2>1, <3>1, <3>2, <3>3 DEF LockOf
  <2> QED
    BY <2>2, <2>3
<1> QED
  BY <1>1, <1>7, <1>8, <1>9 DEF LockInv, Locks

\* Thirty seconds later the row of a process that is gone is not an hour old.
LEMMA TickLocks == ASSUME IInv, LockInv, Tick PROVE LockInv'
<1>1. /\ Shape /\ UNCHANGED <<offset, task, tracked, proc, master, deaths>> /\ passed /\ passed' = FALSE
      /\ Existing' = Existing /\ Running' = Running
      /\ Len(bp) \in Nat /\ bp \in [1..Len(bp) -> BPRow] /\ Hour \in Nat \ {0, 1}
      /\ MaxDelay \in Nat
  BY LenProperties, ExportAssumption DEF IInv, Shape, Tick, Existing, Running, ExportAssumption
<1>2. master = Idle /\ master.at = "idle" /\ Len(master.tasks) = 0
  BY <1>1, EmptySeq DEF LockInv, CopyInv, Idle
<1> DEFINE n == Len(bp)
           older(c) == IF bp[c].pid \/ bp[c].age = Hour THEN bp[c].age ELSE bp[c].age + 1
<1>3. bp' = [c \in 1..n |-> [bp[c] EXCEPT !.age = older(c)]]
  BY DEF Tick
<1>4. \A c \in 1..n : ~bp[c].pid /\ bp[c].age = 0 => older(c) = 1
  BY <1>1
<1> HIDE DEF older
<1>5. /\ Len(bp') = n
      /\ \A c \in 1..n : /\ bp'[c].task = bp[c].task /\ bp'[c].done = bp[c].done
                         /\ bp'[c].pid = bp[c].pid /\ bp'[c].age = older(c)
  <2>1. Len(bp') = n
    BY <1>1, <1>3
  <2> QED
    BY <1>1, <1>3, <2>1 DEF BPRow
<1>6. \A t \in Existing : wait[t] <= 0 => wait'[t] <= 0 /\ (offset <= 0 => Older(wait[t])')
  <2>1. wait' = [t \in Existing |-> IF wait[t] = Past THEN Past ELSE wait[t] - 1]
    BY DEF Tick
  <2>2. \A t \in Existing : wait[t] \in Past..MaxDelay
    BY <1>1 DEF Shape
  <2>3. offset \in Int /\ Past \in Int /\ Past < 0 /\ (offset <= 0 => Past + offset < 0)
    BY <1>1, PastIsPast DEF Shape
  <2>4. ASSUME NEW t \in Existing, wait[t] <= 0
        PROVE  wait'[t] <= 0 /\ (offset <= 0 => wait'[t] + offset < 0)
    BY <1>1, <2>1, <2>2, <2>3, <2>4
  <2> QED
    BY <1>1, <2>4 DEF Older
<1>7. Unclaimed' /\ CopyInv' /\ Registered'
  <2>1. \A c \in tracked : c \in 1..n
    BY <1>1 DEF Shape
  <2> QED
    BY <1>1, <1>2, <1>5, <2>1 DEF LockInv, Unclaimed, CopyInv, Copy, Registered
<1>8. Started'
  <2>1. \A t \in Existing : task[t].busy => wait'[t] <= 0
    BY <1>6 DEF LockInv, Started
  <2>2. \A c \in 1..n : bp[c].task \in Existing /\ wait'[bp[c].task] <= 0
    BY <1>1, <1>6 DEF LockInv, Started, BPRow
  <2> QED
    BY <1>1, <1>2, <1>5, <2>1, <2>2 DEF Started
<1>9. ASSUME NEW t \in Running PROVE LockOf(t)'
  <2>1. LockOf(t) /\ t \in Existing /\ ~GivenUp(t) /\ wait[t] <= 0
    BY <1>1, <1>9 DEF LockInv, Locks, Started, Running, GivenUp
  <2>2. offset <= 0 => GivenUp(t)'
    BY <1>1, <1>2, <1>6, <2>1 DEF GivenUp
  <2>3. CASE task[t].bp = None
    BY <1>1, <2>3 DEF LockOf
  <2>4. CASE task[t].bp # None
    <3>1. PICK c \in 1..n : c = task[t].bp
      BY <2>1, <2>4, LockedRow
    <3>2. Ended(c)' = Ended(c)
      BY <1>1, <1>5 DEF Ended
    <3>3. Fate(c, t) => Fate(c, t)'
      <4>1. offset \in Int
        BY <1>1, PastIsPast DEF Shape
      <4>2. ~bp[c].pid /\ offset <= 0 /\ bp[c].age = 0 => bp'[c].age = 1 /\ GivenUp(t)'
        BY <1>4, <1>5, <2>2
      <4> QED
        BY <1>1, <1>5, <2>1, <4>1, <4>2 DEF Fate
    <3> QED
      BY <1>1, <1>5, <2>1, <2>4, <3>1, <3>2, <3>3 DEF LockOf, Holding, Before
  <2> QED
    BY <2>3, <2>4
<1> QED
  BY <1>1, <1>7, <1>8, <1>9 DEF LockInv, Locks

LEMMA CreateLocks == ASSUME IInv, LockInv, NEW u \in Tasks, Create(u) PROVE LockInv'
<1>1. /\ Shape /\ u \notin Existing /\ UNCHANGED <<offset, passed, bp, tracked, proc, master, deaths>>
      /\ task' = [t \in Existing \cup {u} |-> IF t = u THEN NoTask ELSE task[t]]
      /\ Len(bp) \in Nat /\ bp \in [1..Len(bp) -> BPRow]
  BY LenProperties DEF IInv, Shape, Create
<1>2. PICK w \in Past..MaxDelay : wait' = [t \in Existing \cup {u} |-> IF t = u THEN w ELSE wait[t]]
  BY DEF Create
<1>3. /\ Existing' = Existing \cup {u} /\ task'[u] = NoTask
      /\ \A t \in Existing : task'[t] = task[t] /\ wait'[t] = wait[t]
  BY <1>1, <1>2 DEF Existing
<1>4. ~NoTask.busy /\ NoTask.bp = None
  BY DEF NoTask
<1>5. Unclaimed' /\ CopyInv' /\ Registered'
  BY <1>1, <1>3, <1>4 DEF LockInv, Unclaimed, CopyInv, Copy, Registered
<1>6. Started'
  <2>1. \A c \in 1..Len(bp) : bp[c].task \in Existing
    BY <1>1 DEF BPRow
  <2>2. ASSUME NEW i \in 1..Len(master.tasks) PROVE master.tasks[i][1] \in Existing
    <3>1. master.tasks \in Seq(Existing \X Task)
      BY <1>1 DEF Shape
    <3> QED
      BY <2>2, <3>1, ElementOfSeq
  <2> QED
    BY <1>1, <1>3, <1>4, <2>1, <2>2 DEF LockInv, Started
<1>7. Running' = Running
  BY <1>1, <1>3, <1>4 DEF Running
<1>8. ASSUME NEW t \in Running PROVE LockOf(t)'
  <2>1. LockOf(t) /\ t \in Existing
    BY <1>8 DEF LockInv, Locks, Running
  <2>2. GivenUp(t)' = GivenUp(t) /\ \A r : Ended(r)' = Ended(r)
    BY <1>1, <1>3, <2>1 DEF GivenUp, Noticed, Older, Ended
  <2>3. \A r : Fate(r, t)' = Fate(r, t)
    BY <1>1, <2>2 DEF Fate
  <2> QED
    BY <1>1, <1>3, <2>1, <2>2, <2>3 DEF LockOf
<1> QED
  BY <1>5, <1>6, <1>7, <1>8 DEF LockInv, Locks

LEMMA NextLocks == ASSUME IInv, LockInv, [Next]_vars PROVE LockInv'
<1>1. ASSUME Tick PROVE LockInv'
  BY <1>1, TickLocks
<1>2. ASSUME Master PROVE LockInv'
  BY <1>2, LookLocks, CheckLocks, EndCheckLocks, AddProcessLocks, ClaimLocks DEF Master
<1>3. ASSUME KillMaster PROVE LockInv'
  BY <1>3, KillMasterLocks
<1>4. ASSUME NEW t \in Tasks, Create(t) PROVE LockInv'
  BY <1>4, CreateLocks
<1>5. ASSUME NEW b \in Rows, Scheduler(b) PROVE LockInv'
  BY <1>5, SpawnLocks, TerminateLocks, DropLocks, SweepLocks DEF Scheduler
<1>6. ASSUME NEW b \in Rows, ExportProcess(b) PROVE LockInv'
  BY <1>6, RegisterLocks, ReadTaskLocks, MarkBusyLocks, WriteFileLocks, MarkDoneLocks,
     CloseLocks DEF ExportProcess
<1>7. ASSUME NEW b \in Rows, Die(b) PROVE LockInv'
  BY <1>7, DieLocks
<1>8. CASE UNCHANGED vars
  <2>1. Existing' = Existing /\ Running' = Running
    BY <1>8 DEF vars, Existing, Running
  <2>2. Unclaimed' /\ CopyInv' /\ Started'
    BY <1>8, <2>1 DEF vars, LockInv, Unclaimed, CopyInv, Copy, Started
  <2>3. \A t : (GivenUp(t) => GivenUp(t)') /\ task'[t] = task[t]
    BY <1>8 DEF vars, GivenUp, Noticed, Older
  <2>4. UNCHANGED <<offset, wait, bp, tracked, proc, deaths>>
    BY <1>8 DEF vars
  <2>5. Locks' /\ Registered'
    BY <2>1, <2>3, <2>4, MasterLocks
  <2> QED
    BY <2>2, <2>5 DEF LockInv
<1> QED
  BY <1>1, <1>2, <1>3, <1>4, <1>5, <1>6, <1>7, <1>8 DEF Next

\* While a task keeps the label busy there is somebody who can take it away - the process
\* that exports it, the scheduler, or a check of the master, which looks only at tasks
\* whose start is past and at rows younger than an hour - or a process has died after it
\* labelled its row done and before it saved the task. So the exports come to a halt behind
\* no task whose process has died at another point, nor when the master is killed between
\* its two saves or two processes work for one task.
THEOREM LockOwnedOrStuck == Spec => []LockOwned
<1>1. ASSUME Init PROVE LockInv
  <2>1. Existing = {} /\ Running = {} /\ Len(bp) = 0 /\ Len(master.tasks) = 0
        /\ master.at = "idle" /\ passed = FALSE /\ tracked = {}
    BY <1>1, EmptySeq DEF Init, Idle, Existing, Running
  <2> QED
    BY <2>1 DEF LockInv, Unclaimed, CopyInv, Started, Registered, Locks
<1>2. IInv /\ LockInv /\ [Next]_vars => LockInv'
  BY NextLocks
<1>3. ASSUME IInv, LockInv PROVE LockOwned
  <2> SUFFICES ASSUME NEW t \in Running, NEW b \in 1..Len(bp), b = task[t].bp, b # None
               PROVE  Owned(t) \/ Stuck(t)
    <3>1. \A t \in Running : t \in Existing /\ wait[t] <= 0
      BY <1>3 DEF Running, LockInv, Started
    <3>2. \A t \in Running : task[t].bp = None \/ task[t].bp \in 1..Len(bp)
      BY <1>3, <3>1, LockedRow
    <3> QED
      BY <3>1, <3>2 DEF LockOwned, Owned
  <2>1. proc[b].at \in Holding /\ (Ended(b) => deaths > 0 /\ Fate(b, t))
    BY <1>3 DEF LockInv, Locks, LockOf
  <2>2. 1 < Hour /\ Hour \in Nat /\ bp[b] \in BPRow
    BY <1>3, ElementOfSeq, ExportAssumption DEF ExportAssumption, IInv, Shape
  <2>3. bp[b].age \in 0..Hour
    BY <2>2 DEF BPRow
  <2>4. CASE ~Ended(b)
    <3>1. proc[b].at \in Working \cup {"written"} \/ (proc[b].at = "none" /\ ~bp[b].done)
      BY <2>1, <2>4 DEF Holding, Before, Working, Ended
    <3> QED
      BY <3>1 DEF Owned
  <2>5. CASE Ended(b) /\ b \in tracked
    BY <2>5 DEF Owned, Ended
  <2>6. CASE Ended(b) /\ b \notin tracked
    <3>1. task[t].busy /\ Gone(b) /\ deaths > 0
      BY <2>1, <2>6 DEF Running, Gone, Ended
    <3>2. CASE bp[b].pid
      BY <3>1, <3>2 DEF Stuck
    <3>3. CASE ~bp[b].pid /\ bp[b].age < Hour
      BY <3>3 DEF Owned
    <3>4. CASE ~bp[b].pid /\ bp[b].age = Hour
      <4>1. offset > 0
        BY <2>1, <2>2, <2>6, <3>4 DEF Fate
      <4> QED
        BY <3>1, <3>4, <4>1 DEF Stuck
    <3> QED
      BY <2>2, <2>3, <3>2, <3>3, <3>4
  <2> QED
    BY <2>4, <2>5, <2>6
<1> QED
  BY <1>1, <1>2, <1>3, InvariantHolds, PTL DEF Spec
===============================================================================
