---------------------------- MODULE HmiStoreProofs ----------------------------
(***************************************************************************)
(* TLAPS proofs about HmiStore: what add_fetched_data does to the samples  *)
(* of a chart variable, whatever series it is given, as long as each is in *)
(* the order of its times.                                                 *)
(***************************************************************************)
EXTENDS HmiStore, SequenceTheorems, WellFoundedInduction, TLAPS

Below == {ss \in Nat \X Nat : ss[1] < ss[2]}

\* A set of natural numbers has a least element.
LEMMA LeastNatural ==
    ASSUME NEW T, T \subseteq Nat, T # {}
    PROVE  \E x \in T : \A y \in T : x <= y
<1>1. IsWellFoundedOn(Below, Nat)
  BY NatLessThanWellFounded DEF OpToRel, Below
<1>2. PICK x \in T : \A y \in T : ~(<<y, x>> \in Below)
  BY <1>1, WFMin
<1>3. ASSUME NEW y \in T PROVE x <= y
  <2>1. <<y, x>> \in Nat \X Nat /\ x \in Nat /\ y \in Nat
    OBVIOUS
  <2>2. ~(y < x)
    BY <1>2, <2>1 DEF Below
  <2> QED
    BY <2>1, <2>2
<1> QED
  BY <1>3

\* The searches find what they look for.
LEMMA FindLteFinds ==
    ASSUME NEW a \in Seq(Int), NEW t \in Int
    PROVE  /\ FindLte(a, t) \in 0..Len(a)
           /\ FindLte(a, t) > 0 => a[FindLte(a, t)] <= t
           /\ \A j \in (FindLte(a, t) + 1)..Len(a) : a[j] > t
<1> DEFINE T == {n \in Nat : n <= Len(a) /\ (Len(a) - n > 0 => a[Len(a) - n] <= t)}
<1>1. Len(a) \in Nat /\ \A i \in 1..Len(a) : a[i] \in Int
  BY ElementOfSeq, LenProperties
<1>2. Len(a) \in T
  BY <1>1
<1>3. PICK n \in T : \A m \in T : n <= m
  BY <1>2, LeastNatural
<1>4. /\ Len(a) - n \in 0..Len(a)
      /\ Len(a) - n > 0 => a[Len(a) - n] <= t
  BY <1>1
<1>5. ASSUME NEW j \in (Len(a) - n + 1)..Len(a) PROVE a[j] > t
  <2>1. /\ Len(a) - j \in Nat /\ Len(a) - j <= Len(a) /\ Len(a) - j < n
        /\ Len(a) - (Len(a) - j) = j /\ j > 0 /\ a[j] \in Int
    BY <1>1
  <2>2. Len(a) - j \notin T
    BY <1>3, <2>1
  <2> QED
    BY <2>1, <2>2
<1>6. \E i \in 0..Len(a) : /\ i > 0 => a[i] <= t
                           /\ \A j \in (i + 1)..Len(a) : a[j] > t
  BY <1>4, <1>5
<1> QED
  BY <1>6 DEF FindLte

LEMMA FindGteFinds ==
    ASSUME NEW a \in Seq(Int), NEW t \in Int
    PROVE  /\ FindGte(a, t) \in 1..(Len(a) + 1)
           /\ FindGte(a, t) <= Len(a) => a[FindGte(a, t)] >= t
           /\ \A j \in 1..(FindGte(a, t) - 1) : a[j] < t
<1> DEFINE T == {i \in 1..(Len(a) + 1) : i <= Len(a) => a[i] >= t}
<1>1. Len(a) \in Nat /\ \A i \in 1..Len(a) : a[i] \in Int
  BY ElementOfSeq, LenProperties
<1>2. Len(a) + 1 \in T
  BY <1>1
<1>3. T \subseteq Nat
  BY <1>1
<1> HIDE DEF T
<1>6. PICK i \in T : \A j \in T : i <= j
  BY <1>2, <1>3, LeastNatural
<1> USE DEF T
<1>4. ASSUME NEW j \in 1..(i - 1) PROVE a[j] < t
  <2>1. j \in 1..Len(a) /\ j < i /\ a[j] \in Int
    BY <1>1
  <2>2. j \notin T
    BY <1>6, <2>1
  <2> QED
    BY <2>1, <2>2
<1>5. \E k \in 1..(Len(a) + 1) : /\ k <= Len(a) => a[k] >= t
                                 /\ \A j \in 1..(k - 1) : a[j] < t
  BY <1>4, <1>6
<1> QED
  BY <1>5 DEF FindGte
----------------------------------------------------------------------------
\* What is put before the data is the first part of the value, none of it newer than the
\* data; what is appended is the last part, none of it older.
LEMMA OlderPart ==
    ASSUME NEW value \in Seq(Int), NEW data \in Seq(Int), Sorted(value),
           value # <<>>, data # <<>>
    PROVE  \E n \in 0..Len(value) : /\ Older(value, data) = SubSeq(value, 1, n)
                                    /\ \A i \in 1..n : value[i] <= First(data)
<1>1. /\ Len(value) \in Nat \ {0} /\ Len(data) \in Nat \ {0}
      /\ \A i \in 1..Len(value) : value[i] \in Int
      /\ First(data) \in Int
  BY EmptySeq, ElementOfSeq DEF First
<1>2. \A i \in 1..Len(value) : value[i] <= Final(value)
  BY <1>1 DEF Sorted, Final
<1>3. SubSeq(value, 1, 0) = <<>> /\ SubSeq(value, 1, Len(value)) = value
  BY SubSeqEmpty, SubSeqFull
<1>4. CASE Final(value) < First(data)
  <2>1. Older(value, data) = SubSeq(value, 1, Len(value))
    BY <1>3, <1>4 DEF Older
  <2>2. \A i \in 1..Len(value) : value[i] <= First(data)
    BY <1>1, <1>2, <1>4 DEF Final
  <2> QED
    BY SMTT(30), <1>1, <2>1, <2>2
<1>5. CASE ~(Final(value) < First(data)) /\ Final(value) = First(data) /\ ~Touches(value, data)
  <2>1. Older(value, data) = SubSeq(value, 1, Len(value) - 1)
    BY <1>1, <1>5 DEF Older
  <2>2. \A i \in 1..(Len(value) - 1) : value[i] <= First(data)
    BY <1>1, <1>2, <1>5
  <2> QED
    BY <1>1, <2>1, <2>2, Len(value) - 1 \in 0..Len(value)
<1>6. CASE /\ ~(Final(value) < First(data)) /\ ~(Final(value) = First(data) /\ ~Touches(value, data))
           /\ First(value) < First(data)
  <2> DEFINE k == FindLte(value, First(data))
  <2>1. k \in 0..Len(value) /\ (k > 0 => value[k] <= First(data))
        /\ \A i \in (k + 1)..Len(value) : value[i] > First(data)
    BY <1>1, FindLteFinds
  <2>2. k >= 1
    BY <1>1, <1>6, <2>1 DEF First
  <2>3. Older(value, data) = SubSeq(value, 1, k - 1)
    BY <1>6 DEF Older
  <2> HIDE DEF k
  <2>4. ASSUME NEW i \in 1..(k - 1) PROVE value[i] <= First(data)
    <3>1. i \in 1..Len(value) /\ k \in 1..Len(value) /\ i <= k
      BY <1>1, <2>1, <2>2
    <3>2. value[i] <= value[k] /\ value[k] <= First(data)
      BY <2>1, <2>2, <3>1 DEF Sorted
    <3> QED
      BY <1>1, <3>1, <3>2
  <2>5. k - 1 \in 0..Len(value)
    BY <1>1, <2>1, <2>2
  <2> QED
    BY <2>3, <2>4, <2>5
<1>7. CASE /\ ~(Final(value) < First(data)) /\ ~(Final(value) = First(data) /\ ~Touches(value, data))
           /\ ~(First(value) < First(data))
  <2>1. Older(value, data) = SubSeq(value, 1, 0)
    BY <1>3, <1>7 DEF Older
  <2>2. 0 \in 0..Len(value) /\ \A i \in 1..0 : value[i] <= First(data)
    BY <1>1
  <2> QED
    BY <2>1, <2>2
<1> QED
  BY <1>4, <1>5, <1>6, <1>7

LEMMA NewerPart ==
    ASSUME NEW value \in Seq(Int), NEW data \in Seq(Int), Sorted(value),
           value # <<>>, data # <<>>
    PROVE  \E n \in 1..(Len(value) + 1) :
              /\ Newer(value, data) = SubSeq(value, n, Len(value))
              /\ \A i \in n..Len(value) : value[i] >= Final(data)
<1>1. /\ Len(value) \in Nat \ {0} /\ Len(data) \in Nat \ {0}
      /\ \A i \in 1..Len(value) : value[i] \in Int
      /\ Final(data) \in Int /\ Final(value) \in Int /\ First(value) \in Int
  BY EmptySeq, ElementOfSeq DEF First, Final
<1>2. \A i \in 1..Len(value) : First(value) <= value[i]
  BY SMTT(30), <1>1 DEF Sorted, First
<1>3. /\ SubSeq(value, Len(value) + 1, Len(value)) = <<>>
      /\ SubSeq(value, 1, Len(value)) = value
      /\ SubSeq(value, 2, Len(value)) = Tail(value)
  BY SMTT(30), <1>1, SubSeqEmpty, SubSeqFull, TailIsSubSeq
<1>4. CASE First(value) > Final(data)
  <2>1. Newer(value, data) = SubSeq(value, 1, Len(value))
    BY <1>3, <1>4 DEF Newer
  <2> QED
    BY SMTT(30), <1>1, <1>2, <1>4, <2>1
<1>5. CASE ~(First(value) > Final(data)) /\ Touches(value, data)
  <2>1. Newer(value, data) = SubSeq(value, 2, Len(value))
    BY <1>3, <1>5 DEF Newer
  <2>2. \A i \in 2..Len(value) : value[i] >= Final(data)
    BY <1>1, <1>2, <1>5 DEF Touches
  <2>3. 2 \in 1..(Len(value) + 1)
    BY <1>1
  <2> QED
    BY <2>1, <2>2, <2>3
<1>6. CASE /\ ~(First(value) > Final(data)) /\ ~Touches(value, data)
           /\ Final(value) > Final(data) /\ First(value) # First(data)
  <2> DEFINE k == FindGte(value, Final(data))
  <2>1. k \in 1..(Len(value) + 1) /\ (k <= Len(value) => value[k] >= Final(data))
    BY <1>1, FindGteFinds
  <2>2. Newer(value, data) = SubSeq(value, k, Len(value))
    BY <1>6 DEF Newer
  <2>3. \A i \in k..Len(value) : value[i] >= Final(data)
    BY <1>1, <2>1 DEF Sorted
  <2> QED
    BY <2>1, <2>2, <2>3
<1>7. CASE /\ ~(First(value) > Final(data)) /\ ~Touches(value, data)
           /\ ~(Final(value) > Final(data) /\ First(value) # First(data))
  <2>1. Newer(value, data) = SubSeq(value, Len(value) + 1, Len(value))
    BY <1>3, <1>7 DEF Newer
  <2>2. /\ Len(value) + 1 \in 1..(Len(value) + 1)
        /\ \A i \in (Len(value) + 1)..Len(value) : value[i] >= Final(data)
    BY <1>1
  <2> QED
    BY <2>1, <2>2
<1> QED
  BY <1>4, <1>5, <1>6, <1>7

\* Parts put around sorted data so that nothing newer comes before and nothing older after
\* leave it sorted.
Spliced(p, d, q) == p \o d \o q
Around(p, d, q) == /\ \A i \in 1..Len(p) : p[i] <= First(d)
                   /\ \A i \in 1..Len(q) : q[i] >= Final(d)
LEMMA SortedAround ==
    ASSUME NEW p \in Seq(Int), NEW d \in Seq(Int), NEW q \in Seq(Int),
           Sorted(p), Sorted(d), Sorted(q), d # <<>>, Around(p, d, q)
    PROVE  /\ Spliced(p, d, q) \in Seq(Int)
           /\ Sorted(Spliced(p, d, q))
           /\ Times(Spliced(p, d, q)) = Times(p) \cup Times(d) \cup Times(q)
<1> DEFINE s == Spliced(p, d, q)
           pd == p \o d
<1>1. /\ Len(p) \in Nat /\ Len(q) \in Nat /\ Len(d) \in Nat \ {0}
      /\ \A i \in 1..Len(p) : p[i] \in Int
      /\ \A i \in 1..Len(d) : d[i] \in Int
      /\ \A i \in 1..Len(q) : q[i] \in Int
      /\ \A i \in 1..Len(p) : p[i] <= First(d)
      /\ \A i \in 1..Len(q) : q[i] >= Final(d)
  BY EmptySeq, ElementOfSeq, LenProperties DEF Around
<1>2. /\ pd \in Seq(Int) /\ Len(pd) = Len(p) + Len(d)
      /\ \A i \in 1..(Len(p) + Len(d)) :
            pd[i] = IF i <= Len(p) THEN p[i] ELSE d[i - Len(p)]
  BY ConcatProperties
<1>3. /\ s \in Seq(Int) /\ Len(s) = Len(p) + Len(d) + Len(q)
      /\ \A i \in 1..(Len(p) + Len(d) + Len(q)) :
            s[i] = IF i <= Len(p) + Len(d) THEN pd[i] ELSE q[i - (Len(p) + Len(d))]
  BY <1>2, ConcatProperties DEF Spliced
<1> HIDE DEF s, pd
<1> DEFINE a == Len(p)
           b == Len(p) + Len(d)
<1>10. /\ a \in Nat /\ b \in Nat /\ a < b /\ b <= Len(s) /\ Len(s) \in Nat
       /\ Len(d) = b - a /\ Len(q) = Len(s) - b
  BY <1>1, <1>3
<1>4. ASSUME NEW i \in 1..Len(s)
      PROVE  /\ i <= a => i \in 1..Len(p) /\ s[i] = p[i]
             /\ a < i /\ i <= b => i - a \in 1..Len(d) /\ s[i] = d[i - a]
             /\ b < i => i - b \in 1..Len(q) /\ s[i] = q[i - b]
  <2>1. s[i] = IF i <= b THEN pd[i] ELSE q[i - b]
    BY <1>3
  <2>2. i <= b => pd[i] = IF i <= a THEN p[i] ELSE d[i - a]
    BY <1>2, <1>10
  <2> HIDE DEF a, b
  <2>3. i <= a => s[i] = p[i]
    BY <1>10, <2>1, <2>2
  <2>4. a < i /\ i <= b => s[i] = d[i - a]
    BY <1>10, <2>1, <2>2
  <2>5. b < i => s[i] = q[i - b]
    BY <1>10, <2>1
  <2>6. /\ a < i /\ i <= b => i - a \in 1..Len(d)
        /\ b < i => i - b \in 1..Len(q)
    BY <1>10
  <2>7. i <= a => i \in 1..Len(p)
    BY <1>10 DEF a
  <2> QED
    BY <2>3, <2>4, <2>5, <2>6, <2>7
<1>5. \A i \in 1..Len(d) : First(d) <= d[i] /\ d[i] <= Final(d)
  BY <1>1 DEF Sorted, First, Final
<1>11. First(d) \in Int /\ Final(d) \in Int /\ First(d) <= Final(d)
  BY <1>1 DEF Sorted, First, Final
<1> HIDE DEF a, b
<1>6. ASSUME NEW i \in 1..Len(s), NEW k \in 1..Len(s), i <= k PROVE s[i] <= s[k]
  <2>1. CASE k <= a
    <3>1. i \in 1..Len(p) /\ k \in 1..Len(p) /\ s[i] = p[i] /\ s[k] = p[k]
      BY <1>4, <1>6, <1>10, <2>1
    <3> QED
      BY <1>6, <3>1 DEF Sorted
  <2>2. CASE i <= a /\ a < k /\ k <= b
    <3>1. i \in 1..Len(p) /\ s[i] = p[i] /\ k - a \in 1..Len(d) /\ s[k] = d[k - a]
      BY <1>4, <2>2
    <3> HIDE DEF s
    <3>2. p[i] \in Int /\ d[k - a] \in Int /\ p[i] <= First(d) /\ First(d) <= d[k - a]
      BY <1>1, <1>5, <3>1
    <3> QED
      BY <1>1, <3>1, <3>2 DEF First
  <2>3. CASE i <= a /\ b < k
    <3>1. i \in 1..Len(p) /\ s[i] = p[i] /\ k - b \in 1..Len(q) /\ s[k] = q[k - b]
      BY <1>4, <2>3
    <3>2. /\ p[i] \in Int /\ q[k - b] \in Int /\ p[i] <= First(d)
          /\ First(d) <= Final(d) /\ Final(d) <= q[k - b]
      BY <1>1, <1>11, <3>1
    <3> QED
      BY SMTT(30), <1>11, <3>1, <3>2
  <2>4. CASE a < i /\ k <= b
    <3>1. /\ i - a \in 1..Len(d) /\ s[i] = d[i - a]
          /\ k - a \in 1..Len(d) /\ s[k] = d[k - a] /\ i - a <= k - a
      BY <1>4, <1>6, <1>10, <2>4
    <3> QED
      BY <3>1 DEF Sorted
  <2>5. CASE a < i /\ i <= b /\ b < k
    <3>1. i - a \in 1..Len(d) /\ s[i] = d[i - a] /\ k - b \in 1..Len(q) /\ s[k] = q[k - b]
      BY <1>4, <2>5
    <3>2. /\ d[i - a] \in Int /\ q[k - b] \in Int
          /\ d[i - a] <= Final(d) /\ Final(d) <= q[k - b]
      BY <1>1, <1>5, <3>1
    <3> QED
      BY SMTT(30), <1>11, <3>1, <3>2
  <2>6. CASE b < i
    <3>1. /\ i - b \in 1..Len(q) /\ s[i] = q[i - b]
          /\ k - b \in 1..Len(q) /\ s[k] = q[k - b] /\ i - b <= k - b
      BY <1>4, <1>6, <1>10, <2>6
    <3> QED
      BY <3>1 DEF Sorted
  <2> QED
    BY <1>6, <1>10, <2>1, <2>2, <2>3, <2>4, <2>5, <2>6
<1>7. Sorted(s)
  BY <1>6 DEF Sorted
<1>8. Times(s) \subseteq Times(p) \cup Times(d) \cup Times(q)
  <2> SUFFICES ASSUME NEW i \in 1..Len(s)
               PROVE  s[i] \in Times(p) \cup Times(d) \cup Times(q)
    BY DEF Times
  <2>1. CASE i <= a
    BY <1>4, <2>1 DEF Times
  <2>2. CASE a < i /\ i <= b
    <3>1. s[i] = d[i - a] /\ i - a \in 1..Len(d)
      BY <1>4, <2>2
    <3> QED
      BY <3>1 DEF Times
  <2>3. CASE b < i
    <3>1. s[i] = q[i - b] /\ i - b \in 1..Len(q)
      BY <1>4, <2>3
    <3> QED
      BY <3>1 DEF Times
  <2> QED
    BY <1>10, <2>1, <2>2, <2>3
<1>9. Times(p) \cup Times(d) \cup Times(q) \subseteq Times(s)
  <2>1. ASSUME NEW i \in 1..Len(p) PROVE p[i] \in Times(s)
    <3>1. i \in 1..Len(s) /\ i <= a
      BY <1>10 DEF a
    <3> QED
      BY <1>4, <3>1 DEF Times
  <2>2. ASSUME NEW i \in 1..Len(d) PROVE d[i] \in Times(s)
    <3> DEFINE k == a + i
    <3>1. k \in 1..Len(s) /\ a < k /\ k <= b /\ k - a = i
      BY <1>10
    <3> HIDE DEF k
    <3>3. s[k] = d[i]
      BY <1>4, <3>1
    <3> QED
      BY <3>1, <3>3 DEF Times
  <2>3. ASSUME NEW i \in 1..Len(q) PROVE q[i] \in Times(s)
    <3> DEFINE k == b + i
    <3>1. k \in 1..Len(s) /\ b < k /\ k - b = i
      BY <1>10
    <3> HIDE DEF k
    <3>3. s[k] = q[i]
      BY <1>4, <3>1
    <3> QED
      BY <3>1, <3>3 DEF Times
  <2> QED
    BY <2>1, <2>2, <2>3 DEF Times
<1> QED
  BY <1>3, <1>7, <1>8, <1>9 DEF s

\* A part of a sorted sequence.
LEMMA SortedPart ==
    ASSUME NEW s \in Seq(Int), Sorted(s), NEW m \in 1..(Len(s) + 1), NEW n \in 0..Len(s)
    PROVE  /\ SubSeq(s, m, n) \in Seq(Int)
           /\ Sorted(SubSeq(s, m, n))
           /\ Times(SubSeq(s, m, n)) \subseteq Times(s)
           /\ \A i \in 1..Len(SubSeq(s, m, n)) :
                 \E k \in m..n : k \in 1..Len(s) /\ SubSeq(s, m, n)[i] = s[k]
<1> DEFINE p == SubSeq(s, m, n)
<1>1. Len(s) \in Nat /\ \A i \in 1..Len(s) : s[i] \in Int
  BY ElementOfSeq, LenProperties
<1>2. m \in Int /\ n \in Int /\ \A i \in m..n : s[i] \in Int
  BY <1>1
<1>3. /\ p \in Seq(Int) /\ Len(p) = IF m <= n THEN n - m + 1 ELSE 0
      /\ \A i \in 1..(n - m + 1) : p[i] = s[m + i - 1]
  BY SMTT(30), <1>2, SubSeqProperties
<1> HIDE DEF p
<1>4. ASSUME NEW i \in 1..Len(p)
      PROVE  p[i] = s[m + i - 1] /\ m + i - 1 \in m..n /\ m + i - 1 \in 1..Len(s)
  BY <1>1, <1>2, <1>3
<1>5. Sorted(p)
  <2>1. Len(p) \in Nat
    BY <1>2, <1>3
  <2>2. ASSUME NEW i \in 1..Len(p), NEW k \in 1..Len(p), i <= k PROVE p[i] <= p[k]
    <3>1. m + i - 1 <= m + k - 1
      BY <1>2, <2>1, <2>2
    <3> QED
      BY <1>4, <3>1 DEF Sorted
  <2> QED
    BY <2>2 DEF Sorted
<1>6. Times(p) \subseteq Times(s)
  BY <1>4 DEF Times
<1> QED
  BY <1>3, <1>4, <1>5, <1>6 DEF p

\* add_fetched_data, for every series an answer may bring and every series held: the
\* samples stay in order, none is forgotten and none appears that neither had.
THEOREM MergeKeeps ==
    ASSUME NEW value \in Seq(Int), NEW data \in Seq(Int), Sorted(value), Sorted(data)
    PROVE  /\ Merge(value, data) \in Seq(Int)
           /\ Sorted(Merge(value, data))
           /\ Times(data) \subseteq Times(Merge(value, data))
           /\ Times(Merge(value, data)) \subseteq Times(data) \cup Times(value)
<1>1. CASE value = <<>>
  BY <1>1 DEF Merge
<1>2. CASE value # <<>> /\ data = <<>>
  BY <1>2, EmptySeq DEF Merge, Times
<1>3. CASE value # <<>> /\ data # <<>>
  <2>1. PICK n \in 0..Len(value) : /\ Older(value, data) = SubSeq(value, 1, n)
                                   /\ \A i \in 1..n : value[i] <= First(data)
    BY <1>3, OlderPart
  <2>2. PICK m \in 1..(Len(value) + 1) : /\ Newer(value, data) = SubSeq(value, m, Len(value))
                                         /\ \A i \in m..Len(value) : value[i] >= Final(data)
    BY <1>3, NewerPart
  <2> DEFINE before == SubSeq(value, 1, n)
             after == SubSeq(value, m, Len(value))
  <2>3. Len(value) \in Nat /\ 1 \in 1..(Len(value) + 1) /\ Len(value) \in 0..Len(value)
    BY LenProperties
  <2>4. /\ before \in Seq(Int) /\ Sorted(before) /\ Times(before) \subseteq Times(value)
        /\ \A i \in 1..Len(before) : before[i] <= First(data)
    BY <2>1, <2>3, SortedPart
  <2>5. /\ after \in Seq(Int) /\ Sorted(after) /\ Times(after) \subseteq Times(value)
        /\ \A i \in 1..Len(after) : after[i] >= Final(data)
    BY <2>2, <2>3, SortedPart
  <2>6. Merge(value, data) = Spliced(before, data, after)
    BY <1>3, <2>1, <2>2 DEF Merge, Spliced
  <2> HIDE DEF before, after
  <2>7. /\ Spliced(before, data, after) \in Seq(Int) /\ Sorted(Spliced(before, data, after))
        /\ Times(Spliced(before, data, after)) = Times(before) \cup Times(data) \cup Times(after)
    <3>1. Around(before, data, after)
      BY <2>4, <2>5 DEF Around
    <3> QED
      BY <1>3, <2>4, <2>5, <3>1, SortedAround
  <2> QED
    BY <2>4, <2>5, <2>6, <2>7
<1> QED
  BY <1>1, <1>2, <1>3
----------------------------------------------------------------------------
(* What of an answer is lost.                                              *)

LEMMA PartHolds ==
    ASSUME NEW s \in Seq(Int), NEW m \in 1..(Len(s) + 1), NEW n \in 0..Len(s),
           NEW i \in 1..Len(s), m <= i, i <= n
    PROVE  s[i] \in Times(SubSeq(s, m, n))
<1> DEFINE p == SubSeq(s, m, n)
<1>1. Len(s) \in Nat /\ \A j \in 1..Len(s) : s[j] \in Int
  BY ElementOfSeq, LenProperties
<1>2. m \in Int /\ n \in Int /\ \A j \in m..n : s[j] \in Int
  BY <1>1
<1>3. /\ Len(p) = n - m + 1
      /\ \A j \in 1..(n - m + 1) : p[j] = s[m + j - 1]
  BY SMTT(30), <1>2, SubSeqProperties
<1> HIDE DEF p
<1>4. i - m + 1 \in 1..Len(p) /\ i - m + 1 \in 1..(n - m + 1) /\ m + (i - m + 1) - 1 = i
  BY <1>2, <1>3
<1>5. p[i - m + 1] = s[i]
  BY <1>3, <1>4
<1> QED
  BY <1>4, <1>5 DEF Times, p

LEMMA OlderTakes ==
    ASSUME NEW value \in Seq(Int), NEW data \in Seq(Int), Sorted(value),
           value # <<>>, data # <<>>, NEW t \in Times(value), t < First(data)
    PROVE  t \in Times(Older(value, data)) \/ Skipped(t, value, data)
<1>1. /\ Len(value) \in Nat \ {0} /\ Len(data) \in Nat \ {0}
      /\ \A i \in 1..Len(value) : value[i] \in Int
      /\ First(data) \in Int /\ First(value) \in Int /\ Final(value) \in Int
  BY EmptySeq, ElementOfSeq DEF First, Final
<1>2. PICK i \in 1..Len(value) : value[i] = t
  BY DEF Times
<1>3. First(value) <= t /\ t <= Final(value)
  BY SMTT(30), <1>1, <1>2 DEF Sorted, First, Final
<1>4. CASE Final(value) < First(data)
  BY <1>4 DEF Older
<1>5. CASE Final(value) = First(data) /\ ~Touches(value, data)
  <2>1. Older(value, data) = SubSeq(value, 1, Len(value) - 1)
    BY <1>1, <1>5 DEF Older
  <2>2. i # Len(value)
    BY <1>1, <1>2, <1>5 DEF Final
  <2>3. 1 \in 1..(Len(value) + 1) /\ Len(value) - 1 \in 0..Len(value) /\ i <= Len(value) - 1 /\ 1 <= i
    BY <1>1, <2>2
  <2> QED
    BY <1>2, <2>1, <2>3, PartHolds
<1>6. CASE ~(Final(value) < First(data)) /\ ~(Final(value) = First(data) /\ ~Touches(value, data))
  <2> DEFINE k == FindLte(value, First(data))
  <2>1. /\ k \in 0..Len(value) /\ (k > 0 => value[k] <= First(data))
        /\ \A j \in (k + 1)..Len(value) : value[j] > First(data)
    BY <1>1, FindLteFinds
  <2>6. First(value) < First(data)
    BY <1>1, <1>2, <1>3
  <2>2. Older(value, data) = SubSeq(value, 1, k - 1)
    BY <1>6, <2>6 DEF Older
  <2> HIDE DEF k
  <2>3. i <= k
    BY <1>1, <1>2, <2>1
  <2>4. CASE i < k
    <3>1. 1 \in 1..(Len(value) + 1) /\ k - 1 \in 0..Len(value) /\ i <= k - 1 /\ 1 <= i
      BY <1>1, <2>1, <2>4
    <3> QED
      BY <1>2, <2>2, <3>1, PartHolds
  <2>5. CASE i = k
    <3>1. ASSUME NEW j \in 1..Len(value) PROVE value[j] <= t \/ First(data) < value[j]
      <4>1. CASE j <= k
        BY <1>2, <2>5, <3>1, <4>1 DEF Sorted
      <4>2. CASE ~(j <= k)
        BY <1>1, <2>1, <3>1, <4>2
      <4> QED
        BY <4>1, <4>2
    <3>2. First(data) < Final(value)
      <4>1. Len(value) \in 1..Len(value) /\ t \in Int /\ Final(value) = value[Len(value)]
        BY <1>1, <1>2 DEF Final
      <4> QED
        BY <1>1, <1>6, <3>1, <4>1
    <3> QED
      BY <3>1, <3>2 DEF Skipped, Times
  <2> QED
    BY <1>1, <2>1, <2>3, <2>4, <2>5
<1> QED
  BY <1>4, <1>5, <1>6

LEMMA NewerTakes ==
    ASSUME NEW value \in Seq(Int), NEW data \in Seq(Int), Sorted(value),
           value # <<>>, data # <<>>, NEW t \in Times(value), Final(data) < t
    PROVE  t \in Times(Newer(value, data)) \/ Unnoticed(t, value, data)
<1>1. /\ Len(value) \in Nat \ {0} /\ Len(data) \in Nat \ {0}
      /\ \A i \in 1..Len(value) : value[i] \in Int
      /\ Final(data) \in Int /\ First(value) \in Int /\ Final(value) \in Int
  BY EmptySeq, ElementOfSeq DEF First, Final
<1>2. PICK i \in 1..Len(value) : value[i] = t
  BY DEF Times
<1>3. t <= Final(value)
  BY SMTT(30), <1>1, <1>2 DEF Sorted, Final
<1>4. CASE First(value) > Final(data)
  BY <1>4 DEF Newer
<1>5. CASE ~(First(value) > Final(data)) /\ Touches(value, data)
  <2>1. Newer(value, data) = SubSeq(value, 2, Len(value))
    BY <1>5, TailIsSubSeq DEF Newer
  <2>2. i # 1
    BY <1>1, <1>2, <1>5 DEF First
  <2>3. 2 \in 1..(Len(value) + 1) /\ Len(value) \in 0..Len(value) /\ 2 <= i /\ i <= Len(value)
    BY <1>1, <2>2
  <2> QED
    BY <1>2, <2>1, <2>3, PartHolds
<1>6. CASE ~(First(value) > Final(data)) /\ ~Touches(value, data) /\ First(value) # First(data)
  <2> DEFINE k == FindGte(value, Final(data))
  <2>1. k \in 1..(Len(value) + 1) /\ \A j \in 1..(k - 1) : value[j] < Final(data)
    BY <1>1, FindGteFinds
  <2>5. Final(value) > Final(data)
    BY <1>1, <1>2, <1>3
  <2>2. Newer(value, data) = SubSeq(value, k, Len(value))
    BY <1>6, <2>5 DEF Newer
  <2> HIDE DEF k
  <2>3. k <= i
    BY <1>1, <1>2, <2>1
  <2>4. Len(value) \in 0..Len(value) /\ i <= Len(value)
    BY <1>1
  <2> QED
    BY <1>2, <2>1, <2>2, <2>3, <2>4, PartHolds
<1>7. CASE First(value) = First(data)
  BY <1>7 DEF Unnoticed
<1> QED
  BY <1>4, <1>5, <1>6, <1>7

\* A merge has the samples of its three parts.
LEMMA MergeParts ==
    ASSUME NEW value \in Seq(Int), NEW data \in Seq(Int), Sorted(value), Sorted(data),
           value # <<>>, data # <<>>
    PROVE  Times(Merge(value, data)) =
              Times(Older(value, data)) \cup Times(data) \cup Times(Newer(value, data))
<1>1. PICK n \in 0..Len(value) : /\ Older(value, data) = SubSeq(value, 1, n)
                                 /\ \A i \in 1..n : value[i] <= First(data)
  BY OlderPart
<1>2. PICK m \in 1..(Len(value) + 1) : /\ Newer(value, data) = SubSeq(value, m, Len(value))
                                       /\ \A i \in m..Len(value) : value[i] >= Final(data)
  BY NewerPart
<1> DEFINE before == SubSeq(value, 1, n)
           after == SubSeq(value, m, Len(value))
<1>3. Len(value) \in Nat /\ 1 \in 1..(Len(value) + 1) /\ Len(value) \in 0..Len(value)
  BY LenProperties
<1>4. /\ before \in Seq(Int) /\ Sorted(before)
      /\ \A i \in 1..Len(before) : before[i] <= First(data)
  BY <1>1, <1>3, SortedPart
<1>5. /\ after \in Seq(Int) /\ Sorted(after)
      /\ \A i \in 1..Len(after) : after[i] >= Final(data)
  BY <1>2, <1>3, SortedPart
<1>6. Merge(value, data) = Spliced(before, data, after)
  BY <1>1, <1>2 DEF Merge, Spliced
<1> HIDE DEF before, after
<1>7. Around(before, data, after)
  BY <1>4, <1>5 DEF Around
<1>8. Times(Spliced(before, data, after)) = Times(before) \cup Times(data) \cup Times(after)
  BY <1>4, <1>5, <1>7, SortedAround
<1> QED
  BY <1>1, <1>2, <1>6, <1>8 DEF before, after

\* add_fetched_data takes every sample of an answer over, but for the three kinds above:
\* an answer that lies before or behind the samples held, or continues them at the sample
\* both have, is taken over as a whole.
THEOREM MergeLoses ==
    ASSUME NEW value \in Seq(Int), NEW data \in Seq(Int), Sorted(value), Sorted(data),
           value # <<>>, data # <<>>, NEW t \in Times(value) \ Times(Merge(value, data))
    PROVE  Dropped(t, value, data)
<1>1. /\ t \notin Times(Older(value, data)) /\ t \notin Times(data)
      /\ t \notin Times(Newer(value, data)) /\ t \in Times(value)
  BY MergeParts
<1>2. /\ t \in Int /\ First(data) \in Int /\ Final(data) \in Int
      /\ First(data) \in Times(data) /\ Final(data) \in Times(data)
  <2>1. Len(data) \in Nat \ {0} /\ \A i \in 1..Len(data) : data[i] \in Int
    BY EmptySeq, ElementOfSeq
  <2>2. 1 \in 1..Len(data) /\ Len(data) \in 1..Len(data)
    BY <2>1
  <2>3. t \in Int
    BY <1>1, ElementOfSeq DEF Times
  <2> QED
    BY <2>1, <2>2, <2>3 DEF First, Final, Times
<1>3. CASE t < First(data)
  BY <1>1, <1>3, OlderTakes DEF Dropped
<1>4. CASE Final(data) < t
  BY <1>1, <1>4, NewerTakes DEF Dropped
<1>5. CASE ~(t < First(data)) /\ ~(Final(data) < t)
  BY <1>1, <1>2, <1>5 DEF Inside, Dropped
<1> QED
  BY <1>3, <1>4, <1>5
===============================================================================
