------------------------------- MODULE HmiStore -------------------------------
(***************************************************************************)
(* How the browser client of PyScada merges the samples of an answer into  *)
(* the samples of a chart variable it holds: add_fetched_data and the      *)
(* searches it uses (hmi/static/pyscada/js/pyscada/pyscada_v0-7-0rc14.js). *)
(*                                                                         *)
(* A sample [time, value] is its time: no branch looks at the value. A     *)
(* series is a sequence of times, oldest first, in which a time may occur  *)
(* twice. Sequences count from 1 where the code counts from 0; an index    *)
(* the code leaves undefined is 0 (searching down) or Len + 1 (up).        *)
(* FaultyNewer and OnwardMerge are mutated forms of the operator below them. *)
(***************************************************************************)
EXTENDS Integers, Sequences

First(s) == s[1]
Final(s) == s[Len(s)]
Times(s) == {s[i] : i \in 1..Len(s)}
Sorted(s) == \A i, j \in 1..Len(s) : i <= j => s[i] <= s[j]

\* find_index_sub_lte, find_index_sub_gte: the last index with a time <= t, the first
\* with a time >= t.
FindLte(a, t) == CHOOSE i \in 0..Len(a) :
                    /\ i > 0 => a[i] <= t
                    /\ \A j \in (i + 1)..Len(a) : a[j] > t
FindGte(a, t) == CHOOSE i \in 1..(Len(a) + 1) :
                    /\ i <= Len(a) => a[i] >= t
                    /\ \A j \in 1..(i - 1) : a[j] < t

\* The value continues the data at the sample both have.
Touches(value, data) == First(value) = Final(data) /\ Len(value) > 1

\* What add_fetched_data appends to the data ...
FaultyNewer(value, data) == IF Final(value) > Final(data) THEN value ELSE <<>>
Newer(value, data) ==
    IF First(value) > Final(data) THEN value
    ELSE IF Touches(value, data) THEN Tail(value)
    ELSE IF Final(value) > Final(data) /\ First(value) # First(data)
    THEN SubSeq(value, FindGte(value, Final(data)), Len(value))
    ELSE <<>>

\* ... and what it puts before them.
Older(value, data) ==
    IF Final(value) < First(data) THEN value
    ELSE IF Final(value) = First(data) /\ ~Touches(value, data)
    THEN SubSeq(value, 1, Len(value) - 1)
    ELSE IF First(value) < First(data)
    THEN SubSeq(value, 1, FindLte(value, First(data)) - 1)
    ELSE <<>>

OnwardMerge(value, data) ==
    IF value = <<>> THEN data ELSE IF data = <<>> THEN value ELSE data \o Newer(value, data)
Merge(value, data) ==
    IF value = <<>> THEN data
    ELSE IF data = <<>> THEN value
    ELSE Older(value, data) \o data \o Newer(value, data)
----------------------------------------------------------------------------
\* The samples of an answer that a merge may drop, though they are not held: one inside
\* the range held; one newer than all of it, when answer and data begin with the same
\* sample; and the last one older than all of it, when the answer goes on beyond the
\* oldest sample held without having that one itself.
Inside(t, data) == First(data) < t /\ t < Final(data)
Unnoticed(t, value, data) == First(value) = First(data) /\ Final(data) < t
Skipped(t, value, data) ==
    /\ t < First(data) /\ First(data) < Final(value)
    /\ \A u \in Times(value) : u <= t \/ First(data) < u
Dropped(t, value, data) == Inside(t, data) \/ Unnoticed(t, value, data) \/ Skipped(t, value, data)
===============================================================================
