---------------------------- MODULE MCHmiClient ----------------------------
(* Instances of HmiClient.                                                 *)
EXTENDS HmiClient

CONSTANTS s1, c1

\* A status variable and a chart variable, so that their requests can be in flight
\* together.
OneStatus == {s1}
OneChart == {c1}

\* Samples from before the page is loaded.
Recorded == [v \in Var |-> <<[time |-> 2, saved |-> 3], [time |-> 3, saved |-> 4]>>]

\* The user picks a range in the past.
OneRange == {<<2, 3>>}
=============================================================================
