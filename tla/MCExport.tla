------------------------------ MODULE MCExport ------------------------------
(* Instances of Export: two tasks, so that one waits for the other.        *)
EXTENDS Export

TwoTasks == {1, 2}

\* The local clock is ahead of UTC by an hour, UTC, or behind it.
HourAround == {-Hour, 0, Hour}
=============================================================================
