--------------------------- MODULE MCSupervision ---------------------------
(* Sets of environment events for the runs of Supervision.                 *)
EXTENDS Supervision

\* DAQ processes fail, are killed, terminated or restarted, their rows are disabled
\* and enabled again, a worker is disabled; no worker is ever started twice.
DeviceEvents ==
    ({"daq"} \X {"fail", "kill", "terminate", "restart", "disable", "enable"})
    \cup {<<"worker", "disable">>, <<"scheduler", "terminate">>}

\* Workers fail and are restarted as well, under one scheduler.
WorkerEvents ==
    ({"daq", "worker"} \X {"fail", "kill", "terminate", "restart", "disable", "enable"})
    \cup ({"scheduler"} \X {"terminate", "restart"})

\* Everything, a crash and a second start of the scheduler included.
AllEvents == EventKind
============================================================================
