--------------------------- MODULE MCDeviceTasks ---------------------------
(* Instances of DeviceTasks.                                               *)
EXTENDS DeviceTasks

CONSTANTS d1, d2, w1, w2, r1, r2

\* Two writes and a read of one device.
OneDevice == {d1}
SingleTasks == {w1, w2, r1}
SingleKinds == [t \in SingleTasks |-> IF t = r1 THEN "varread" ELSE "write"]
SingleDevices == [t \in SingleTasks |-> d1]

\* A write to a variable property and a read of one device of a
\* MultiDeviceDAQProcess, and a read of another.
TwoDevices == {d1, d2}
MultiTasks == {w1, r1, r2}
MultiKinds == [t \in MultiTasks |-> IF t = w1 THEN "property" ELSE "read"]
MultiDevices == [t \in MultiTasks |-> IF t = r2 THEN d2 ELSE d1]

\* A write to a variable and one to a variable property.
TwoTasks == {w1, w2}
TwoKinds == [t \in TwoTasks |-> IF t = w1 THEN "write" ELSE "property"]
TwoDeviceOf == [t \in TwoTasks |-> d1]

=============================================================================
