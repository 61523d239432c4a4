------------------------------- MODULE HmiView -------------------------------
(***************************************************************************)
(* What the page of the HMI promises about the samples it shows, whatever  *)
(* requests it takes to get them: a sample shown is one the server has     *)
(* recorded, a chart forgets none, and of every other variable at most one *)
(* sample is shown.                                                        *)
(***************************************************************************)
EXTENDS Integers

CONSTANTS Vars, Charts   \* the variables of the page, those drawn in a chart

VARIABLES recorded, shown   \* per variable, times of the samples recorded and shown

Init ==
    /\ recorded \in [Vars -> SUBSET Int]
    /\ shown = [v \in Vars |-> {}]

\* The server records samples of a variable that are newer than those it has.
Record(v) ==
    /\ recorded[v] \subseteq recorded'[v]
    /\ \A t \in recorded[v], u \in recorded'[v] \ recorded[v] : t < u
    /\ \A w \in Vars \ {v} : recorded'[w] = recorded[w]
    /\ UNCHANGED shown

\* The page is brought up to date, as far as it goes.
Show ==
    /\ UNCHANGED recorded
    /\ \A v \in Vars : shown'[v] \subseteq recorded[v]
    /\ \A v \in Charts : shown[v] \subseteq shown'[v]
    /\ \A v \in Vars \ Charts : \A t, u \in shown'[v] : t = u

Next == Show \/ \E v \in Vars : Record(v)
Spec == Init /\ [][Next]_<<recorded, shown>>
==============================================================================
