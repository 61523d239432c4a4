-------------------------------- MODULE Mails --------------------------------
(***************************************************************************)
(* The table of mails of PyScada and the process that sends them           *)
(* (mail/worker.py, Mail.send_mail of models.py). Other processes add      *)
(* rows; this one sends each of them, three times at most, and deletes     *)
(* those it has sent a week ago. Handing a mail to the SMTP server and     *)
(* saving its row are two steps, and the process may be killed between     *)
(* any two.                                                                *)
(* FreshPending and HastyOldMails are mutated forms of the operator below them. *)
(***************************************************************************)
EXTENDS Integers, Sequences, FiniteSets

CONSTANTS
    Subjects,     \* what a mail may be about
    Recipients,
    MaxAttempts,  \* 3: failures after which a mail is given up
    MaxRefusals,  \* bound: mails the SMTP server does not take
    MaxMailKills  \* bound: times the mail process is killed

ASSUME MailAssumption ==
    /\ MaxAttempts \in Nat \ {0} /\ MaxRefusals \in Nat /\ MaxMailKills \in Nat

VARIABLES
    mail,    \* the rows in the order of their ids. History in a row: is it deleted,
             \* how often was it handed to the SMTP server and how often taken?
    sender,  \* the mail process: ids of the rows left of this pass, the id of the one it
             \* has handed over and not saved (or 0), and was that taken?
    refusals, mailKills   \* history

mailVars == <<mail, sender, refusals, mailKills>>

NewMail(topic, to) ==
    [about |-> topic, to |-> to, done |-> FALSE, send_fail_count |-> 0,
     deleted |-> FALSE, tried |-> 0, taken |-> 0]
Resting == [at |-> "start", rows |-> {}, row |-> 0, ok |-> FALSE]

MailInit == mail = <<>> /\ sender = Resting /\ refusals = 0 /\ mailKills = 0

\* Another process adds a row.
PostMail(topic, to) ==
    /\ mail' = Append(mail, NewMail(topic, to))
    /\ UNCHANGED <<sender, refusals, mailKills>>

\* The rows a pass starts with.
FreshPending(i) == ~mail[i].done /\ mail[i].send_fail_count < 1
Pending(i) == ~mail[i].done /\ mail[i].send_fail_count < MaxAttempts

BeginPass ==
    /\ sender.at = "start"
    /\ sender' = [at |-> "send", rows |-> {i \in 1..Len(mail) : Pending(i)}, row |-> 0, ok |-> FALSE]
    /\ UNCHANGED <<mail, refusals, mailKills>>

\* What a row becomes when the mail is handed to the SMTP server, and when the outcome is
\* known.
Handed(m, ok) == [m EXCEPT !.tried = @ + 1, !.taken = IF ok THEN @ + 1 ELSE @]
Outcome(m, ok) == IF ok THEN [m EXCEPT !.done = TRUE] ELSE [m EXCEPT !.send_fail_count = @ + 1]

\* send_mail, as far as the delivery. Rows are taken in the order of their ids.
DeliverMail(i, ok) ==
    /\ sender.at = "send" /\ i \in sender.rows /\ \A j \in sender.rows : i <= j
    /\ ok \/ refusals < MaxRefusals
    /\ refusals' = IF ok THEN refusals ELSE refusals + 1
    /\ mail' = [mail EXCEPT ![i] = Handed(@, ok)]
    /\ sender' = [at |-> "save", rows |-> sender.rows \ {i}, row |-> i, ok |-> ok]
    /\ UNCHANGED mailKills

\* ... and the save of the row.
SaveMail ==
    /\ sender.at = "save"
    /\ mail' = [mail EXCEPT ![sender.row] = Outcome(@, sender.ok)]
    /\ sender' = [at |-> "send", rows |-> sender.rows, row |-> 0, ok |-> FALSE]
    /\ UNCHANGED <<refusals, mailKills>>

\* The pass ends with the deletion of some rows: those sent a week ago.
HastyOldMails == {i \in 1..Len(mail) : ~mail[i].deleted /\ ~Pending(i)}
OldMails == {i \in 1..Len(mail) : ~mail[i].deleted /\ mail[i].done}
DeleteMails ==
    /\ sender.at = "send" /\ sender.rows = {}
    /\ \E old \in SUBSET OldMails :
          mail' = [i \in 1..Len(mail) |-> IF i \in old THEN [mail[i] EXCEPT !.deleted = TRUE]
                                          ELSE mail[i]]
    /\ sender' = Resting
    /\ UNCHANGED <<refusals, mailKills>>

\* The process is killed; the scheduler starts a new one.
KillSender ==
    /\ mailKills < MaxMailKills /\ mailKills' = mailKills + 1
    /\ sender' = Resting
    /\ UNCHANGED <<mail, refusals>>

MailWork ==
    \/ BeginPass \/ SaveMail \/ DeleteMails
    \/ \E i \in 1..Len(mail), ok \in BOOLEAN : DeliverMail(i, ok)
MailNext == MailWork \/ KillSender \/ \E topic \in Subjects, to \in Recipients : PostMail(topic, to)
MailSpec == MailInit /\ [][MailNext]_mailVars
----------------------------------------------------------------------------
Mail == [about : Subjects, to : Recipients, done : BOOLEAN, send_fail_count : 0..MaxAttempts,
         deleted : BOOLEAN, tried : Nat, taken : Nat]
MailTypeOK ==
    /\ mail \in Seq(Mail)
    /\ sender \in [at : {"start", "send", "save"}, rows : SUBSET (1..Len(mail)),
                   row : 0..Len(mail), ok : BOOLEAN]
    /\ sender.at = "save" => sender.row \in 1..Len(mail) \ sender.rows
    /\ refusals \in Nat /\ mailKills \in Nat

\* A mail is handed to the SMTP server three times at most and taken once at most, but
\* once more for every time the process was killed before it had saved the outcome. A
\* row that is marked done, or deleted, has been taken.
FewAttempts == \A i \in 1..Len(mail) : mail[i].tried <= MaxAttempts + mailKills
TwiceOnlyByKill == \A i \in 1..Len(mail) : mail[i].taken <= 1 + mailKills
DoneIsTaken == \A i \in 1..Len(mail) : mail[i].done \/ mail[i].deleted => mail[i].taken > 0
DeliveredOnce == FewAttempts /\ TwiceOnlyByKill /\ DoneIsTaken
=============================================================================
