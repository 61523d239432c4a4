----------------------------- MODULE MailsProofs -----------------------------
(***************************************************************************)
(* TLAPS proofs about Mails, for every number of mails, attempts and       *)
(* kills.                                                                  *)
(***************************************************************************)
EXTENDS Mails, SequenceTheorems, TLAPS

\* The row in hand has been handed to the SMTP server, and the outcome is not saved yet.
InHand(i) == sender.at = "save" /\ sender.row = i

\* What the counters of row i add up to: every attempt has been saved as a failure or as
\* done, is in hand, or was lost by a kill. A row is worked on only while it is pending.
RowInv(i) ==
    /\ mail[i].tried <= mail[i].send_fail_count + (IF mail[i].done \/ InHand(i) THEN 1 ELSE 0)
                        + mailKills
    /\ mail[i].taken <= (IF mail[i].done \/ (InHand(i) /\ sender.ok) THEN 1 ELSE 0) + mailKills
    /\ mail[i].done => mail[i].taken > 0 /\ mail[i].send_fail_count < MaxAttempts
    /\ mail[i].deleted => mail[i].done
    /\ InHand(i) \/ i \in sender.rows => Pending(i)
    /\ InHand(i) /\ sender.ok => mail[i].taken > 0

MailIInv == MailTypeOK /\ \A i \in 1..Len(mail) : RowInv(i)

LEMMA MailInitInv == MailInit => MailIInv
BY EmptySeq, MailAssumption DEF MailInit, MailIInv, MailTypeOK, Resting

\* What a step changes in a row.
LEMMA HandedRow ==
    ASSUME NEW m \in Mail, NEW ok \in BOOLEAN
    PROVE  /\ Handed(m, ok) \in Mail
           /\ Handed(m, ok).done = m.done /\ Handed(m, ok).deleted = m.deleted
           /\ Handed(m, ok).send_fail_count = m.send_fail_count
           /\ Handed(m, ok).tried = m.tried + 1
           /\ ok => Handed(m, ok).taken = m.taken + 1
           /\ ~ok => Handed(m, ok).taken = m.taken
<1>1. CASE ok
  <2>1. Handed(m, ok) = [m EXCEPT !.tried = m.tried + 1, !.taken = m.taken + 1]
    BY <1>1 DEF Handed
  <2>2. /\ m.tried + 1 \in Nat /\ m.taken + 1 \in Nat
        /\ m = [about |-> m.about, to |-> m.to, done |-> m.done,
                send_fail_count |-> m.send_fail_count, deleted |-> m.deleted,
                tried |-> m.tried, taken |-> m.taken]
    BY DEF Mail
  <2>3. Handed(m, ok) = [about |-> m.about, to |-> m.to, done |-> m.done,
                         send_fail_count |-> m.send_fail_count, deleted |-> m.deleted,
                         tried |-> m.tried + 1, taken |-> m.taken + 1]
    BY <2>1, <2>2
  <2>4. Handed(m, ok) \in Mail
    BY <2>2, <2>3 DEF Mail
  <2>5. /\ Handed(m, ok).done = m.done /\ Handed(m, ok).deleted = m.deleted
        /\ Handed(m, ok).send_fail_count = m.send_fail_count
        /\ Handed(m, ok).tried = m.tried + 1
        /\ Handed(m, ok).taken = m.taken + 1
    BY <2>3
  <2> QED
    BY <1>1, <2>4, <2>5
<1>2. CASE ~ok
  <2>1. Handed(m, ok) = [m EXCEPT !.tried = m.tried + 1, !.taken = m.taken]
    BY <1>2 DEF Handed
  <2>2. /\ m.tried + 1 \in Nat
        /\ m = [about |-> m.about, to |-> m.to, done |-> m.done,
                send_fail_count |-> m.send_fail_count, deleted |-> m.deleted,
                tried |-> m.tried, taken |-> m.taken]
    BY DEF Mail
  <2>3. Handed(m, ok) = [about |-> m.about, to |-> m.to, done |-> m.done,
                         send_fail_count |-> m.send_fail_count, deleted |-> m.deleted,
                         tried |-> m.tried + 1, taken |-> m.taken]
    BY <2>1, <2>2
  <2> QED
    BY <1>2, <2>2, <2>3 DEF Mail
<1> QED
  BY <1>1, <1>2

LEMMA OutcomeRow ==
    ASSUME NEW m \in Mail, NEW ok \in BOOLEAN, m.send_fail_count < MaxAttempts
    PROVE  /\ Outcome(m, ok) \in Mail
           /\ Outcome(m, ok).deleted = m.deleted
           /\ Outcome(m, ok).tried = m.tried /\ Outcome(m, ok).taken = m.taken
           /\ ok => Outcome(m, ok).done /\ Outcome(m, ok).send_fail_count = m.send_fail_count
           /\ ~ok => /\ Outcome(m, ok).done = m.done
                     /\ Outcome(m, ok).send_fail_count = m.send_fail_count + 1
<1>1. CASE ok
  BY <1>1, MailAssumption DEF Outcome, Mail
<1>2. CASE ~ok
  BY <1>2, MailAssumption DEF Outcome, Mail
<1> QED
  BY <1>1, <1>2

\* What changes one row keeps the others.
LEMMA RowChange ==
    ASSUME NEW i \in 1..Len(mail), NEW m \in Mail, mail \in Seq(Mail),
           mail' = [mail EXCEPT ![i] = m]
    PROVE  /\ mail' \in Seq(Mail) /\ Len(mail') = Len(mail) /\ mail'[i] = m
           /\ \A j \in 1..Len(mail) : j # i => mail'[j] = mail[j]
BY ExceptSeq

LEMMA MailStepInv ==
    ASSUME MailIInv, [MailNext]_mailVars
    PROVE  MailIInv'
<1> USE MailAssumption
<1>0. /\ mail \in Seq(Mail) /\ Len(mail) \in Nat
      /\ \A i \in 1..Len(mail) : mail[i] \in Mail
      /\ refusals \in Nat /\ mailKills \in Nat
      /\ sender \in [at : {"start", "send", "save"}, rows : SUBSET (1..Len(mail)),
                     row : 0..Len(mail), ok : BOOLEAN]
      /\ sender.at = "save" => sender.row \in 1..Len(mail) \ sender.rows
      /\ \A i \in 1..Len(mail) : RowInv(i)
  BY ElementOfSeq, LenProperties DEF MailIInv, MailTypeOK
<1>1. CASE BeginPass
  <2>1. MailTypeOK'
    BY <1>0, <1>1 DEF BeginPass, MailTypeOK
  <2>2. ASSUME NEW i \in 1..Len(mail) PROVE RowInv(i)'
    BY <1>0, <1>1 DEF BeginPass, RowInv, InHand, Pending, Mail
  <2> QED
    BY <1>1, <2>1, <2>2 DEF MailIInv, BeginPass
<1>2. ASSUME NEW i \in 1..Len(mail), NEW ok \in BOOLEAN, DeliverMail(i, ok)
      PROVE  MailIInv'
  <2> DEFINE m == Handed(mail[i], ok)
  <2>1. m \in Mail /\ mail' = [mail EXCEPT ![i] = m]
    <3>1. mail[i] \in Mail
      BY <1>0
    <3> QED
      BY <1>2, <3>1, HandedRow DEF DeliverMail
  <2>2. /\ mail' \in Seq(Mail) /\ Len(mail') = Len(mail) /\ mail'[i] = m
        /\ \A j \in 1..Len(mail) : j # i => mail'[j] = mail[j]
    <3> HIDE DEF m
    <3> QED
      BY <1>0, <2>1, RowChange
  <2>3. MailTypeOK'
    BY <1>0, <1>2, <2>2 DEF DeliverMail, MailTypeOK
  <2>4. ASSUME NEW j \in 1..Len(mail) PROVE RowInv(j)'
    <3>1. CASE j = i
      <4>1. mail[i] \in Mail /\ RowInv(i) /\ Pending(i) /\ ~InHand(i)
        BY <1>0, <1>2 DEF DeliverMail, RowInv, InHand
      <4>2. InHand(i)' /\ (sender.ok' = ok) /\ i \notin sender.rows' /\ mailKills' = mailKills
        BY <1>2 DEF DeliverMail, InHand
      <4>3. /\ mail'[i].done = mail[i].done /\ mail'[i].deleted = mail[i].deleted
            /\ mail'[i].send_fail_count = mail[i].send_fail_count
            /\ mail'[i].tried = mail[i].tried + 1
            /\ ok => mail'[i].taken = mail[i].taken + 1
            /\ ~ok => mail'[i].taken = mail[i].taken
        BY <2>2, <4>1, HandedRow
      <4>4. /\ mail[i].taken \in Nat /\ mail[i].tried \in Nat /\ mailKills \in Nat
            /\ mail[i].send_fail_count \in Int
            /\ mail[i].tried <= mail[i].send_fail_count + mailKills
            /\ mail[i].taken <= mailKills /\ ~mail[i].done
            /\ mail[i].deleted => mail[i].done
        BY SMTT(30), <1>0, <4>1 DEF RowInv, Pending, Mail
      <4>5. /\ (mail[i].taken <= mailKills => mail[i].taken + 1 <= 1 + mailKills)
            /\ mail[i].taken + 1 > 0
            /\ mail[i].tried + 1 <= mail[i].send_fail_count + 1 + mailKills
            /\ mail[i].taken <= 1 + mailKills
        BY SMTT(30), <4>4
      <4>6. RowInv(i)'
        BY <4>1, <4>2, <4>3, <4>4, <4>5 DEF RowInv, Pending
      <4> QED
        BY <3>1, <4>6
    <3>2. CASE j # i
      BY <1>0, <1>2, <2>2, <3>2 DEF DeliverMail, RowInv, InHand, Pending, Mail
    <3> QED
      BY <3>1, <3>2
  <2> QED
    BY <2>2, <2>3, <2>4 DEF MailIInv
<1>3. CASE SaveMail
  <2> DEFINE i == sender.row
             m == Outcome(mail[i], sender.ok)
  <2>0. i \in 1..Len(mail) /\ sender.at = "save"
    BY <1>0, <1>3 DEF SaveMail
  <2>1. m \in Mail /\ mail' = [mail EXCEPT ![i] = m]
    <3>1. mail[i] \in Mail /\ mail[i].send_fail_count < MaxAttempts
      BY <1>0, <2>0 DEF RowInv, InHand, Pending
    <3> QED
      BY <1>0, <1>3, <3>1, OutcomeRow DEF SaveMail
  <2>2. /\ mail' \in Seq(Mail) /\ Len(mail') = Len(mail) /\ mail'[i] = m
        /\ \A j \in 1..Len(mail) : j # i => mail'[j] = mail[j]
    <3> HIDE DEF m, i
    <3> QED
      BY <1>0, <2>0, <2>1, RowChange
  <2>3. MailTypeOK'
    BY <1>0, <1>3, <2>2 DEF SaveMail, MailTypeOK
  <2>4. ASSUME NEW j \in 1..Len(mail) PROVE RowInv(j)'
    <3>1. CASE j = i
      BY SMTT(30), <1>0, <1>3, <2>0, <2>2, <3>1, OutcomeRow DEF SaveMail, RowInv, InHand, Pending, Mail
    <3>2. CASE j # i
      BY <1>0, <1>3, <2>0, <2>2, <3>2 DEF SaveMail, RowInv, InHand, Pending, Mail
    <3> QED
      BY <3>1, <3>2
  <2> QED
    BY <2>2, <2>3, <2>4 DEF MailIInv
<1>4. CASE DeleteMails
  <2>1. PICK old \in SUBSET OldMails :
            mail' = [i \in 1..Len(mail) |-> IF i \in old THEN [mail[i] EXCEPT !.deleted = TRUE]
                                            ELSE mail[i]]
    BY <1>4 DEF DeleteMails
  <2>2. \A i \in 1..Len(mail) : mail'[i] \in Mail
    BY ZenonT(40), <1>0, <2>1 DEF Mail
  <2>3. mail' \in Seq(Mail) /\ Len(mail') = Len(mail)
    BY <1>0, <2>1, <2>2
  <2>4. MailTypeOK'
    BY <1>0, <1>4, <2>3 DEF DeleteMails, MailTypeOK, Resting
  <2>5. ASSUME NEW i \in 1..Len(mail) PROVE RowInv(i)'
    BY SMTT(30), <1>0, <1>4, <2>1 DEF DeleteMails, Resting, OldMails, RowInv, InHand, Pending, Mail
  <2> QED
    BY <2>3, <2>4, <2>5 DEF MailIInv
<1>5. CASE KillSender
  <2>1. MailTypeOK'
    BY <1>0, <1>5 DEF KillSender, Resting, MailTypeOK
  <2>2. ASSUME NEW i \in 1..Len(mail) PROVE RowInv(i)'
    BY SMTT(30), <1>0, <1>5 DEF KillSender, Resting, RowInv, InHand, Pending, Mail
  <2> QED
    BY <1>5, <2>1, <2>2 DEF MailIInv, KillSender
<1>6. ASSUME NEW topic \in Subjects, NEW to \in Recipients, PostMail(topic, to)
      PROVE  MailIInv'
  <2>1. NewMail(topic, to) \in Mail
    BY DEF NewMail, Mail
  <2>2. /\ mail' \in Seq(Mail) /\ Len(mail') = Len(mail) + 1
        /\ mail'[Len(mail) + 1] = NewMail(topic, to)
        /\ \A i \in 1..Len(mail) : mail'[i] = mail[i]
    <3> HIDE DEF NewMail
    <3> QED
      BY <1>0, <1>6, <2>1, AppendProperties DEF PostMail
  <2>3. MailTypeOK'
    BY <1>0, <1>6, <2>2 DEF PostMail, MailTypeOK
  <2>4. ASSUME NEW i \in 1..Len(mail) PROVE RowInv(i)'
    BY <1>0, <1>6, <2>2 DEF PostMail, RowInv, InHand, Pending, Mail
  <2>5. ASSUME NEW i, i = Len(mail) + 1 PROVE RowInv(i)'
    BY <2>5, <1>0, <1>6, <2>2 DEF PostMail, NewMail, RowInv, InHand, Pending
  <2> QED
    BY <1>0, <2>2, <2>3, <2>4, <2>5 DEF MailIInv
<1>7. CASE UNCHANGED mailVars
  BY <1>7 DEF mailVars, MailIInv, MailTypeOK, RowInv, InHand, Pending
<1> QED
  BY <1>1, <1>2, <1>3, <1>4, <1>5, <1>6, <1>7 DEF MailNext, MailWork

\* The counters of a row give its bounds.
LEMMA MailInvSafe == MailIInv => DeliveredOnce
<1> SUFFICES ASSUME MailIInv, NEW i \in 1..Len(mail)
             PROVE  /\ mail[i].tried <= MaxAttempts + mailKills
                    /\ mail[i].taken <= 1 + mailKills
                    /\ mail[i].done \/ mail[i].deleted => mail[i].taken > 0
  BY DEF DeliveredOnce, FewAttempts, TwiceOnlyByKill, DoneIsTaken
<1>1. mail[i] \in Mail /\ mailKills \in Nat /\ RowInv(i)
  BY ElementOfSeq DEF MailIInv, MailTypeOK
<1> QED
  BY <1>1, MailAssumption DEF RowInv, InHand, Pending, Mail

\* The table of mails and the mail process keep their types (mail/worker.py).
THEOREM MailTypeCorrect == MailSpec => []MailTypeOK
<1>1. MailIInv => MailTypeOK
  BY DEF MailIInv
<1> QED
  BY <1>1, MailInitInv, MailStepInv, PTL DEF MailSpec

\* A mail is tried three times at most and taken once at most, but for kills, and a row
\* marked done or deleted has been taken (Mail.send_mail), whatever other processes add
\* to the table meanwhile.
THEOREM MailsDeliveredOnce == MailSpec => []DeliveredOnce
BY MailInitInv, MailStepInv, MailInvSafe, PTL DEF MailSpec
=============================================================================
