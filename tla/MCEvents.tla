------------------------------ MODULE MCEvents ------------------------------
(* Instances of Events.                                                    *)
EXTENDS Events

\* An event on the variable the devices record, one on the variable the group changes,
\* limited by the first variable.
TwoEvents == [high |-> [variable |-> "v", limit |-> 1, limit_type |-> 2, hysteresis |-> 1,
                       variable_limit |-> None, action |-> 1, mail_recipients |-> <<"ann">>],
             limited |-> [variable |-> "w", limit |-> None, limit_type |-> 4, hysteresis |-> 0,
                          variable_limit |-> "v", action |-> 0, mail_recipients |-> <<>>]]

\* An alarm that is recorded and changes a variable, and an all-clear that ends the record.
Alarm == [level |-> 3, send_mail |-> FALSE, new_value |-> 1, stop_recording |-> FALSE,
          validation |-> 1,
          items |-> <<[variable |-> "v", limit_low |-> 3, limit_low_type |-> 1, hysteresis_low |-> 0,
                       limit_high |-> None, limit_high_type |-> 0, hysteresis_high |-> 0]>>]
Clear == [level |-> 1, send_mail |-> TRUE, new_value |-> None, stop_recording |-> TRUE,
          validation |-> 0,
          items |-> <<[variable |-> "v", limit_low |-> None, limit_low_type |-> 0, hysteresis_low |-> 0,
                       limit_high |-> 1, limit_high_type |-> 1, hysteresis_high |-> 1]>>]
OneGroup == [group |-> [complexevents |-> <<Alarm, Clear>>, mail_recipients |-> <<"ann">>,
                        variable_to_change |-> "w", default_value |-> 2,
                        default_send_mail |-> TRUE]]
\* The event with a variable limit alone, and no group.
OneLimited == [limited |-> TwoEvents.limited]
NoGroup == <<>>
Alone == <<"limited">>
InOrder == <<"high", "limited", "group">>
=============================================================================
