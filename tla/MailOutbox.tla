----------------------------- MODULE MailOutbox -----------------------------
(***************************************************************************)
(* What the notifications outbox promises about each row, whatever batches,*)
(* locks and transactions deliver it: a row is mailed only while it is     *)
(* queued, it is closed as sent only after a mail went out, it is given up *)
(* only after MaxAttempts failures, and a closed row stays closed.         *)
(***************************************************************************)
EXTENDS Naturals

CONSTANTS Rows, Foreign, MaxAttempts

VARIABLES
    state,     \* absent, queued, sent or dead
    mails,     \* mails the SMTP server accepted for the row
    failures   \* sends of the row that raised

Init == /\ state = [r \in Rows |-> "absent"]
        /\ mails = [r \in Rows |-> 0]
        /\ failures = [r \in Rows |-> 0]

Enqueue(r) == /\ state[r] = "absent"
              /\ state' = [state EXCEPT ![r] = "queued"]
              /\ UNCHANGED <<mails, failures>>

\* A row of another channel is neither mailed nor ever closed.
Mail(r) == /\ r \notin Foreign /\ state[r] = "queued"
           /\ mails' = [mails EXCEPT ![r] = @ + 1]
           /\ UNCHANGED <<state, failures>>

\* A send that raised may have been accepted all the same.
Fail(r) == /\ r \notin Foreign /\ state[r] = "queued"
           /\ failures' = [failures EXCEPT ![r] = @ + 1]
           /\ mails' \in {mails, [mails EXCEPT ![r] = @ + 1]}
           /\ UNCHANGED state

\* Rows are closed many at a time.
CloseRows(sent, dead) ==
    /\ \A r \in sent : state[r] = "queued" /\ mails[r] > 0
    /\ \A r \in dead : state[r] = "queued" /\ failures[r] >= MaxAttempts
    /\ state' = [r \in Rows |-> IF r \in sent THEN "sent"
                                ELSE IF r \in dead THEN "dead"
                                ELSE state[r]]
    /\ UNCHANGED <<mails, failures>>

Next == \/ \E r \in Rows : Enqueue(r) \/ Mail(r) \/ Fail(r)
        \/ \E sent, dead \in SUBSET Rows : CloseRows(sent, dead)

Spec == Init /\ [][Next]_<<state, mails, failures>>
=============================================================================
