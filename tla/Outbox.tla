------------------------------- MODULE Outbox -------------------------------
(***************************************************************************)
(* The notifications outbox: NotificationService.enqueue, the cron job     *)
(* drain_notifications_outbox and the commands of notifications_cli.py.    *)
(*                                                                         *)
(* A drain takes a Redis lock that expires by itself and is never          *)
(* released, selects a batch, marks, mails and settles each row in one     *)
(* database transaction and commits once at the end.  A marked row is      *)
(* locked by its transaction; the mark itself is not visible to others.    *)
(***************************************************************************)
EXTENDS Naturals, FiniteSets

CONSTANTS
    Rows,         \* outbox rows, one per idempotency key
    Poison,       \* rows whose template does not exist: every send raises
    Foreign,      \* rows of another channel than email
    Drains,       \* the drains that may run at one time
    None,
    MaxAttempts,  \* 5 in the code
    BatchLimit,   \* 50 in the code
    LockTtl,      \* 25 seconds in the code
    DrainTime,    \* no drain takes longer: job_timeout, 60 seconds
    MaxLost,      \* bound: drains that end without a commit
    MaxCommands   \* bound: notifications commands of the operator

ASSUME OutboxAssumption ==
    /\ None \notin Rows
    /\ Poison \subseteq Rows
    /\ Foreign \subseteq Rows
    /\ MaxAttempts \in Nat \ {0}
    /\ BatchLimit \in Nat \ {0}
    /\ LockTtl \in Nat \ {0}
    /\ DrainTime \in Nat \ {0}
    /\ MaxLost \in Nat
    /\ MaxCommands \in Nat

VARIABLES
    row,       \* notifications_outbox: status, attempts, scheduled_for <= now
    lock,      \* what is left of the life of lock:drain_notifications_outbox
    drain,     \* the running drains
    mails,     \* mails the SMTP server accepted, by row
    failures,  \* sends that raised, by row
    lost,      \* drains lost so far
    commands   \* commands so far

vars == <<row, lock, drain, mails, failures, lost, commands>>

-----------------------------------------------------------------------------
Row == [status: {"absent", "pending", "sending", "sent", "deadlettered"},
        attempts: Nat, due: BOOLEAN]

Absent == [status |-> "absent", attempts |-> 0, due |-> FALSE]

Queued == [status |-> "pending", attempts |-> 0, due |-> TRUE]

\* result is what the transaction will have written to a row it has marked:
\* a row with a result is locked by the drain.
Drain == [pc: {"idle", "delete", "acquire", "select",
               "rows", "mark", "send"},
          age: Nat,                  \* since it has set the key
          todo: SUBSET Rows,
          cur: Rows \cup {None},
          seen: [Rows -> Nat],       \* attempts as loaded
          result: [Rows -> {"none", "sending", "sent",
                            "pending", "deadlettered"}]]

Idle == [pc |-> "idle", age |-> 0, todo |-> {}, cur |-> None,
         seen |-> [r \in Rows |-> 0],
         result |-> [r \in Rows |-> "none"]]

\* Typing.
TypeOK ==
    /\ row \in [Rows -> Row]
    /\ lock \in Nat
    /\ drain \in [Drains -> Drain]
    /\ mails \in [Rows -> Nat]
    /\ failures \in [Rows -> Nat]
    /\ lost \in Nat
    /\ commands \in Nat

Init ==
    /\ row = [r \in Rows |-> Absent]
    /\ lock = 0
    /\ drain = [d \in Drains |-> Idle]
    /\ mails = [r \in Rows |-> 0]
    /\ failures = [r \in Rows |-> 0]
    /\ lost = 0
    /\ commands = 0

\* INSERT ... ON CONFLICT DO NOTHING, committed by the caller.
Enqueue(r) ==
    /\ row[r].status = "absent"
    /\ row' = [row EXCEPT ![r] = Queued]
    /\ UNCHANGED <<lock, drain, mails, failures, lost, commands>>

-----------------------------------------------------------------------------
(* drain_notifications_outbox *)

\* Defect: the key is set without NX.
AcquireAnyway(d) ==
    /\ drain[d].pc \in {"idle", "acquire"}
    /\ lock' = LockTtl
    /\ drain' = [drain EXCEPT ![d].pc = "select"]
    /\ UNCHANGED <<row, mails, failures, lost, commands>>

\* SET NX EX: the cron job goes on only if the key did not exist.
Acquire(d) ==
    /\ drain[d].pc \in {"idle", "acquire"}
    /\ lock = 0
    /\ lock' = LockTtl
    /\ drain' = [drain EXCEPT ![d].pc = "select"]
    /\ UNCHANGED <<row, mails, failures, lost, commands>>

\* A command that finds the key set again reports nothing and ends.
Skip(d) ==
    /\ drain[d].pc = "acquire"
    /\ lock > 0
    /\ drain' = [drain EXCEPT ![d] = Idle]
    /\ UNCHANGED <<row, lock, mails, failures, lost, commands>>

\* The second branch is the recovery of rows left sending for a minute.
Eligible ==
    {r \in Rows : \/ /\ row[r].status = "pending" /\ row[r].due
                     /\ row[r].attempts < MaxAttempts
                  \/ row[r].status = "sending"}

\* SELECT ... LIMIT 50 without ORDER BY: any batch of that size.
Select(d) ==
    /\ drain[d].pc = "select"
    /\ \E batch \in SUBSET Eligible :
         /\ \/ batch = Eligible /\ Cardinality(batch) <= BatchLimit
            \/ Cardinality(batch) = BatchLimit
         /\ drain' = [drain EXCEPT
                        ![d].pc = "rows",
                        ![d].todo = batch,
                        ![d].seen = [r \in Rows |->
                                       IF r \in batch THEN row[r].attempts ELSE 0]]
    /\ UNCHANGED <<row, lock, mails, failures, lost, commands>>

\* A row of another channel is left as it is: pending, and selected again by
\* every drain to come.
PassOver(d, r) ==
    /\ drain[d].pc = "rows"
    /\ r \in drain[d].todo \cap Foreign
    /\ drain' = [drain EXCEPT ![d].todo = @ \ {r}]
    /\ UNCHANGED <<row, lock, mails, failures, lost, commands>>

\* Defect: the channel is not looked at.
PickAnyChannel(d, r) ==
    /\ drain[d].pc = "rows"
    /\ r \in drain[d].todo
    /\ drain' = [drain EXCEPT ![d].pc = "mark", ![d].cur = r]
    /\ UNCHANGED <<row, lock, mails, failures, lost, commands>>

Pick(d, r) ==
    /\ drain[d].pc = "rows"
    /\ r \in drain[d].todo \ Foreign
    /\ drain' = [drain EXCEPT ![d].pc = "mark", ![d].cur = r]
    /\ UNCHANGED <<row, lock, mails, failures, lost, commands>>

LockedBy(d, r) == drain[d].result[r] # "none"

\* flush: the UPDATE waits for the row lock and keeps it until the commit.
Mark(d) ==
    LET r == drain[d].cur IN
    /\ drain[d].pc = "mark"
    /\ \A e \in Drains \ {d} : ~LockedBy(e, r)
    /\ drain' = [drain EXCEPT ![d].pc = "send",
                              ![d].result[r] = "sending"]
    /\ UNCHANGED <<row, lock, mails, failures, lost, commands>>

Settled(d, result) ==
    drain' = [drain EXCEPT ![d].pc = "rows",
                           ![d].todo = @ \ {drain[d].cur},
                           ![d].cur = None,
                           ![d].result[drain[d].cur] = result]

SendOk(d) ==
    LET r == drain[d].cur IN
    /\ drain[d].pc = "send"
    /\ r \notin Poison
    /\ mails' = [mails EXCEPT ![r] = @ + 1]
    /\ Settled(d, "sent")
    /\ UNCHANGED <<row, lock, failures, lost, commands>>

\* Defects: the cap is compared with one attempt too many; it is not
\* compared at all; the status of a success is set after the try block.
AfterFailureEarly(attempts) ==
    IF attempts + 2 >= MaxAttempts THEN "deadlettered" ELSE "pending"
AfterFailureNever(attempts) == "pending"
AfterFailureSent(attempts) == "sent"

AfterFailure(attempts) ==
    IF attempts + 1 >= MaxAttempts THEN "deadlettered" ELSE "pending"

\* Rendering or sending raised.  When it was the reply of the SMTP server
\* that got lost, the mail went out.
SendFails(d) ==
    LET r == drain[d].cur IN
    /\ drain[d].pc = "send"
    /\ failures' = [failures EXCEPT ![r] = @ + 1]
    /\ \/ UNCHANGED mails
       \/ r \notin Poison /\ mails' = [mails EXCEPT ![r] = @ + 1]
    /\ Settled(d, AfterFailure(drain[d].seen[r]))
    /\ UNCHANGED <<row, lock, lost, commands>>

\* attempts is written as the loaded value plus one, and only after a
\* failure; a row that failed is put off.
Written(d, r) ==
    LET result == drain[d].result[r] IN
    CASE result = "none" -> row[r]
      [] result = "pending" ->
           [status |-> result, attempts |-> drain[d].seen[r] + 1, due |-> FALSE]
      [] result = "deadlettered" ->
           [row[r] EXCEPT !.status = result, !.attempts = drain[d].seen[r] + 1]
      [] OTHER -> [row[r] EXCEPT !.status = result]

Commit(d) ==
    /\ drain[d].pc = "rows"
    /\ drain[d].todo = {}
    /\ row' = [r \in Rows |-> Written(d, r)]
    /\ drain' = [drain EXCEPT ![d] = Idle]
    /\ UNCHANGED <<lock, mails, failures, lost, commands>>

\* The drain ends without a commit: the worker crashes, the job is cancelled
\* after its 60 seconds, the SMTP settings do not parse, or two drains wait
\* for each other's rows and the database fails this one (the flush is
\* outside of the try block).
Lose(d) ==
    /\ drain[d].pc # "idle"
    /\ lost < MaxLost
    /\ lost' = lost + 1
    /\ drain' = [drain EXCEPT ![d] = Idle]
    /\ UNCHANGED <<row, lock, mails, failures, commands>>

-----------------------------------------------------------------------------
(* notifications_cli.py *)

\* retry: the row is reset whatever its status; the UPDATE waits for the row
\* lock.
CliRetry(d, r) ==
    /\ drain[d].pc = "idle"
    /\ commands < MaxCommands
    /\ row[r].status # "absent"
    /\ \A e \in Drains : ~LockedBy(e, r)
    /\ commands' = commands + 1
    /\ row' = [row EXCEPT ![r] = Queued]
    /\ drain' = [drain EXCEPT ![d].pc = "delete"]
    /\ UNCHANGED <<lock, mails, failures, lost>>

\* drain deletes the key and starts a drain; retry goes on like that.
CliDrain(d) ==
    /\ \/ /\ drain[d].pc = "idle"
          /\ commands < MaxCommands
          /\ commands' = commands + 1
       \/ /\ drain[d].pc = "delete"
          /\ UNCHANGED commands
    /\ lock' = 0
    /\ drain' = [drain EXCEPT ![d].pc = "acquire"]
    /\ UNCHANGED <<row, mails, failures, lost>>

-----------------------------------------------------------------------------
(* Time *)

\* The drains between the SET of the key and their end.
Running ==
    {d \in Drains : drain[d].pc \in {"select", "rows", "mark", "send"}}

\* Seconds pass: the key comes nearer to its expiry, and ARQ ends a drain that
\* has run for DrainTime.
Tick ==
    /\ lock > 0 \/ Running # {}
    /\ \A d \in Running : drain[d].age < DrainTime
    /\ lock' = IF lock > 0 THEN lock - 1 ELSE 0
    /\ drain' = [d \in Drains |-> IF d \in Running
                                  THEN [drain[d] EXCEPT !.age = @ + 1]
                                  ELSE drain[d]]
    /\ UNCHANGED <<row, mails, failures, lost, commands>>

\* scheduled_for is reached.
BecomeDue(r) ==
    /\ row[r].status = "pending" /\ ~row[r].due
    /\ row' = [row EXCEPT ![r].due = TRUE]
    /\ UNCHANGED <<lock, drain, mails, failures, lost, commands>>

Next ==
    \/ \E r \in Rows : Enqueue(r) \/ BecomeDue(r)
    \/ \E d \in Drains :
          \/ Acquire(d)
          \/ Skip(d)
          \/ Select(d)
          \/ \E r \in Rows : PassOver(d, r) \/ Pick(d, r)
          \/ Mark(d)
          \/ SendOk(d)
          \/ SendFails(d)
          \/ Commit(d)
          \/ Lose(d)
          \/ \E r \in Rows : CliRetry(d, r)
          \/ CliDrain(d)
    \/ Tick

Spec == Init /\ [][Next]_vars

\* Fairness: the event loop resumes a drain, time passes, and the cron fires
\* every 30 seconds.
DrainStep(d) ==
    \/ Skip(d) \/ Select(d) \/ Mark(d) \/ SendOk(d) \/ SendFails(d) \/ Commit(d)
    \/ \E r \in Rows : PassOver(d, r) \/ Pick(d, r)

FairSpec ==
    /\ Spec
    /\ \A d \in Drains : WF_vars(DrainStep(d))
    /\ SF_vars(\E d \in Drains : Acquire(d))
    /\ WF_vars(Tick)
    /\ \A r \in Rows : WF_vars(BecomeDue(r))

-----------------------------------------------------------------------------
(* What holds whatever overlaps *)

\* A row the outbox calls sent was mailed (the commit of a batch, under
\* lost drains, deadlocks, overlapping drains and commands).
SentWasMailed ==
    \A r \in Rows : row[r].status = "sent" => mails[r] > 0

\* A row is given up only after MaxAttempts sends of it failed: attempts,
\* written from a loaded value by drains that may overlap, never runs ahead
\* of the failures.
DeadletterEarned ==
    \A r \in Rows : /\ row[r].attempts <= failures[r]
                    /\ row[r].status = "deadlettered" =>
                         failures[r] >= MaxAttempts

\* The mark never reaches the database as such: it is flushed, and the
\* commit finds it replaced by the outcome.  Nothing is ever left to the
\* recovery branch of the query.
MarkNeverCommitted == \A r \in Rows : row[r].status # "sending"

\* Until a command deletes the key, a drain starts beside another one only
\* when that one has outlived the key: of a job of 60 seconds and a key of 25,
\* three may run at one time, and a job that ends sooner is alone.
DrainsKeepApart ==
    commands = 0 =>
        \A d, e \in Running : d # e =>
            \/ drain[d].age >= drain[e].age + LockTtl
            \/ drain[e].age >= drain[d].age + LockTtl

-----------------------------------------------------------------------------
(* What holds when drains do not outlive the key *)

StateOf(r) == CASE row[r].status \in {"pending", "sending"} -> "queued"
                [] row[r].status = "deadlettered" -> "dead"
                [] OTHER -> row[r].status

Mailbox == INSTANCE MailOutbox WITH state <- [r \in Rows |-> StateOf(r)]

\* Batches, row locks and retries implement the outbox's promise: in
\* particular a row that was committed as sent is never mailed again.
ImplementsMailbox == Mailbox!Spec

\* Every mail is sent or given up in the end, one that always fails too, in
\* spite of rows of another channel, which never leave the batches: as long as
\* those do not fill one.
EveryRowSettles ==
    Cardinality(Foreign) < BatchLimit =>
        \A r \in Rows \ Foreign :
            row[r].status = "pending" ~> row[r].status \in {"sent", "deadlettered"}
=============================================================================
