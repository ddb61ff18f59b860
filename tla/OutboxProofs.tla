---------------------------- MODULE OutboxProofs ----------------------------
(***************************************************************************)
(* Theorems about Outbox for any number of rows and drains, any batch size *)
(* and any number of attempts.  A drain decides on loaded values and writes*)
(* once, at its commit: the invariant carries what each decision rests on  *)
(* from the moment it is taken to the commit.                              *)
(***************************************************************************)
EXTENDS Outbox, TLAPS

\* A drain that works on a row knows which; only that row is marked; before
\* it selects its rows it has decided nothing.
Cursor ==
    \A d \in Drains :
        /\ drain[d].pc \in {"mark", "send"} => drain[d].cur \in Rows
        /\ \A r \in Rows : drain[d].result[r] = "sending" =>
             drain[d].pc = "send" /\ drain[d].cur = r
        /\ drain[d].pc \notin {"rows", "mark", "send"} =>
             \A r \in Rows : drain[d].result[r] = "none"

\* What a drain loaded, and what it decided, rests on sends that happened.
Earned ==
    \A d \in Drains : \A r \in Rows :
        LET result == drain[d].result[r]
            seen == drain[d].seen[r]
        IN /\ seen <= failures[r]
           /\ result = "sent" => mails[r] > 0
           /\ result \in {"pending", "deadlettered"} => seen + 1 <= failures[r]
           /\ result = "deadlettered" => seen + 1 >= MaxAttempts

IInv ==
    /\ TypeOK
    /\ Cursor
    /\ Earned
    /\ SentWasMailed
    /\ DeadletterEarned
    /\ MarkNeverCommitted

-----------------------------------------------------------------------------
\* The initial states satisfy every part of the invariant.
LEMMA InitIInv == Init => IInv
<1> SUFFICES ASSUME Init PROVE IInv
    OBVIOUS
<1> USE OutboxAssumption DEF Init, Idle, Absent
<1>1. TypeOK
    BY DEF TypeOK, Row, Drain
<1>2. Cursor /\ Earned
    BY DEF Cursor, Earned
<1>3. SentWasMailed /\ DeadletterEarned /\ MarkNeverCommitted
    BY DEF SentWasMailed, DeadletterEarned, MarkNeverCommitted
<1> QED
    BY <1>1, <1>2, <1>3 DEF IInv

\* Replacing the state of one drain by another well-typed one.
LEMMA DrainTyped ==
    ASSUME TypeOK, NEW d \in Drains, NEW D \in Drain,
           drain' = [drain EXCEPT ![d] = D]
    PROVE  drain' \in [Drains -> Drain]
BY DEF TypeOK

\* Replacing one row by another well-typed one.
LEMMA RowTyped ==
    ASSUME TypeOK, NEW r \in Rows, NEW R \in Row,
           row' = [row EXCEPT ![r] = R]
    PROVE  row' \in [Rows -> Row]
BY DEF TypeOK

\* Typing is inductive by itself, but for the cursor of a working drain.
LEMMA TypeStep == TypeOK /\ Cursor /\ [Next]_vars => TypeOK'
<1> SUFFICES ASSUME TypeOK, Cursor, [Next]_vars PROVE TypeOK'
    OBVIOUS
<1> USE OutboxAssumption
<1>0. /\ Queued \in Row
      /\ Idle \in Drain
      /\ \A d \in Drains : drain[d] \in Drain
      /\ \A r \in Rows : row[r] \in Row
    BY DEF TypeOK, Queued, Row, Idle, Drain
<1>1. CASE UNCHANGED vars
    BY <1>1 DEF vars, TypeOK
<1>2. ASSUME NEW r \in Rows, Enqueue(r) PROVE TypeOK'
    BY <1>0, <1>2, RowTyped DEF Enqueue, TypeOK
<1>3. ASSUME NEW r \in Rows, BecomeDue(r) PROVE TypeOK'
    <2>1. [row[r] EXCEPT !.due = TRUE] \in Row
        BY <1>0 DEF Row
    <2> QED
        BY <1>3, <2>1, RowTyped DEF BecomeDue, TypeOK
<1>4. ASSUME NEW d \in Drains, Acquire(d) PROVE TypeOK'
    <2>1. [drain[d] EXCEPT !.pc = "select"] \in Drain
        BY <1>0 DEF Drain
    <2>2. drain' \in [Drains -> Drain]
        BY <1>4, <2>1, DrainTyped DEF Acquire
    <2>3. lock' \in Nat
        BY <1>4 DEF Acquire
    <2> QED
        BY <1>4, <2>2, <2>3 DEF Acquire, TypeOK
<1>5. ASSUME NEW d \in Drains, Skip(d) \/ Lose(d) PROVE TypeOK'
    <2>1. drain' \in [Drains -> Drain]
        BY <1>0, <1>5, DrainTyped DEF Skip, Lose
    <2> QED
        BY <1>5, <2>1 DEF Skip, Lose, TypeOK
<1>6. ASSUME NEW d \in Drains, Select(d) PROVE TypeOK'
    <2>1. PICK batch \in SUBSET Eligible :
            drain' = [drain EXCEPT
                        ![d].pc = "rows",
                        ![d].todo = batch,
                        ![d].seen = [r \in Rows |->
                                       IF r \in batch THEN row[r].attempts ELSE 0]]
        BY <1>6 DEF Select
    <2>2. [r \in Rows |-> IF r \in batch THEN row[r].attempts ELSE 0]
            \in [Rows -> Nat]
        BY <1>0 DEF Row
    <2>3. batch \in SUBSET Rows
        BY DEF Eligible
    <2>4. [drain[d] EXCEPT
             !.pc = "rows", !.todo = batch,
             !.seen = [r \in Rows |->
                         IF r \in batch THEN row[r].attempts ELSE 0]] \in Drain
        BY <1>0, <2>2, <2>3 DEF Drain
    <2>5. drain' = [drain EXCEPT ![d] =
                      [drain[d] EXCEPT
                         !.pc = "rows", !.todo = batch,
                         !.seen = [r \in Rows |->
                                     IF r \in batch THEN row[r].attempts ELSE 0]]]
        BY <2>1
    <2>6. drain' \in [Drains -> Drain]
        BY <2>4, <2>5, DrainTyped
    <2> QED
        BY <1>6, <2>6 DEF Select, TypeOK
<1>7. ASSUME NEW d \in Drains, NEW r \in Rows, Pick(d, r) PROVE TypeOK'
    <2>1. [drain[d] EXCEPT !.pc = "mark", !.cur = r] \in Drain
        BY <1>0 DEF Drain
    <2>2. drain' = [drain EXCEPT ![d] =
                      [drain[d] EXCEPT !.pc = "mark", !.cur = r]]
        BY <1>7 DEF Pick
    <2>3. drain' \in [Drains -> Drain]
        BY <2>1, <2>2, DrainTyped
    <2> QED
        BY <1>7, <2>3 DEF Pick, TypeOK
<1>8. ASSUME NEW d \in Drains, Mark(d) PROVE TypeOK'
    <2>1. [drain[d] EXCEPT !.pc = "send",
                           !.result[drain[d].cur] = "sending"] \in Drain
        BY <1>0 DEF Drain
    <2>2. drain' = [drain EXCEPT ![d] =
                      [drain[d] EXCEPT !.pc = "send",
                                       !.result[drain[d].cur] = "sending"]]
        BY <1>8 DEF Mark
    <2>3. drain' \in [Drains -> Drain]
        BY <2>1, <2>2, DrainTyped
    <2> QED
        BY <1>8, <2>3 DEF Mark, TypeOK
<1>9. ASSUME NEW d \in Drains, SendOk(d) \/ SendFails(d) PROVE TypeOK'
    <2>1. PICK result \in {"sent", "pending", "deadlettered"} :
            Settled(d, result)
        BY <1>9 DEF SendOk, SendFails, AfterFailure
    <2>2. [drain[d] EXCEPT !.pc = "rows",
                           !.todo = @ \ {drain[d].cur},
                           !.cur = None,
                           !.result[drain[d].cur] = result] \in Drain
        BY <1>0 DEF Drain
    <2>3. drain' = [drain EXCEPT ![d] =
                      [drain[d] EXCEPT !.pc = "rows",
                                       !.todo = @ \ {drain[d].cur},
                                       !.cur = None,
                                       !.result[drain[d].cur] = result]]
        BY <2>1 DEF Settled
    <2>4. drain' \in [Drains -> Drain]
        BY <2>2, <2>3, DrainTyped
    <2>5. mails' \in [Rows -> Nat] /\ failures' \in [Rows -> Nat]
        BY <1>9 DEF SendOk, SendFails, TypeOK
    <2> QED
        BY <1>9, <2>4, <2>5 DEF SendOk, SendFails, TypeOK
<1>10. ASSUME NEW d \in Drains, Commit(d) PROVE TypeOK'
    <2>1. ASSUME NEW r \in Rows, drain[d].result[r] # "sending"
          PROVE  Written(d, r) \in Row
        <3>1. /\ drain[d].result[r] \in {"none", "sent", "pending", "deadlettered"}
              /\ drain[d].seen[r] + 1 \in Nat
            BY <1>0, <2>1 DEF Drain
        <3>2. [status |-> "pending", attempts |-> drain[d].seen[r] + 1,
               due |-> FALSE] \in Row
            BY <3>1 DEF Row
        <3>3. [row[r] EXCEPT !.status = "deadlettered",
                             !.attempts = drain[d].seen[r] + 1] \in Row
            BY <1>0, <3>1 DEF Row
        <3>4. [row[r] EXCEPT !.status = "sent"] \in Row
            BY <1>0 DEF Row
        <3> QED
            BY <1>0, <3>1, <3>2, <3>3, <3>4 DEF Written
    <2>2. \A r \in Rows : drain[d].result[r] # "sending"
        BY <1>10 DEF Commit, Cursor
    <2>3. row' \in [Rows -> Row]
        BY <1>10, <2>1, <2>2 DEF Commit
    <2>4. drain' \in [Drains -> Drain]
        BY <1>0, <1>10, DrainTyped DEF Commit
    <2> QED
        BY <1>10, <2>3, <2>4 DEF Commit, TypeOK
<1>11. ASSUME NEW d \in Drains, NEW r \in Rows, CliRetry(d, r) PROVE TypeOK'
    <2>1. [drain[d] EXCEPT !.pc = "delete"] \in Drain
        BY <1>0 DEF Drain
    <2>2. drain' \in [Drains -> Drain]
        BY <1>11, <2>1, DrainTyped DEF CliRetry
    <2>3. row' \in [Rows -> Row]
        BY <1>0, <1>11, RowTyped DEF CliRetry
    <2> QED
        BY <1>11, <2>2, <2>3 DEF CliRetry, TypeOK
<1>12. ASSUME NEW d \in Drains, CliDrain(d) PROVE TypeOK'
    <2>1. [drain[d] EXCEPT !.pc = "acquire"] \in Drain
        BY <1>0 DEF Drain
    <2>2. drain' \in [Drains -> Drain]
        BY <1>12, <2>1, DrainTyped DEF CliDrain
    <2>3. lock' \in Nat /\ commands' \in Nat
        BY <1>12 DEF CliDrain, TypeOK
    <2> QED
        BY <1>12, <2>2, <2>3 DEF CliDrain, TypeOK
<1>13. CASE Tick
    <2>1. lock' \in Nat
        BY <1>13 DEF Tick, TypeOK
    <2>2. \A d \in Drains : [drain[d] EXCEPT !.age = @ + 1] \in Drain
        BY <1>0 DEF Drain
    <2>3. drain' \in [Drains -> Drain]
        BY <1>0, <1>13, <2>2 DEF Tick
    <2> QED
        BY <1>13, <2>1, <2>3 DEF Tick, TypeOK
<1>14. ASSUME NEW d \in Drains, NEW r \in Rows, PassOver(d, r) PROVE TypeOK'
    <2>1. [drain[d] EXCEPT !.todo = @ \ {r}] \in Drain
        BY <1>0 DEF Drain
    <2>2. drain' = [drain EXCEPT ![d] = [drain[d] EXCEPT !.todo = @ \ {r}]]
        BY <1>14 DEF PassOver
    <2>3. drain' \in [Drains -> Drain]
        BY <2>1, <2>2, DrainTyped
    <2> QED
        BY <1>14, <2>3 DEF PassOver, TypeOK
<1> QED
    BY <1>1, <1>2, <1>3, <1>4, <1>5, <1>6, <1>7, <1>8, <1>9, <1>10, <1>11,
       <1>12, <1>13, <1>14 DEF Next

\* Time only makes drains older, and only those that run.
LEMMA Aged ==
    ASSUME TypeOK, Tick, NEW d \in Drains
    PROVE  /\ drain'[d].pc = drain[d].pc /\ drain'[d].cur = drain[d].cur
           /\ drain'[d].todo = drain[d].todo /\ drain'[d].seen = drain[d].seen
           /\ drain'[d].result = drain[d].result
           /\ drain'[d].age = IF d \in Running THEN drain[d].age + 1
                                               ELSE drain[d].age
<1>1. drain[d] \in Drain
    BY DEF TypeOK
<1>2. drain'[d] = IF d \in Running THEN [drain[d] EXCEPT !.age = @ + 1]
                                    ELSE drain[d]
    BY DEF Tick
<1> QED
    BY <1>1, <1>2 DEF Drain

\* Only Mark leaves a row marked, and the next step of its drain settles it.
LEMMA CursorStep == TypeOK /\ Cursor /\ [Next]_vars => Cursor'
<1> SUFFICES ASSUME TypeOK, Cursor, [Next]_vars PROVE Cursor'
    OBVIOUS
<1> USE OutboxAssumption
<1>0. \A d \in Drains : drain[d] \in Drain
    BY DEF TypeOK
<1>1. CASE UNCHANGED drain
    BY <1>1 DEF Cursor
<1>2. ASSUME NEW d \in Drains, Skip(d) \/ Lose(d) \/ Commit(d) PROVE Cursor'
    <2>1. /\ drain'[d] = Idle
          /\ \A e \in Drains \ {d} : drain'[e] = drain[e]
        BY <1>2 DEF Skip, Lose, Commit, TypeOK
    <2> QED
        BY <2>1 DEF Cursor, Idle
<1>3. ASSUME NEW d \in Drains,
             Acquire(d) \/ CliDrain(d) \/ \E r \in Rows : CliRetry(d, r)
      PROVE  Cursor'
    <2>1. /\ drain[d].pc \notin {"rows", "mark", "send"}
          /\ \E p \in {"select", "acquire", "delete"} :
               drain' = [drain EXCEPT ![d].pc = p]
        BY <1>3 DEF Acquire, CliDrain, CliRetry
    <2>2. /\ drain'[d].pc \in {"select", "acquire", "delete"}
          /\ drain'[d].result = drain[d].result
          /\ \A e \in Drains \ {d} : drain'[e] = drain[e]
        BY <1>0, <2>1 DEF Drain, TypeOK
    <2> QED
        BY <2>1, <2>2 DEF Cursor
<1>4. ASSUME NEW d \in Drains, Select(d) PROVE Cursor'
    <2>1. PICK batch \in SUBSET Eligible :
            drain' = [drain EXCEPT
                        ![d].pc = "rows",
                        ![d].todo = batch,
                        ![d].seen = [r \in Rows |->
                                       IF r \in batch THEN row[r].attempts ELSE 0]]
        BY <1>4 DEF Select
    <2>2. /\ drain[d].pc = "select"
          /\ drain'[d].pc = "rows"
          /\ drain'[d].result = drain[d].result
          /\ \A e \in Drains \ {d} : drain'[e] = drain[e]
        BY <1>0, <1>4, <2>1 DEF Select, Drain, TypeOK
    <2> QED
        BY <2>2 DEF Cursor
<1>5. ASSUME NEW d \in Drains, NEW r \in Rows, Pick(d, r) PROVE Cursor'
    <2>1. /\ drain[d].pc = "rows"
          /\ drain'[d].cur = r
          /\ drain'[d].pc = "mark"
          /\ drain'[d].result = drain[d].result
          /\ \A e \in Drains \ {d} : drain'[e] = drain[e]
        BY <1>0, <1>5 DEF Pick, Drain, TypeOK
    <2> QED
        BY <2>1 DEF Cursor
<1>6. ASSUME NEW d \in Drains, Mark(d) PROVE Cursor'
    <2>1. /\ drain[d].pc = "mark"
          /\ drain'[d].cur = drain[d].cur
          /\ drain'[d].pc = "send"
          /\ drain'[d].result = [drain[d].result EXCEPT ![drain[d].cur] = "sending"]
          /\ \A e \in Drains \ {d} : drain'[e] = drain[e]
        BY <1>0, <1>6 DEF Mark, Drain, TypeOK
    <2> QED
        BY <1>0, <2>1 DEF Cursor, Drain
<1>7. ASSUME NEW d \in Drains, SendOk(d) \/ SendFails(d) PROVE Cursor'
    <2>1. PICK result \in {"sent", "pending", "deadlettered"} :
            Settled(d, result)
        BY <1>7 DEF SendOk, SendFails, AfterFailure
    <2>2. /\ drain[d].pc = "send"
          /\ drain'[d].pc = "rows"
          /\ drain'[d].result = [drain[d].result EXCEPT ![drain[d].cur] = result]
          /\ \A e \in Drains \ {d} : drain'[e] = drain[e]
        BY <1>0, <1>7, <2>1 DEF Settled, SendOk, SendFails, Drain, TypeOK
    <2> QED
        BY <1>0, <2>2 DEF Cursor, Drain
<1>8. ASSUME NEW d \in Drains, NEW r \in Rows, PassOver(d, r) PROVE Cursor'
    <2>1. /\ drain[d].pc = "rows" /\ drain'[d].pc = "rows"
          /\ drain'[d].result = drain[d].result
          /\ \A e \in Drains \ {d} : drain'[e] = drain[e]
        BY <1>0, <1>8 DEF PassOver, Drain, TypeOK
    <2> QED
        BY <2>1 DEF Cursor
<1>9. CASE Tick
    BY <1>9, Aged DEF Cursor
<1> QED
    BY <1>1, <1>2, <1>3, <1>4, <1>5, <1>6, <1>7, <1>8, <1>9
    DEF Next, vars, Enqueue, BecomeDue

\* A decision rests on the attempts loaded and on sends that happened; both
\* mails and failures only grow.
LEMMA EarnedStep ==
    TypeOK /\ Cursor /\ Earned /\ DeadletterEarned /\ [Next]_vars => Earned'
<1> SUFFICES ASSUME TypeOK, Cursor, Earned, DeadletterEarned, [Next]_vars
             PROVE  Earned'
    OBVIOUS
<1> USE OutboxAssumption
<1>0. /\ \A d \in Drains : drain[d] \in Drain
      /\ \A r \in Rows : row[r] \in Row /\ mails[r] \in Nat /\ failures[r] \in Nat
    BY DEF TypeOK
<1>1. CASE UNCHANGED <<drain, mails, failures>>
    BY <1>1 DEF Earned
<1>2. ASSUME NEW d \in Drains, Skip(d) \/ Lose(d) \/ Commit(d) PROVE Earned'
    <2>1. /\ drain'[d] = Idle
          /\ \A e \in Drains \ {d} : drain'[e] = drain[e]
          /\ UNCHANGED <<mails, failures>>
        BY <1>2 DEF Skip, Lose, Commit, TypeOK
    <2> QED
        BY <1>0, <2>1 DEF Earned, Idle
<1>3. ASSUME NEW d \in Drains,
             \/ Acquire(d) \/ CliDrain(d) \/ Mark(d)
             \/ \E r \in Rows : CliRetry(d, r) \/ Pick(d, r) \/ PassOver(d, r)
      PROVE  Earned'
    <2>1. /\ drain'[d].seen = drain[d].seen
          /\ \A r \in Rows : drain'[d].result[r] \in {drain[d].result[r], "sending"}
          /\ \A e \in Drains \ {d} : drain'[e] = drain[e]
        <3>1. CASE Acquire(d) \/ CliDrain(d) \/ \E r \in Rows : CliRetry(d, r)
            BY <1>0, <3>1 DEF Acquire, CliDrain, CliRetry, Drain, TypeOK
        <3>2. CASE \E r \in Rows : Pick(d, r) \/ PassOver(d, r)
            BY <1>0, <3>2 DEF Pick, PassOver, Drain, TypeOK
        <3>3. CASE Mark(d)
            BY <1>0, <3>3 DEF Mark, Drain, TypeOK
        <3> QED
            BY <1>3, <3>1, <3>2, <3>3
    <2>2. UNCHANGED <<mails, failures>>
        BY <1>3 DEF Acquire, CliDrain, CliRetry, Pick, PassOver, Mark
    <2> QED
        BY <2>1, <2>2 DEF Earned
<1>4. ASSUME NEW d \in Drains, Select(d) PROVE Earned'
    <2>1. PICK batch \in SUBSET Eligible :
            drain' = [drain EXCEPT
                        ![d].pc = "rows",
                        ![d].todo = batch,
                        ![d].seen = [r \in Rows |->
                                       IF r \in batch THEN row[r].attempts ELSE 0]]
        BY <1>4 DEF Select
    <2>2. /\ drain'[d].seen = [r \in Rows |->
                                 IF r \in batch THEN row[r].attempts ELSE 0]
          /\ drain'[d].result = drain[d].result
          /\ \A e \in Drains \ {d} : drain'[e] = drain[e]
        BY <1>0, <2>1 DEF Drain, TypeOK
    <2>3. drain[d].pc = "select" /\ UNCHANGED <<mails, failures>>
        BY <1>4 DEF Select
    <2>4. \A r \in Rows : drain'[d].result[r] = "none"
        BY <2>2, <2>3 DEF Cursor
    <2>5. \A r \in Rows : drain'[d].seen[r] <= failures[r]
        BY <1>0, <2>2 DEF DeadletterEarned
    <2> QED
        BY <2>2, <2>3, <2>4, <2>5 DEF Earned
<1>5. ASSUME NEW d \in Drains, SendOk(d) \/ SendFails(d) PROVE Earned'
    <2> DEFINE r == drain[d].cur
    <2>1. drain[d].pc = "send" /\ r \in Rows
        BY <1>5 DEF SendOk, SendFails, Cursor
    <2>2. PICK result \in {"sent", "pending", "deadlettered"} :
            /\ Settled(d, result)
            /\ \/ result = "sent" /\ SendOk(d)
               \/ result = AfterFailure(drain[d].seen[r]) /\ SendFails(d)
        BY <1>5 DEF SendOk, SendFails, AfterFailure
    <2>3. /\ drain'[d].seen = drain[d].seen
          /\ drain'[d].result = [drain[d].result EXCEPT ![r] = result]
          /\ \A e \in Drains \ {d} : drain'[e] = drain[e]
        BY <1>0, <2>2 DEF Settled, Drain, TypeOK
    <2>4. \A q \in Rows : mails'[q] >= mails[q] /\ failures'[q] >= failures[q]
        BY <1>0, <1>5 DEF SendOk, SendFails, TypeOK
    <2> QED
        BY <1>0, <2>1, <2>2, <2>3, <2>4
        DEF Earned, SendOk, SendFails, AfterFailure, Drain, TypeOK
<1>6. CASE Tick
    <2>1. UNCHANGED <<mails, failures>>
        BY <1>6 DEF Tick
    <2> QED
        BY <1>6, <2>1, Aged DEF Earned
<1> QED
    BY <1>1, <1>2, <1>3, <1>4, <1>5, <1>6 DEF Next, vars, Enqueue, BecomeDue

\* What a commit writes was earned by its drain; a reset row starts again.
LEMMA RowsStep ==
    IInv /\ [Next]_vars =>
        SentWasMailed' /\ DeadletterEarned' /\ MarkNeverCommitted'
<1> SUFFICES ASSUME IInv, [Next]_vars
             PROVE  \A r \in Rows :
                      /\ row'[r].status = "sent" => mails'[r] > 0
                      /\ row'[r].attempts <= failures'[r]
                      /\ row'[r].status = "deadlettered" =>
                           failures'[r] >= MaxAttempts
                      /\ row'[r].status # "sending"
    BY DEF SentWasMailed, DeadletterEarned, MarkNeverCommitted
<1> USE OutboxAssumption
<1>0. /\ \A d \in Drains : drain[d] \in Drain
      /\ \A r \in Rows : row[r] \in Row /\ mails[r] \in Nat /\ failures[r] \in Nat
    BY DEF IInv, TypeOK
<1>1. ASSUME NEW r \in Rows
      PROVE  /\ row[r].status = "sent" => mails[r] > 0
             /\ row[r].attempts <= failures[r]
             /\ row[r].status = "deadlettered" => failures[r] >= MaxAttempts
             /\ row[r].status # "sending"
    BY DEF IInv, SentWasMailed, DeadletterEarned, MarkNeverCommitted
<1>2. CASE UNCHANGED <<row, mails, failures>>
    BY <1>1, <1>2
<1>3. ASSUME NEW q \in Rows,
             Enqueue(q) \/ \E d \in Drains : CliRetry(d, q)
      PROVE  \A r \in Rows : /\ row'[r] = IF r = q THEN Queued ELSE row[r]
                             /\ UNCHANGED <<mails, failures>>
    BY <1>3 DEF Enqueue, CliRetry, IInv, TypeOK
<1>4. ASSUME NEW q \in Rows, BecomeDue(q)
      PROVE  \A r \in Rows : /\ row'[r].status = row[r].status
                             /\ row'[r].attempts = row[r].attempts
                             /\ UNCHANGED <<mails, failures>>
    BY <1>0, <1>4 DEF BecomeDue, IInv, TypeOK, Row
<1>5. ASSUME NEW d \in Drains, SendOk(d) \/ SendFails(d)
      PROVE  /\ UNCHANGED row
             /\ \A r \in Rows : mails'[r] >= mails[r] /\ failures'[r] >= failures[r]
             /\ \A r \in Rows : mails'[r] \in Nat /\ failures'[r] \in Nat
    BY <1>0, <1>5 DEF SendOk, SendFails, IInv, TypeOK
<1>6. ASSUME NEW d \in Drains, Commit(d), NEW r \in Rows
      PROVE  /\ row'[r].status = "sent" => mails'[r] > 0
             /\ row'[r].attempts <= failures'[r]
             /\ row'[r].status = "deadlettered" => failures'[r] >= MaxAttempts
             /\ row'[r].status # "sending"
    <2>1. row'[r] = Written(d, r) /\ UNCHANGED <<mails, failures>>
        BY <1>6 DEF Commit
    <2>2. drain[d].result[r] \in {"none", "sent", "pending", "deadlettered"}
        BY <1>0, <1>6 DEF Commit, IInv, Cursor, Drain
    <2>3. /\ drain[d].seen[r] \in Nat
          /\ drain[d].result[r] = "sent" => mails[r] > 0
          /\ drain[d].result[r] \in {"pending", "deadlettered"} =>
               drain[d].seen[r] + 1 <= failures[r]
          /\ drain[d].result[r] = "deadlettered" =>
               drain[d].seen[r] + 1 >= MaxAttempts
        BY <1>0 DEF IInv, Earned, Drain
    <2>4. CASE drain[d].result[r] = "none"
        BY <1>1, <2>1, <2>4 DEF Written
    <2>5. CASE drain[d].result[r] = "pending"
        BY <1>0, <2>1, <2>3, <2>5 DEF Written
    <2>6. CASE drain[d].result[r] = "deadlettered"
        <3>1. row'[r] = [row[r] EXCEPT !.status = "deadlettered",
                                       !.attempts = drain[d].seen[r] + 1]
            BY <2>1, <2>6 DEF Written
        <3>2. /\ row'[r].status = "deadlettered"
              /\ row'[r].attempts = drain[d].seen[r] + 1
            BY <1>0, <3>1 DEF Row
        <3> QED
            BY <1>0, <2>1, <2>3, <2>6, <3>2
    <2>7. CASE drain[d].result[r] = "sent"
        BY <1>0, <1>1, <2>1, <2>3, <2>7 DEF Written, Row
    <2> QED
        BY <2>2, <2>4, <2>5, <2>6, <2>7
<1>7. CASE \E q \in Rows : Enqueue(q) \/ \E d \in Drains : CliRetry(d, q)
    BY <1>0, <1>1, <1>3, <1>7 DEF Queued
<1>8. CASE \E q \in Rows : BecomeDue(q)
    BY <1>1, <1>4, <1>8
<1>9. CASE \E d \in Drains : SendOk(d) \/ SendFails(d)
    BY <1>0, <1>1, <1>5, <1>9 DEF Row
<1> QED
    BY <1>2, <1>6, <1>7, <1>8, <1>9
    DEF Next, vars, Acquire, Skip, Select, PassOver, Pick, Mark, Lose, CliDrain, Tick

\* The invariant is inductive.
LEMMA Inductive == IInv /\ [Next]_vars => IInv'
BY TypeStep, CursorStep, EarnedStep, RowsStep DEF IInv

\* Typing, for every number of rows and drains.
THEOREM TypeCorrect == Spec => []TypeOK
<1>1. IInv => TypeOK
    BY DEF IInv
<1> QED
    BY <1>1, InitIInv, Inductive, PTL DEF Spec

\* Whatever drains overlap or are lost, and whatever rows the operator
\* resets, a row the outbox calls sent was mailed.
THEOREM SentRowsWereMailed == Spec => []SentWasMailed
<1>1. IInv => SentWasMailed
    BY DEF IInv
<1> QED
    BY <1>1, InitIInv, Inductive, PTL DEF Spec

\* No row is given up before MaxAttempts sends of it failed, although the
\* attempts are counted from loaded values.
THEOREM DeadlettersAreEarned == Spec => []DeadletterEarned
<1>1. IInv => DeadletterEarned
    BY DEF IInv
<1> QED
    BY <1>1, InitIInv, Inductive, PTL DEF Spec

\* No committed row is ever in status sending: the recovery branch of the
\* drain's query selects nothing.
THEOREM MarksStayUncommitted == Spec => []MarkNeverCommitted
<1>1. IInv => MarkNeverCommitted
    BY DEF IInv
<1> QED
    BY <1>1, InitIInv, Inductive, PTL DEF Spec

-----------------------------------------------------------------------------
(* The Redis lock                                                          *)

\* A drain that has not set the key has no age.
IdleNew == \A d \in Drains : d \notin Running => drain[d].age = 0

\* Until a command deletes the key, a drain that is younger than the key's
\* life still holds it, for the rest of that life.
KeyInv ==
    /\ commands <= MaxCommands
    /\ IdleNew
    /\ \A d \in Drains : drain[d].age <= DrainTime
    /\ commands = 0 =>
         /\ \A d \in Drains : drain[d].pc \notin {"delete", "acquire"}
         /\ \A d \in Running : drain[d].age + lock >= LockTtl
    /\ DrainsKeepApart

\* At first no drain runs.
LEMMA InitKey == Init => KeyInv
BY OutboxAssumption
DEF Init, Idle, KeyInv, IdleNew, Running, DrainsKeepApart

\* The key and the drains only grow older, and the key is set when it has
\* expired: then every drain that runs has outlived it.
LEMMA KeyStep == TypeOK /\ KeyInv /\ [Next]_vars => KeyInv'
<1> SUFFICES ASSUME TypeOK, KeyInv, [Next]_vars PROVE KeyInv'
    OBVIOUS
<1> USE OutboxAssumption
<1>0. /\ \A d \in Drains : drain[d] \in Drain /\ drain[d].age \in Nat
      /\ lock \in Nat /\ commands \in Nat
    BY DEF TypeOK, Drain
<1>1. CASE UNCHANGED <<drain, lock, commands>>
    BY <1>1 DEF KeyInv, IdleNew, DrainsKeepApart, Running
<1>2. ASSUME NEW d \in Drains, Acquire(d) PROVE KeyInv'
    <2>1. /\ lock = 0 /\ lock' = LockTtl
          /\ drain[d].pc \in {"idle", "acquire"} /\ drain'[d].pc = "select"
          /\ drain'[d].age = drain[d].age
          /\ \A e \in Drains \ {d} : drain'[e] = drain[e]
          /\ UNCHANGED commands
        BY <1>0, <1>2 DEF Acquire, Drain, TypeOK
    <2>2. drain[d].age = 0
        BY <2>1 DEF KeyInv, IdleNew, Running
    <2>3. ASSUME NEW e \in Running, commands = 0
          PROVE  drain[e].age >= LockTtl
        BY <1>0, <2>1, <2>3 DEF KeyInv, Running
    <2>4. Running' = Running \cup {d} /\ d \notin Running
        BY <2>1 DEF Running
    <2>5. \A e \in Running : e # d /\ drain'[e] = drain[e]
        BY <2>1, <2>4 DEF Running
    <2>6. DrainsKeepApart'
        <3> SUFFICES ASSUME commands' = 0,
                            NEW e \in Running', NEW f \in Running', e # f
                     PROVE  \/ drain'[e].age >= drain'[f].age + LockTtl
                            \/ drain'[f].age >= drain'[e].age + LockTtl
            BY DEF DrainsKeepApart
        <3>1. commands = 0
            BY <2>1
        <3>2. CASE e # d /\ f # d
            BY <2>4, <2>5, <3>1, <3>2 DEF KeyInv, DrainsKeepApart
        <3>3. CASE e = d /\ f # d
            BY <2>1, <2>2, <2>3, <2>4, <2>5, <3>1, <3>3
        <3>4. CASE f = d /\ e # d
            BY <2>1, <2>2, <2>3, <2>4, <2>5, <3>1, <3>4
        <3> QED
            BY <3>2, <3>3, <3>4
    <2>7. \A e \in Drains : drain'[e].age <= DrainTime
        BY <2>1 DEF KeyInv
    <2>8. commands' <= MaxCommands
        BY <2>1 DEF KeyInv
    <2>9. ASSUME commands' = 0
          PROVE  /\ \A e \in Drains : drain'[e].pc \notin {"delete", "acquire"}
                 /\ \A e \in Running' : drain'[e].age + lock' >= LockTtl
        <3>1. \A e \in Drains : drain'[e].pc \notin {"delete", "acquire"}
            BY <2>1, <2>9 DEF KeyInv
        <3>2. \A e \in Running' : drain'[e].age + LockTtl >= LockTtl
            BY <1>0, <2>1 DEF Running
        <3> QED
            BY <2>1, <3>1, <3>2
    <2>10. IdleNew'
        BY <2>1, <2>4 DEF KeyInv, IdleNew
    <2> QED
        BY <2>6, <2>7, <2>8, <2>9, <2>10 DEF KeyInv
<1>3. ASSUME NEW d \in Drains, Skip(d) \/ Lose(d) \/ Commit(d) PROVE KeyInv'
    <2>1. /\ drain'[d].pc = "idle" /\ drain'[d].age = 0
          /\ \A e \in Drains \ {d} : drain'[e] = drain[e]
          /\ UNCHANGED <<lock, commands>>
        BY <1>3 DEF Skip, Lose, Commit, Idle, TypeOK
    <2>2. \A e \in Running' : e \in Running /\ drain'[e] = drain[e]
        BY <2>1 DEF Running
    <2>3. IdleNew'
        BY <2>1 DEF KeyInv, IdleNew, Running
    <2>4. DrainsKeepApart'
        BY <2>1, <2>2 DEF KeyInv, DrainsKeepApart
    <2>5. \A e \in Drains : drain'[e].age <= DrainTime
        BY <2>1, OutboxAssumption DEF KeyInv
    <2> QED
        BY <2>1, <2>2, <2>3, <2>4, <2>5 DEF KeyInv
<1>4. ASSUME NEW d \in Drains,
             \/ Select(d) \/ Mark(d) \/ SendOk(d) \/ SendFails(d)
             \/ \E r \in Rows : PassOver(d, r) \/ Pick(d, r)
      PROVE  KeyInv'
    <2>1. /\ drain[d].pc \in {"select", "rows", "mark", "send"}
          /\ drain'[d].pc \in {"rows", "mark", "send"}
          /\ drain'[d].age = drain[d].age
          /\ \A e \in Drains \ {d} : drain'[e] = drain[e]
          /\ UNCHANGED <<lock, commands>>
        <3>1. CASE Select(d)
            BY <1>0, <3>1 DEF Select, Drain, TypeOK
        <3>2. CASE Mark(d)
            BY <1>0, <3>2 DEF Mark, Drain, TypeOK
        <3>3. CASE SendOk(d) \/ SendFails(d)
            BY <1>0, <3>3 DEF SendOk, SendFails, Settled, Drain, TypeOK
        <3>4. CASE \E r \in Rows : PassOver(d, r) \/ Pick(d, r)
            BY <1>0, <3>4 DEF Pick, PassOver, Drain, TypeOK
        <3> QED
            BY <1>4, <3>1, <3>2, <3>3, <3>4
    <2>2. Running' = Running /\ \A e \in Drains : drain'[e].age = drain[e].age
        BY <2>1 DEF Running
    <2> QED
        BY <2>1, <2>2 DEF KeyInv, IdleNew, DrainsKeepApart, Running
<1>5. CASE Tick
    <2>1. /\ lock' \in Nat /\ lock' >= lock - 1 /\ UNCHANGED commands
          /\ \A d \in Running : drain[d].age < DrainTime
        BY <1>0, <1>5 DEF Tick
    <2>2. Running' = Running
        BY <1>5, Aged DEF Running
    <2>3. \A d \in Running : drain'[d].age = drain[d].age + 1
        BY <1>5, Aged DEF Running
    <2>4. \A d \in Drains : drain'[d].age <= DrainTime
        BY <1>0, <1>5, <2>1, Aged DEF KeyInv
    <2>5. ASSUME commands = 0, NEW d \in Running
          PROVE  drain'[d].age + lock' >= LockTtl
        <3>1. drain[d].age + lock >= LockTtl /\ drain[d].age \in Nat
            BY <1>0, <2>5 DEF KeyInv, Running
        <3> QED
            BY <1>0, <2>1, <2>3, <3>1
    <2>6. ASSUME commands = 0, NEW d \in Running, NEW e \in Running, d # e
          PROVE  \/ drain'[d].age >= drain'[e].age + LockTtl
                 \/ drain'[e].age >= drain'[d].age + LockTtl
        <3>1. \/ drain[d].age >= drain[e].age + LockTtl
              \/ drain[e].age >= drain[d].age + LockTtl
            BY <2>6 DEF KeyInv, DrainsKeepApart
        <3>2. drain[d].age \in Nat /\ drain[e].age \in Nat
            BY <1>0 DEF Running
        <3> QED
            BY <2>3, <3>1, <3>2
    <2>7. DrainsKeepApart'
        BY <2>1, <2>2, <2>6 DEF DrainsKeepApart
    <2>8. commands' = 0 =>
             /\ \A d \in Drains : drain'[d].pc \notin {"delete", "acquire"}
             /\ \A d \in Running' : drain'[d].age + lock' >= LockTtl
        BY <1>5, <2>1, <2>2, <2>5, Aged DEF KeyInv
    <2>9. IdleNew'
        BY <1>5, <2>2, Aged DEF KeyInv, IdleNew
    <2> QED
        BY <2>1, <2>4, <2>7, <2>8, <2>9 DEF KeyInv
<1>6. ASSUME NEW d \in Drains, CliDrain(d) \/ \E r \in Rows : CliRetry(d, r)
      PROVE  KeyInv'
    <2>1. /\ drain'[d].age = drain[d].age
          /\ drain[d].pc \in {"idle", "delete"}
          /\ drain'[d].pc \in {"acquire", "delete"}
          /\ \A e \in Drains \ {d} : drain'[e] = drain[e]
        BY <1>0, <1>6 DEF CliDrain, CliRetry, Drain, TypeOK
    <2>2. commands' # 0 /\ commands' <= MaxCommands
        <3>1. CASE drain[d].pc = "delete" /\ CliDrain(d)
            BY <1>0, <3>1 DEF CliDrain, KeyInv
        <3>2. CASE commands < MaxCommands /\ commands' = commands + 1
            BY <1>0, <3>2
        <3> QED
            BY <1>6, <3>1, <3>2 DEF CliDrain, CliRetry
    <2>3. IdleNew'
        BY <2>1 DEF KeyInv, IdleNew, Running
    <2>4. \A e \in Drains : drain'[e].age <= DrainTime
        BY <2>1 DEF KeyInv
    <2> QED
        BY <2>2, <2>3, <2>4 DEF KeyInv, DrainsKeepApart
<1> QED
    BY <1>1, <1>2, <1>3, <1>4, <1>5, <1>6 DEF Next, vars, Enqueue, BecomeDue

\* Without a command, a drain starts beside another one only when that one
\* has outlived the key: for any number of drains, and whatever the key's
\* life and the drains' time are to each other.
THEOREM DrainsStayApart == Spec => []DrainsKeepApart
<1>1. Init => IInv /\ KeyInv
    BY InitIInv, InitKey
<1>2. IInv /\ KeyInv /\ [Next]_vars => (IInv /\ KeyInv)'
    BY Inductive, KeyStep DEF IInv
<1>3. KeyInv => DrainsKeepApart
    BY DEF KeyInv
<1> QED
    BY <1>1, <1>2, <1>3, PTL DEF Spec

-----------------------------------------------------------------------------
(* What the lock gives when every drain ends before the key expires, and   *)
(* nobody deletes it: the outbox implements MailOutbox.  A second drain    *)
(* could otherwise close a row that the first one has closed already.      *)

Prompt == DrainTime < LockTtl /\ MaxCommands = 0

\* The drain that runs is the only one.
LockInv ==
    /\ \A d \in Drains : drain[d].pc \notin {"delete", "acquire"}
    /\ \A d, e \in Drains :
         drain[d].pc # "idle" /\ drain[e].pc # "idle" => d = e

\* A second drain would be younger than the first by the key's life.
LEMMA PromptDrainsAreAlone == Prompt /\ TypeOK /\ KeyInv => LockInv
<1> SUFFICES ASSUME Prompt, TypeOK, KeyInv PROVE LockInv
    OBVIOUS
<1> USE OutboxAssumption
<1>0. \A d \in Drains : drain[d] \in Drain /\ drain[d].age \in Nat
    BY DEF TypeOK, Drain
<1>1. commands = 0
    BY DEF Prompt, TypeOK, KeyInv
<1>2. \A d \in Drains : drain[d].pc \notin {"delete", "acquire"}
    BY <1>1 DEF KeyInv
<1>3. ASSUME NEW d \in Drains, NEW e \in Drains,
             drain[d].pc # "idle", drain[e].pc # "idle", d # e
      PROVE  FALSE
    <2>1. d \in Running /\ e \in Running
        BY <1>0, <1>2, <1>3 DEF Running, Drain
    <2>2. \/ drain[d].age >= drain[e].age + LockTtl
          \/ drain[e].age >= drain[d].age + LockTtl
        BY <1>1, <1>3, <2>1 DEF KeyInv, DrainsKeepApart
    <2>3. drain[d].age <= DrainTime /\ drain[e].age <= DrainTime
        BY DEF KeyInv
    <2> QED
        BY <1>0, <2>2, <2>3 DEF Prompt
<1> QED
    BY <1>2, <1>3 DEF LockInv

\* The rows of a batch are pending until the commit; only mails are worked on.
BatchInv ==
    \A d \in Drains :
        /\ drain[d].pc \in {"idle", "select"} => drain[d].todo = {}
        /\ drain[d].pc \in {"mark", "send"} =>
             drain[d].cur \in drain[d].todo \ Foreign
        /\ \A r \in Rows :
             r \in drain[d].todo \/ drain[d].result[r] # "none" =>
               row[r].status = "pending"

\* Outside of a batch only absent rows change status, and a commit, which
\* changes the status of its own rows, leaves no other drain running.
LEMMA BatchStep ==
    Prompt /\ IInv /\ LockInv /\ BatchInv /\ [Next]_vars => BatchInv'
<1> SUFFICES ASSUME Prompt, IInv, LockInv, BatchInv, [Next]_vars
             PROVE  BatchInv'
    OBVIOUS
<1>0. /\ TypeOK
      /\ \A d \in Drains : drain[d] \in Drain
      /\ \A r \in Rows : row[r] \in Row
    BY DEF IInv, TypeOK
<1>1. CASE UNCHANGED <<drain, row>>
    BY <1>1 DEF BatchInv
<1>2. ASSUME NEW q \in Rows, Enqueue(q) \/ BecomeDue(q) PROVE BatchInv'
    <2>1. \A r \in Rows : row[r].status = "pending" => row'[r].status = "pending"
        BY <1>0, <1>2 DEF Enqueue, BecomeDue, Queued, Row, TypeOK
    <2>2. UNCHANGED drain
        BY <1>2 DEF Enqueue, BecomeDue
    <2> QED
        BY <2>1, <2>2 DEF BatchInv
<1>3. ASSUME NEW d \in Drains, Acquire(d) PROVE BatchInv'
    <2>1. /\ drain[d].pc = "idle" /\ drain'[d].pc = "select"
          /\ drain'[d].todo = drain[d].todo
          /\ drain'[d].result = drain[d].result
          /\ \A e \in Drains \ {d} : drain'[e] = drain[e]
          /\ UNCHANGED row
        BY <1>0, <1>3 DEF Acquire, Drain, TypeOK, LockInv
    <2> QED
        BY <2>1 DEF BatchInv
<1>4. ASSUME NEW d \in Drains, Lose(d) PROVE BatchInv'
    <2>1. /\ drain'[d] = Idle /\ UNCHANGED row
          /\ \A e \in Drains \ {d} : drain'[e] = drain[e]
        BY <1>0, <1>4 DEF Lose, TypeOK
    <2> QED
        BY <2>1 DEF BatchInv, Idle
<1>5. ASSUME NEW d \in Drains, Commit(d) PROVE BatchInv'
    <2>1. \A e \in Drains \ {d} : drain[e].pc = "idle"
        BY <1>5 DEF Commit, LockInv
    <2>2. /\ drain'[d] = Idle
          /\ \A e \in Drains \ {d} : drain'[e] = drain[e]
        BY <1>0, <1>5 DEF Commit, TypeOK
    <2>3. \A e \in Drains : /\ drain'[e].pc = "idle"
                            /\ drain'[e].todo = {}
                            /\ \A r \in Rows : drain'[e].result[r] = "none"
        BY <2>1, <2>2 DEF Idle, BatchInv, IInv, Cursor
    <2> QED
        BY <2>3 DEF BatchInv
<1>6. ASSUME NEW d \in Drains, Select(d) PROVE BatchInv'
    <2>1. /\ drain[d].pc = "select" /\ drain'[d].pc = "rows"
          /\ drain'[d].todo \subseteq Eligible
          /\ drain'[d].result = drain[d].result
          /\ \A e \in Drains \ {d} : drain'[e] = drain[e]
          /\ UNCHANGED row
        BY <1>0, <1>6 DEF Select, Drain, TypeOK
    <2>2. \A r \in Eligible : row[r].status = "pending"
        BY DEF Eligible, IInv, MarkNeverCommitted
    <2> QED
        BY <2>1, <2>2 DEF BatchInv
<1>7. ASSUME NEW d \in Drains, NEW r \in Rows, Pick(d, r) PROVE BatchInv'
    <2>1. /\ r \in drain[d].todo \ Foreign
          /\ drain'[d].pc = "mark" /\ drain'[d].cur = r
          /\ drain'[d].todo = drain[d].todo
          /\ drain'[d].result = drain[d].result
          /\ \A e \in Drains \ {d} : drain'[e] = drain[e]
          /\ UNCHANGED row
        BY <1>0, <1>7 DEF Pick, Drain, TypeOK
    <2> QED
        BY <2>1 DEF BatchInv
<1>8. ASSUME NEW d \in Drains, Mark(d) PROVE BatchInv'
    <2>1. /\ drain[d].pc = "mark" /\ drain'[d].pc = "send"
          /\ drain'[d].cur = drain[d].cur
          /\ drain'[d].todo = drain[d].todo
          /\ \A r \in Rows : r # drain[d].cur =>
               drain'[d].result[r] = drain[d].result[r]
          /\ \A e \in Drains \ {d} : drain'[e] = drain[e]
          /\ UNCHANGED row
        BY <1>0, <1>8 DEF Mark, Drain, TypeOK
    <2> QED
        BY <2>1 DEF BatchInv
<1>9. ASSUME NEW d \in Drains, SendOk(d) \/ SendFails(d) PROVE BatchInv'
    <2>1. /\ drain[d].pc = "send" /\ drain'[d].pc = "rows"
          /\ drain'[d].todo \subseteq drain[d].todo
          /\ \A r \in Rows : r # drain[d].cur =>
               drain'[d].result[r] = drain[d].result[r]
          /\ \A e \in Drains \ {d} : drain'[e] = drain[e]
          /\ UNCHANGED row
        BY <1>0, <1>9 DEF SendOk, SendFails, Settled, Drain, TypeOK
    <2> QED
        BY <2>1 DEF BatchInv
<1>10. ASSUME NEW d \in Drains, NEW r \in Rows, PassOver(d, r) PROVE BatchInv'
    <2>1. /\ drain[d].pc = "rows" /\ drain'[d].pc = "rows"
          /\ drain'[d].todo \subseteq drain[d].todo
          /\ drain'[d].result = drain[d].result
          /\ \A e \in Drains \ {d} : drain'[e] = drain[e]
          /\ UNCHANGED row
        BY <1>0, <1>10 DEF PassOver, Drain, TypeOK
    <2> QED
        BY <2>1 DEF BatchInv
<1>11. CASE Tick
    <2>1. UNCHANGED row
        BY <1>11 DEF Tick
    <2> QED
        BY <1>0, <1>11, <2>1, Aged DEF BatchInv
<1>12. \A d \in Drains : ~Skip(d)
    BY DEF LockInv, Skip
<1>13. ASSUME NEW d \in Drains, CliDrain(d) \/ \E r \in Rows : CliRetry(d, r)
       PROVE  FALSE
    BY <1>0, <1>13, OutboxAssumption DEF CliDrain, CliRetry, LockInv, Prompt, TypeOK
<1> QED
    BY <1>1, <1>2, <1>3, <1>4, <1>5, <1>6, <1>7, <1>8, <1>9, <1>10, <1>11, <1>12,
       <1>13
    DEF Next, vars

\* The invariants hold initially.
LEMMA InitBatch == Init => BatchInv
BY DEF Init, Idle, BatchInv

-----------------------------------------------------------------------------
(* The refinement *)

\* A step that leaves the status of every row, its mails and its failures
\* alone is a stutter of the mailbox.
LEMMA Stutter ==
    ASSUME TypeOK, TypeOK', UNCHANGED <<mails, failures>>,
           \A r \in Rows : row'[r].status = row[r].status
    PROVE  [Mailbox!Next]_<<[r \in Rows |-> StateOf(r)], mails, failures>>
<1>1. [r \in Rows |-> StateOf(r)]' = [r \in Rows |-> StateOf(r)]
    BY DEF StateOf
<1> QED
    BY <1>1

\* The initial states map to initial states.
LEMMA RefineInit == Init => Mailbox!Init
BY DEF Init, Absent, StateOf, Mailbox!Init

\* Every step is a step of the mailbox or a stutter.
LEMMA RefineStep ==
    Prompt /\ IInv /\ IInv' /\ LockInv /\ BatchInv /\ [Next]_vars =>
        [Mailbox!Next]_<<[r \in Rows |-> StateOf(r)], mails, failures>>
<1> SUFFICES ASSUME Prompt, IInv, IInv', LockInv, BatchInv, [Next]_vars
             PROVE  [Mailbox!Next]_<<[r \in Rows |-> StateOf(r)], mails, failures>>
    OBVIOUS
<1> DEFINE state == [r \in Rows |-> StateOf(r)]
<1> USE OutboxAssumption
<1>0. /\ TypeOK /\ TypeOK'
      /\ \A d \in Drains : drain[d] \in Drain
      /\ \A r \in Rows : row[r] \in Row
      /\ \A r \in Rows : row[r].status # "sending" /\ row'[r].status # "sending"
    BY DEF IInv, TypeOK, MarkNeverCommitted
<1>1. CASE UNCHANGED <<row, mails, failures>>
    BY <1>0, <1>1, Stutter
<1>2. ASSUME NEW r \in Rows, Enqueue(r) PROVE Mailbox!Next
    <2>1. state[r] = "absent"
        BY <1>2 DEF Enqueue, StateOf
    <2>2. state' = [state EXCEPT ![r] = "queued"]
        BY <1>0, <1>2 DEF Enqueue, StateOf, Queued, TypeOK
    <2>3. Mailbox!Enqueue(r)
        BY <1>2, <2>1, <2>2 DEF Enqueue, Mailbox!Enqueue
    <2> QED
        BY <2>3 DEF Mailbox!Next
<1>3. ASSUME NEW r \in Rows, BecomeDue(r)
      PROVE  [Mailbox!Next]_<<state, mails, failures>>
    <2>1. \A q \in Rows : row'[q].status = row[q].status
        BY <1>0, <1>3 DEF BecomeDue, Row, TypeOK
    <2>2. UNCHANGED <<mails, failures>>
        BY <1>3 DEF BecomeDue
    <2> QED
        BY <1>0, <2>1, <2>2, Stutter
<1>4. ASSUME NEW d \in Drains, SendOk(d) \/ SendFails(d) PROVE Mailbox!Next
    <2> DEFINE r == drain[d].cur
    <2>1. r \in Rows \ Foreign /\ row[r].status = "pending"
        BY <1>4 DEF SendOk, SendFails, IInv, Cursor, BatchInv
    <2>2. state[r] = "queued"
        BY <2>1 DEF StateOf
    <2>3. state' = state
        BY <1>4 DEF SendOk, SendFails, StateOf
    <2>4. CASE SendOk(d)
        <3>1. Mailbox!Mail(r)
            BY <2>1, <2>2, <2>3, <2>4 DEF SendOk, Mailbox!Mail
        <3> QED
            BY <2>1, <3>1 DEF Mailbox!Next
    <2>5. CASE SendFails(d)
        <3>1. Mailbox!Fail(r)
            BY <2>1, <2>2, <2>3, <2>5 DEF SendFails, Mailbox!Fail
        <3> QED
            BY <2>1, <3>1 DEF Mailbox!Next
    <2> QED
        BY <1>4, <2>4, <2>5
<1>5. ASSUME NEW d \in Drains, Commit(d) PROVE Mailbox!Next
    <2> DEFINE sent == {r \in Rows : drain[d].result[r] = "sent"}
               dead == {r \in Rows : drain[d].result[r] = "deadlettered"}
    <2>1. ASSUME NEW r \in Rows, drain[d].result[r] # "none"
          PROVE  state[r] = "queued"
        BY <2>1 DEF BatchInv, StateOf
    <2>2. \A r \in sent : state[r] = "queued" /\ mails[r] > 0
        BY <2>1 DEF IInv, Earned
    <2>3. \A r \in dead : state[r] = "queued" /\ failures[r] >= MaxAttempts
        <3>1. \A r \in dead : /\ drain[d].seen[r] \in Nat
                              /\ failures[r] \in Nat
                              /\ drain[d].seen[r] + 1 <= failures[r]
                              /\ drain[d].seen[r] + 1 >= MaxAttempts
            BY <1>0 DEF IInv, Earned, Drain, TypeOK
        <3> QED
            BY <2>1, <3>1
    <2>4. ASSUME NEW r \in Rows
          PROVE  state'[r] = IF r \in sent THEN "sent"
                             ELSE IF r \in dead THEN "dead" ELSE state[r]
        <3>1. row'[r] = Written(d, r)
            BY <1>5 DEF Commit
        <3>2. drain[d].result[r] \in {"none", "sent", "pending", "deadlettered"}
            BY <1>0, <1>5 DEF Commit, IInv, Cursor, Drain
        <3>3. row'[r].status = IF drain[d].result[r] = "none" THEN row[r].status
                               ELSE drain[d].result[r]
            <4>1. CASE drain[d].result[r] = "none"
                BY <3>1, <4>1 DEF Written
            <4>2. CASE drain[d].result[r] = "pending"
                BY <3>1, <4>2 DEF Written
            <4>3. CASE drain[d].result[r] = "deadlettered"
                <5>1. row'[r] = [row[r] EXCEPT !.status = "deadlettered",
                                               !.attempts = drain[d].seen[r] + 1]
                    BY <3>1, <4>3 DEF Written
                <5> QED
                    BY <1>0, <4>3, <5>1 DEF Row
            <4>4. CASE drain[d].result[r] = "sent"
                BY <1>0, <3>1, <4>4 DEF Written, Row
            <4> QED
                BY <3>2, <4>1, <4>2, <4>3, <4>4
        <3>4. drain[d].result[r] = "pending" => state[r] = "queued"
            BY <2>1
        <3> QED
            BY <3>2, <3>3, <3>4 DEF StateOf
    <2>5. state' = [r \in Rows |-> IF r \in sent THEN "sent"
                                   ELSE IF r \in dead THEN "dead" ELSE state[r]]
        BY <2>4
    <2>6. Mailbox!CloseRows(sent, dead)
        BY <1>5, <2>2, <2>3, <2>5 DEF Commit, Mailbox!CloseRows
    <2> QED
        BY <2>6 DEF Mailbox!Next
<1>6. \A d \in Drains : ~Skip(d)
    BY DEF LockInv, Skip
<1>7. ASSUME NEW d \in Drains, CliDrain(d) \/ \E r \in Rows : CliRetry(d, r)
      PROVE  FALSE
    BY <1>0, <1>7 DEF CliDrain, CliRetry, LockInv, Prompt, TypeOK
<1> QED
    BY <1>1, <1>2, <1>3, <1>4, <1>5, <1>6, <1>7
    DEF Next, vars, Acquire, Select, PassOver, Pick, Mark, Lose, Tick

\* As long as each drain ends within the key's lifetime, batches, deferred
\* commits and lost drains implement the mailbox: a row is mailed only while
\* it is queued, and a closed row stays closed.
THEOREM OutboxImplementsMailbox ==
    ASSUME Prompt PROVE Spec => ImplementsMailbox
<1>1. Init => IInv /\ KeyInv /\ BatchInv
    BY InitIInv, InitKey, InitBatch
<1>2. IInv /\ KeyInv => LockInv
    BY PromptDrainsAreAlone DEF IInv
<1>3. IInv /\ KeyInv /\ BatchInv /\ [Next]_vars
        => (IInv /\ KeyInv /\ BatchInv)'
    BY <1>2, Inductive, KeyStep, BatchStep DEF IInv
<1>4. IInv /\ KeyInv /\ BatchInv /\ IInv' /\ [Next]_vars
        => [Mailbox!Next]_<<[r \in Rows |-> StateOf(r)], mails, failures>>
    BY <1>2, RefineStep
<1> QED
    BY <1>1, <1>3, <1>4, RefineInit, PTL DEF Spec, ImplementsMailbox, Mailbox!Spec
=============================================================================
