-------------------------- MODULE PixBillingProofs --------------------------
(***************************************************************************)
(* Theorems about PixBilling for any number of instalments and charges.    *)
(*                                                                         *)
(* The first part holds for any number of sessions, interleaved in any     *)
(* way.  What a session loaded may be stale, but three things never are: a *)
(* charge row that exists, the instalment a charge belongs to, and a       *)
(* payment the PSP received.  The invariant rests on these (the lemma      *)
(* Stable), and on nothing a session read that may have changed since.     *)
(*                                                                         *)
(* The last part assumes that no two sessions are open at one time, which  *)
(* the code does not enforce: what a session loaded is then still so when  *)
(* it commits (Current), and the sessions implement the ledger.            *)
(***************************************************************************)
EXTENDS PixBilling, TLAPS, FiniteSetTheorems

Exists(c) == charge[c].status # "absent"

\* A row names the instalment the PSP knows its charge by.
Booked ==
    \A c \in Charges : Exists(c) =>
        /\ charge[c].parcela \in Parcelas
        /\ charge[c].parcela = psp[c].parcela
        /\ psp[c].status # "unknown"

\* Whatever is handed out, paid or pointed at has a row.
Known ==
    /\ \A c \in handed : Exists(c)
    /\ \A c \in Charges : psp[c].status = "paid" => c \in handed
    /\ \A p \in Parcelas : parcela[p].last # None => Exists(parcela[p].last)

\* What a session carries from step to step.
CarriedBy(s) ==
    /\ s.pc \in {"ensure", "cancelOld", "create", "store"} => s.p \in Parcelas
    /\ s.pc = "cancelOld" => s.last # None
    /\ s.last # None => Exists(s.last)
    /\ s.pc = "store" => /\ s.c \in Charges
                         /\ psp[s.c].parcela = s.p
                         /\ psp[s.c].status # "unknown"
    /\ s.pc \in {"webhook", "settle"} =>
         /\ s.c \in Charges /\ s.p \in Parcelas
         /\ Exists(s.c)
         /\ psp[s.c].status = "paid"
         /\ charge[s.c].parcela = s.p
    /\ s.pc = "expire" => s.c \in Charges /\ Exists(s.c)
    /\ \A c \in s.todo \cup s.done : Exists(c)

Carried == \A w \in Workers : CarriedBy(sess[w])

\* Rates were decided on a day past the grace period, and days only pass.
RatesCarried ==
    \A w \in Workers : sess[w].rates =>
        /\ sess[w].p \in Parcelas
        /\ today > Due[sess[w].p] + Carencia

RatesBooked ==
    \A c \in Charges : charge[c].rates => charge[c].parcela \in Parcelas

IInv ==
    /\ TypeOK
    /\ Booked
    /\ Known
    /\ Carried
    /\ PaidIsBacked
    /\ RatesCarried /\ RatesBooked /\ NoRatesWithinGrace

-----------------------------------------------------------------------------
\* The initial states satisfy every part of the invariant.
LEMMA InitIInv == Init => IInv
<1> SUFFICES ASSUME Init PROVE IInv
    OBVIOUS
<1> USE BillingAssumption DEF Init, Closed, NoRow
<1>1. TypeOK
    <2>1. NoRow \in ChargeRow /\ Closed \in Session
        BY DEF ChargeRow, ChargeStatus, Session, ParcelaStatus
    <2>2. [status |-> "open", last |-> None] \in ParcelaRow
        BY DEF ParcelaRow, ParcelaStatus
    <2>3. [status |-> "unknown", parcela |-> None, born |-> 0] \in PspRow
        BY DEF PspRow
    <2> QED
        BY <2>1, <2>2, <2>3 DEF TypeOK
<1>2. Booked /\ Known /\ Carried
    BY DEF Booked, Known, Carried, CarriedBy, Exists
<1>3. PaidIsBacked
    BY DEF PaidIsBacked
<1>4. RatesCarried /\ RatesBooked /\ NoRatesWithinGrace
    BY DEF RatesCarried, RatesBooked, NoRatesWithinGrace
<1> QED
    BY <1>1, <1>2, <1>3, <1>4 DEF IInv

-----------------------------------------------------------------------------
(* Typing *)

\* Replacing one session by a well-typed one.
LEMMA SessTyped ==
    ASSUME TypeOK, NEW w \in Workers, NEW S \in Session,
           sess' = [sess EXCEPT ![w] = S]
    PROVE  sess' \in [Workers -> Session]
BY DEF TypeOK

\* A call to cancel a charge keeps the PSP's records well-typed.
LEMMA PspCancelTyped ==
    ASSUME TypeOK, NEW c, PspCancel(c)
    PROVE  psp' \in [Charges -> PspRow] /\ faults' \in Nat
<1>1. CASE /\ psp' = [psp EXCEPT
                        ![c].status = IF @ = "active" THEN "removed" ELSE @]
           /\ UNCHANGED faults
    <2>1. ASSUME c \in Charges
          PROVE  [psp[c] EXCEPT !.status =
                    IF @ = "active" THEN "removed" ELSE @] \in PspRow
        BY <2>1 DEF TypeOK, PspRow
    <2> QED
        BY <1>1, <2>1 DEF TypeOK
<1>2. CASE faults < MaxFaults /\ faults' = faults + 1 /\ UNCHANGED psp
    BY <1>2 DEF TypeOK
<1> QED
    BY <1>1, <1>2 DEF PspCancel

\* Typing is inductive, given what a session carries.
LEMMA TypeStep == TypeOK /\ Carried /\ [Next]_vars => TypeOK'
<1> SUFFICES ASSUME TypeOK, Carried, [Next]_vars PROVE TypeOK'
    OBVIOUS
<1> USE BillingAssumption
<1>0. /\ Closed \in Session
      /\ \A w \in Workers : sess[w] \in Session
      /\ \A p \in Parcelas : parcela[p] \in ParcelaRow
      /\ \A c \in Charges : charge[c] \in ChargeRow /\ psp[c] \in PspRow
    BY DEF TypeOK, Closed, Session, ParcelaStatus
<1>1. CASE UNCHANGED vars
    BY <1>1 DEF vars, TypeOK
<1>2. ASSUME NEW w \in Workers, NEW p \in Parcelas, StartCharge(w, p)
      PROVE  TypeOK'
    <2>1. [Closed EXCEPT !.pc = "ensure", !.p = p,
                         !.status = parcela[p].status,
                         !.last = parcela[p].last] \in Session
        BY <1>0 DEF Session, ParcelaRow
    <2>2. sess' \in [Workers -> Session]
        BY <1>2, <2>1, SessTyped DEF StartCharge, Open
    <2> QED
        BY <1>2, <2>2 DEF StartCharge, TypeOK
<1>3. ASSUME NEW w \in Workers, ReturnExisting(w) PROVE TypeOK'
    <2>1. sess' \in [Workers -> Session]
        BY <1>0, <1>3, SessTyped DEF ReturnExisting, Close
    <2>2. sess[w].last \in Charges
        BY <1>0, <1>3 DEF ReturnExisting, Session
    <2> QED
        BY <1>3, <2>1, <2>2 DEF ReturnExisting, TypeOK
<1>4. ASSUME NEW w \in Workers, ReplaceExisting(w) PROVE TypeOK'
    <2> DEFINE rates == PastGrace(sess[w].p, sess[w].status)
               stale == sess[w].last # None /\ Flipped(sess[w].last) = "pending"
               lapsed == /\ sess[w].last # None
                         /\ charge[sess[w].last].status # Flipped(sess[w].last)
               pc == IF stale THEN "cancelOld" ELSE "create"
               flip == IF lapsed THEN "expired" ELSE "pending"
    <2>1. rates \in BOOLEAN
        BY DEF PastGrace
    <2>2. pc \in {"cancelOld", "create"} /\ flip \in {"expired", "pending"}
        OBVIOUS
    <2>3. sess' = [sess EXCEPT ![w].pc = pc, ![w].rates = rates, ![w].flip = flip]
        BY <1>4, Zenon DEF ReplaceExisting
    <2> HIDE DEF rates, pc, flip
    <2>4. sess' = [sess EXCEPT ![w] = [sess[w] EXCEPT !.pc = pc,
                        !.rates = rates, !.flip = flip]]
        BY <2>3
    <2>5. [sess[w] EXCEPT !.pc = pc, !.rates = rates, !.flip = flip] \in Session
        BY <1>0, <2>1, <2>2 DEF Session
    <2>6. sess' \in [Workers -> Session]
        BY <2>4, <2>5, SessTyped
    <2> QED
        BY <1>4, <2>6 DEF ReplaceExisting, TypeOK
<1>5. ASSUME NEW w \in Workers, CancelStale(w) PROVE TypeOK'
    <2>1. sess' = [sess EXCEPT ![w] = [sess[w] EXCEPT !.pc = "create",
                                                      !.flip = "canceled"]]
        BY <1>5 DEF CancelStale
    <2>2. [sess[w] EXCEPT !.pc = "create", !.flip = "canceled"] \in Session
        BY <1>0 DEF Session
    <2>3. sess' \in [Workers -> Session]
        BY <2>1, <2>2, SessTyped
    <2> QED
        BY <1>5, <2>3, PspCancelTyped DEF CancelStale, TypeOK
<1>6. ASSUME NEW w \in Workers PROVE AtPsp(sess[w].p) \in PspRow
    BY <1>0 DEF AtPsp, PspRow, Session, TypeOK
<1>7. ASSUME NEW w \in Workers, NEW c \in Charges, CreateAtPsp(w, c)
      PROVE  TypeOK'
    <2>1. sess' = [sess EXCEPT ![w] = [sess[w] EXCEPT !.pc = "store", !.c = c]]
        BY <1>7 DEF CreateAtPsp
    <2>2. [sess[w] EXCEPT !.pc = "store", !.c = c] \in Session
        BY <1>0 DEF Session
    <2>3. sess' \in [Workers -> Session]
        BY <2>1, <2>2, SessTyped
    <2> QED
        BY <1>6, <1>7, <2>3 DEF CreateAtPsp, TypeOK
<1>8. ASSUME NEW w \in Workers, NEW c \in Charges, CreateFails(w, c)
      PROVE  TypeOK'
    <2>1. sess' \in [Workers -> Session]
        BY <1>0, <1>8, SessTyped DEF CreateFails, Close
    <2> QED
        BY <1>6, <1>8, <2>1 DEF CreateFails, TypeOK
<1>9. ASSUME NEW w \in Workers, CommitCharge(w) PROVE TypeOK'
    <2>1. sess' \in [Workers -> Session]
        BY <1>0, <1>9, SessTyped DEF CommitCharge, Close
    <2>2. sess[w].c \in Charges /\ sess[w].p \in Parcelas
        BY <1>9 DEF CommitCharge, Carried, CarriedBy
    <2>3. [parcela |-> sess[w].p, status |-> "pending",
           born |-> day, utc |-> today, rates |-> sess[w].rates] \in ChargeRow
        BY <1>0, <2>2 DEF ChargeRow, ChargeStatus, Session, TypeOK
    <2>4. ASSUME NEW d \in Charges
          PROVE  [charge[d] EXCEPT !.status = sess[w].flip] \in ChargeRow
        BY <1>0 DEF ChargeRow, ChargeStatus, Session
    <2>5. charge' \in [Charges -> ChargeRow]
        BY <1>0, <1>9, <2>3, <2>4 DEF CommitCharge
    <2>6. [parcela[sess[w].p] EXCEPT !.last = sess[w].c] \in ParcelaRow
        BY <1>0, <2>2 DEF ParcelaRow
    <2>7. parcela' \in [Parcelas -> ParcelaRow]
        BY <1>9, <2>6 DEF CommitCharge, TypeOK
    <2> QED
        BY <1>9, <2>1, <2>2, <2>5, <2>7 DEF CommitCharge, TypeOK
<1>10. ASSUME NEW w \in Workers, NEW c \in Charges, StartWebhook(w, c)
       PROVE  TypeOK'
    <2>1. [Closed EXCEPT !.pc = "webhook", !.c = c,
                         !.p = charge[c].parcela] \in Session
        BY <1>0 DEF Session, ChargeRow
    <2>2. sess' \in [Workers -> Session]
        BY <1>10, <2>1, SessTyped DEF StartWebhook, Open
    <2> QED
        BY <1>10, <2>2 DEF StartWebhook, TypeOK
<1>11. ASSUME NEW w \in Workers, LoadParcela(w) PROVE TypeOK'
    <2> DEFINE row == parcela[sess[w].p]
    <2>1. sess[w].p \in Parcelas
        BY <1>11 DEF LoadParcela, Carried, CarriedBy
    <2>2. sess' = [sess EXCEPT ![w] = [sess[w] EXCEPT !.pc = "settle",
                                         !.status = row.status, !.last = row.last]]
        BY <1>11 DEF LoadParcela
    <2>3. [sess[w] EXCEPT !.pc = "settle", !.status = row.status,
                          !.last = row.last] \in Session
        BY <1>0, <2>1 DEF Session, ParcelaRow
    <2>4. sess' \in [Workers -> Session]
        BY <2>2, <2>3, SessTyped
    <2> QED
        BY <1>11, <2>4 DEF LoadParcela, TypeOK
<1>12. ASSUME NEW w \in Workers, CommitWebhook(w) PROVE TypeOK'
    <2> DEFINE s == sess[w]
    <2>1. sess' \in [Workers -> Session]
        BY <1>0, <1>12, SessTyped DEF CommitWebhook, Close
    <2>2. s.c \in Charges /\ s.p \in Parcelas
        BY <1>12 DEF CommitWebhook, Carried, CarriedBy
    <2>3. [charge[s.c] EXCEPT !.status = "paid"] \in ChargeRow
        BY <1>0, <2>2 DEF ChargeRow, ChargeStatus
    <2>4. charge' \in [Charges -> ChargeRow]
        BY <1>12, <2>3 DEF CommitWebhook, TypeOK
    <2> DEFINE status == IF s.status = "paid" THEN parcela[s.p].status ELSE "paid"
               last == IF s.last = s.c THEN parcela[s.p].last ELSE s.c
    <2>5. status \in ParcelaStatus /\ last \in Charges \cup {None}
        BY <1>0, <2>2 DEF ParcelaRow, ParcelaStatus
    <2>6. parcela' = [parcela EXCEPT ![s.p] = [status |-> status, last |-> last]]
        BY <1>12 DEF CommitWebhook
    <2>7. parcela' \in [Parcelas -> ParcelaRow]
        BY <2>5, <2>6 DEF ParcelaRow, TypeOK
    <2>8. audit' \in [Charges -> Nat]
        <3>1. audit' = [audit EXCEPT ![s.c] = @ + 1]
            BY <1>12 DEF CommitWebhook
        <3> QED
            BY <2>2, <3>1 DEF TypeOK
    <2> QED
        BY <1>12, <2>1, <2>4, <2>7, <2>8 DEF CommitWebhook, TypeOK
<1>13. ASSUME NEW w \in Workers, NEW c \in Charges, StartGetCharge(w, c)
       PROVE  TypeOK'
    <2>1. [Closed EXCEPT !.pc = "expire", !.c = c] \in Session
        BY <1>0 DEF Session
    <2>2. sess' \in [Workers -> Session]
        BY <1>13, <2>1, SessTyped DEF StartGetCharge, Open
    <2> QED
        BY <1>13, <2>2 DEF StartGetCharge, TypeOK
<1>14. ASSUME NEW w \in Workers, CommitExpired(w) PROVE TypeOK'
    <2>1. sess' \in [Workers -> Session]
        BY <1>0, <1>14, SessTyped DEF CommitExpired, Close
    <2>2. sess[w].c \in Charges
        BY <1>14 DEF CommitExpired, Carried, CarriedBy
    <2>3. [charge[sess[w].c] EXCEPT !.status = "expired"] \in ChargeRow
        BY <1>0, <2>2 DEF ChargeRow, ChargeStatus
    <2>4. charge' \in [Charges -> ChargeRow]
        BY <1>14, <2>3 DEF CommitExpired, TypeOK
    <2> QED
        BY <1>14, <2>1, <2>4 DEF CommitExpired, TypeOK
<1>15. ASSUME NEW w \in Workers, StartOverdue(w) PROVE TypeOK'
    <2>1. [Closed EXCEPT !.pc = "overdue", !.batch = PastDue] \in Session
        BY <1>0 DEF Session, PastDue
    <2>2. sess' \in [Workers -> Session]
        BY <1>15, <2>1, SessTyped DEF StartOverdue, Open
    <2> QED
        BY <1>15, <2>2 DEF StartOverdue, TypeOK
<1>16. ASSUME NEW w \in Workers, CommitOverdue(w) PROVE TypeOK'
    <2>1. sess' \in [Workers -> Session]
        BY <1>0, <1>16, SessTyped DEF CommitOverdue, Close
    <2>2. \A p \in Parcelas :
            [parcela[p] EXCEPT !.status = "overdue"] \in ParcelaRow
        BY <1>0 DEF ParcelaRow, ParcelaStatus
    <2>3. parcela' \in [Parcelas -> ParcelaRow]
        BY <1>0, <1>16, <2>2 DEF CommitOverdue
    <2> QED
        BY <1>16, <2>1, <2>3 DEF CommitOverdue, TypeOK
<1>17. ASSUME NEW w \in Workers, StartCancel(w) PROVE TypeOK'
    <2>1. [Closed EXCEPT !.pc = "void"] \in Session
        BY <1>0 DEF Session
    <2>2. sess' \in [Workers -> Session]
        BY <1>17, <2>1, SessTyped DEF StartCancel, Open
    <2> QED
        BY <1>17, <2>2 DEF StartCancel, TypeOK
<1>18. ASSUME NEW w \in Workers, VoidParcelas(w) PROVE TypeOK'
    <2> DEFINE todo == {parcela[p].last : p \in Parcelas} \ {None}
    <2>1. todo \subseteq Charges
        BY <1>0 DEF ParcelaRow
    <2>2. sess' = [sess EXCEPT ![w] = [sess[w] EXCEPT !.pc = "cancel",
                                                      !.todo = todo]]
        BY <1>18 DEF VoidParcelas
    <2>3. [sess[w] EXCEPT !.pc = "cancel", !.todo = todo] \in Session
        <3> HIDE DEF todo
        <3> QED
            BY <1>0, <2>1 DEF Session
    <2>4. sess' \in [Workers -> Session]
        BY <2>2, <2>3, SessTyped
    <2> QED
        BY <1>18, <2>4 DEF VoidParcelas, TypeOK
<1>19. ASSUME NEW w \in Workers, NEW c \in Charges, CancelOne(w, c)
       PROVE  TypeOK'
    <2>1. [sess[w] EXCEPT !.todo = @ \ {c}, !.done = @ \cup {c}] \in Session
        BY <1>0 DEF Session
    <2>2. [sess[w] EXCEPT !.todo = @ \ {c}] \in Session
        BY <1>0 DEF Session
    <2>3. CASE charge[c].status = "pending"
        <3>1. sess' = [sess EXCEPT ![w] = [sess[w] EXCEPT !.todo = @ \ {c},
                                                          !.done = @ \cup {c}]]
            BY <1>19, <2>3 DEF CancelOne
        <3>2. sess' \in [Workers -> Session]
            BY <2>1, <3>1, SessTyped
        <3>3. PspCancel(c)
            BY <1>19, <2>3 DEF CancelOne
        <3> QED
            BY <1>19, <3>2, <3>3, PspCancelTyped DEF CancelOne, TypeOK
    <2>4. CASE charge[c].status # "pending"
        <3>1. sess' = [sess EXCEPT ![w] = [sess[w] EXCEPT !.todo = @ \ {c}]]
            BY <1>19, <2>4 DEF CancelOne
        <3>2. sess' \in [Workers -> Session]
            BY <2>2, <3>1, SessTyped
        <3> QED
            BY <1>19, <2>4, <3>2 DEF CancelOne, TypeOK
    <2> QED
        BY <2>3, <2>4
<1>20. ASSUME NEW w \in Workers, CommitCancel(w) PROVE TypeOK'
    <2>1. sess' \in [Workers -> Session]
        BY <1>0, <1>20, SessTyped DEF CommitCancel, Close
    <2>2. /\ \A p \in Parcelas :
               [parcela[p] EXCEPT !.status = "canceled"] \in ParcelaRow
          /\ \A c \in Charges :
               [charge[c] EXCEPT !.status = "canceled"] \in ChargeRow
        BY <1>0 DEF ParcelaRow, ParcelaStatus, ChargeRow, ChargeStatus
    <2>3. parcela' \in [Parcelas -> ParcelaRow] /\ charge' \in [Charges -> ChargeRow]
        BY <1>0, <1>20, <2>2 DEF CommitCancel
    <2> QED
        BY <1>20, <2>1, <2>3 DEF CommitCancel, TypeOK
<1>21. ASSUME NEW w \in Workers, LoseSession(w) PROVE TypeOK'
    <2>1. sess' \in [Workers -> Session]
        BY <1>0, <1>21, SessTyped DEF LoseSession, Close
    <2> QED
        BY <1>21, <2>1 DEF LoseSession, TypeOK
<1>22. ASSUME NEW c \in Charges, Pay(c) PROVE TypeOK'
    <2>1. [psp[c] EXCEPT !.status = "paid"] \in PspRow
        BY <1>0 DEF PspRow
    <2> QED
        BY <1>22, <2>1 DEF Pay, TypeOK
<1>23. CASE NextDay \/ Evening
    BY <1>23 DEF NextDay, Evening, TypeOK
<1> QED
    BY <1>1, <1>2, <1>3, <1>4, <1>5, <1>7, <1>8, <1>9, <1>10, <1>11, <1>12,
       <1>13, <1>14, <1>15, <1>16, <1>17, <1>18, <1>19, <1>20, <1>21, <1>22,
       <1>23 DEF Next

-----------------------------------------------------------------------------
(* What never changes *)

\* Rows stay and keep their instalment; the PSP's records stay, keep their
\* instalment, and stay paid; brcodes stay handed out; days pass.
StableStep ==
    /\ \A c \in Charges : Exists(c) =>
         /\ charge'[c].status # "absent"
         /\ charge'[c].parcela = charge[c].parcela
    /\ \A c \in Charges : psp[c].status # "unknown" =>
         /\ psp'[c].status # "unknown"
         /\ psp'[c].parcela = psp[c].parcela
    /\ \A c \in Charges : psp[c].status = "paid" => psp'[c].status = "paid"
    /\ handed \subseteq handed'
    /\ today <= today'

\* A call to cancel a charge leaves what is stable about the PSP's records.
LEMMA PspCancelStable ==
    ASSUME TypeOK, NEW c \in Charges, PspCancel(c)
    PROVE  \A d \in Charges :
             /\ psp'[d].parcela = psp[d].parcela
             /\ psp[d].status # "unknown" => psp'[d].status # "unknown"
             /\ psp[d].status = "paid" => psp'[d].status = "paid"
             /\ psp'[d].status = "paid" => psp[d].status = "paid"
<1>1. \A d \in Charges : psp[d] \in PspRow
    BY DEF TypeOK
<1>2. CASE UNCHANGED psp
    BY <1>2
<1>3. CASE psp' = [psp EXCEPT
                     ![c].status = IF @ = "active" THEN "removed" ELSE @]
    BY <1>1, <1>3 DEF TypeOK, PspRow
<1> QED
    BY <1>2, <1>3 DEF PspCancel

\* Every step leaves it so.
LEMMA Stable == TypeOK /\ Booked /\ Carried /\ [Next]_vars => StableStep
<1> SUFFICES ASSUME TypeOK, Booked, Carried, [Next]_vars PROVE StableStep
    OBVIOUS
<1>0. /\ \A c \in Charges : charge[c] \in ChargeRow /\ psp[c] \in PspRow
      /\ \A w \in Workers : sess[w] \in Session
      /\ today \in Nat
    BY DEF TypeOK
<1>1. CASE UNCHANGED <<charge, psp, handed, today>>
    BY <1>0, <1>1 DEF StableStep, Exists
<1>2. ASSUME NEW w \in Workers, ReturnExisting(w) PROVE StableStep
    BY <1>0, <1>2 DEF ReturnExisting, StableStep, Exists
<1>3. ASSUME NEW w \in Workers, CancelStale(w) PROVE StableStep
    <2>1. sess[w].last \in Charges
        BY <1>0, <1>3 DEF CancelStale, Carried, CarriedBy, Session
    <2> QED
        BY <1>0, <1>3, <2>1, PspCancelStable DEF CancelStale, StableStep, Exists
<1>4. ASSUME NEW w \in Workers, NEW c \in Charges,
             CreateAtPsp(w, c) \/ CreateFails(w, c)
      PROVE  StableStep
    <2>1. psp[c].status = "unknown"
        BY <1>4 DEF CreateAtPsp, CreateFails, Fresh
    <2>2. /\ psp' = psp \/ psp' = [psp EXCEPT ![c] = AtPsp(sess[w].p)]
          /\ UNCHANGED <<charge, handed, today>>
        BY <1>4 DEF CreateAtPsp, CreateFails
    <2> QED
        BY <1>0, <2>1, <2>2 DEF StableStep, Exists, TypeOK
<1>5. ASSUME NEW w \in Workers, CommitCharge(w) PROVE StableStep
    <2> DEFINE s == sess[w]
    <2>1. /\ s.c \in Charges
          /\ psp[s.c].parcela = s.p
          /\ s.last # None => Exists(s.last)
          /\ s.flip # "absent"
        BY <1>0, <1>5 DEF CommitCharge, Carried, CarriedBy, Session
    <2>2. ASSUME NEW d \in Charges, Exists(d)
          PROVE  /\ charge'[d].status # "absent"
                 /\ charge'[d].parcela = charge[d].parcela
        <3>1. CASE d = s.c
            BY <1>5, <2>1, <2>2, <3>1 DEF CommitCharge, Booked
        <3>2. CASE d # s.c /\ d = s.last /\ s.flip # "pending"
            <4>1. charge'[d] = [charge[d] EXCEPT !.status = s.flip]
                BY <1>5, <3>2 DEF CommitCharge
            <4> QED
                BY <1>0, <2>1, <4>1 DEF ChargeRow
        <3>3. CASE d # s.c /\ ~(d = s.last /\ s.flip # "pending")
            <4>1. charge'[d] = charge[d]
                BY <1>5, <3>3 DEF CommitCharge
            <4> QED
                BY <2>2, <4>1 DEF Exists
        <3> QED
            BY <3>1, <3>2, <3>3
    <2>3. UNCHANGED <<psp, today>> /\ handed \subseteq handed'
        BY <1>5 DEF CommitCharge
    <2> QED
        BY <1>0, <2>2, <2>3 DEF StableStep
<1>6. ASSUME NEW w \in Workers, CommitWebhook(w) \/ CommitExpired(w)
      PROVE  StableStep
    <2>1. PICK status \in {"paid", "expired"} :
            charge' = [charge EXCEPT ![sess[w].c].status = status]
        BY <1>6 DEF CommitWebhook, CommitExpired
    <2>2. UNCHANGED <<psp, handed, today>>
        BY <1>6 DEF CommitWebhook, CommitExpired
    <2> QED
        BY <1>0, <2>1, <2>2 DEF StableStep, Exists, ChargeRow, TypeOK
<1>7. ASSUME NEW w \in Workers, NEW c \in Charges, CancelOne(w, c)
      PROVE  StableStep
    <2>1. PspCancel(c) \/ UNCHANGED psp
        BY <1>7 DEF CancelOne
    <2>2. UNCHANGED <<charge, handed, today>>
        BY <1>7 DEF CancelOne
    <2> QED
        BY <1>0, <2>1, <2>2, PspCancelStable DEF StableStep, Exists
<1>8. ASSUME NEW w \in Workers, CommitCancel(w) PROVE StableStep
    <2>1. \A d \in Charges :
            charge'[d] \in {charge[d], [charge[d] EXCEPT !.status = "canceled"]}
        BY <1>8 DEF CommitCancel
    <2>2. UNCHANGED <<psp, handed, today>>
        BY <1>8 DEF CommitCancel
    <2> QED
        BY <1>0, <2>1, <2>2 DEF StableStep, Exists, ChargeRow
<1>9. ASSUME NEW c \in Charges, Pay(c) PROVE StableStep
    BY <1>0, <1>9 DEF Pay, StableStep, Exists, PspRow, TypeOK
<1>10. CASE NextDay \/ Evening
    BY <1>0, <1>10 DEF NextDay, Evening, StableStep, Exists
<1> QED
    BY <1>1, <1>2, <1>3, <1>4, <1>5, <1>6, <1>7, <1>8, <1>9, <1>10
    DEF Next, vars, StartCharge, ReplaceExisting, StartWebhook, LoadParcela,
        StartGetCharge, StartOverdue, CommitOverdue, StartCancel, VoidParcelas,
        LoseSession

-----------------------------------------------------------------------------
(* Rows, pointers and sessions *)

\* Only CommitCharge adds a row; every other step changes a status at most,
\* and of a row that exists.
LEMMA ChargeWrites ==
    ASSUME TypeOK, Carried, [Next]_vars, NEW d \in Charges
    PROVE  \/ /\ charge'[d].parcela = charge[d].parcela
              /\ charge'[d].rates = charge[d].rates
              /\ charge'[d].utc = charge[d].utc
              /\ charge'[d].status = "absent" <=> charge[d].status = "absent"
           \/ \E w \in Workers : CommitCharge(w) /\ d = sess[w].c
<1> USE DEF Exists
<1>0. /\ charge[d] \in ChargeRow
      /\ \A w \in Workers : sess[w] \in Session /\ CarriedBy(sess[w])
    BY DEF TypeOK, Carried
<1>1. CASE charge'[d] = charge[d]
    BY <1>1
<1>2. ASSUME NEW status \in {"paid", "expired", "canceled"}, Exists(d),
             charge'[d] = [charge[d] EXCEPT !.status = status]
      PROVE  /\ charge'[d].parcela = charge[d].parcela
             /\ charge'[d].rates = charge[d].rates
             /\ charge'[d].utc = charge[d].utc
             /\ charge'[d].status = "absent" <=> charge[d].status = "absent"
    BY <1>0, <1>2 DEF ChargeRow
<1>3. ASSUME NEW w \in Workers, CommitCharge(w), d # sess[w].c
      PROVE  \/ charge'[d] = charge[d]
             \/ /\ Exists(d)
                /\ \E status \in {"paid", "expired", "canceled"} :
                     charge'[d] = [charge[d] EXCEPT !.status = status]
    <2>1. CASE d = sess[w].last /\ sess[w].flip # "pending"
        <3>1. charge'[d] = [charge[d] EXCEPT !.status = sess[w].flip]
            BY <1>3, <2>1 DEF CommitCharge
        <3>2. Exists(d)
            BY <1>0, <2>1, BillingAssumption DEF CarriedBy
        <3>3. sess[w].flip \in {"expired", "canceled"}
            BY <1>0, <2>1 DEF Session
        <3> QED
            BY <3>1, <3>2, <3>3
    <2>2. CASE ~(d = sess[w].last /\ sess[w].flip # "pending")
        BY <1>3, <2>2 DEF CommitCharge
    <2> QED
        BY <2>1, <2>2
<1>4. ASSUME NEW w \in Workers, CommitWebhook(w) \/ CommitExpired(w)
      PROVE  \/ charge'[d] = charge[d]
             \/ /\ Exists(d)
                /\ \E status \in {"paid", "expired", "canceled"} :
                     charge'[d] = [charge[d] EXCEPT !.status = status]
    <2>1. Exists(sess[w].c)
        BY <1>0, <1>4 DEF CommitWebhook, CommitExpired, CarriedBy
    <2>2. PICK status \in {"paid", "expired"} :
            charge' = [charge EXCEPT ![sess[w].c].status = status]
        BY <1>4 DEF CommitWebhook, CommitExpired
    <2> QED
        BY <2>1, <2>2 DEF TypeOK
<1>5. ASSUME NEW w \in Workers, CommitCancel(w)
      PROVE  \/ charge'[d] = charge[d]
             \/ /\ Exists(d)
                /\ \E status \in {"paid", "expired", "canceled"} :
                     charge'[d] = [charge[d] EXCEPT !.status = status]
    BY <1>0, <1>5 DEF CommitCancel, CarriedBy
<1>6. CASE UNCHANGED charge
    BY <1>1, <1>6
<1> QED
    BY <1>1, <1>2, <1>3, <1>4, <1>5, <1>6
    DEF Next, vars, StartCharge, ReturnExisting, ReplaceExisting, CancelStale,
        CreateAtPsp, CreateFails, StartWebhook, LoadParcela, StartGetCharge,
        StartOverdue, CommitOverdue, StartCancel, VoidParcelas, CancelOne,
        LoseSession, Pay, NextDay, Evening

\* The row CommitCharge inserts.
LEMMA NewRow ==
    ASSUME Carried, NEW w \in Workers, CommitCharge(w)
    PROVE  /\ sess[w].c \in Charges /\ sess[w].p \in Parcelas
           /\ charge'[sess[w].c].parcela = sess[w].p
           /\ charge'[sess[w].c].status = "pending"
           /\ charge'[sess[w].c].utc = today
           /\ charge'[sess[w].c].rates = sess[w].rates
           /\ psp[sess[w].c].parcela = sess[w].p
           /\ psp[sess[w].c].status # "unknown"
           /\ UNCHANGED <<psp, today>>
<1>1. /\ sess[w].c \in Charges /\ sess[w].p \in Parcelas
      /\ psp[sess[w].c].parcela = sess[w].p
      /\ psp[sess[w].c].status # "unknown"
      /\ UNCHANGED <<psp, today>>
    BY DEF CommitCharge, Carried, CarriedBy
<1>2. charge'[sess[w].c] = [parcela |-> sess[w].p, status |-> "pending",
                            born |-> day, utc |-> today, rates |-> sess[w].rates]
    BY <1>1 DEF CommitCharge
<1> QED
    BY <1>1, <1>2

\* Rows go on naming the instalment the PSP knows.
LEMMA BookedStep == TypeOK /\ Booked /\ Carried /\ [Next]_vars => Booked'
<1> SUFFICES ASSUME TypeOK, Booked, Carried, [Next]_vars,
                    NEW d \in Charges, charge'[d].status # "absent"
             PROVE  /\ charge'[d].parcela \in Parcelas
                    /\ charge'[d].parcela = psp'[d].parcela
                    /\ psp'[d].status # "unknown"
    BY DEF Booked, Exists
<1>1. StableStep
    BY Stable
<1>2. ASSUME NEW w \in Workers, CommitCharge(w), d = sess[w].c
      PROVE  /\ charge'[d].parcela = sess[w].p
             /\ sess[w].p \in Parcelas
             /\ psp'[d].parcela = sess[w].p
             /\ psp'[d].status # "unknown"
    BY <1>2, NewRow
<1>3. CASE \E w \in Workers : CommitCharge(w) /\ d = sess[w].c
    BY <1>2, <1>3
<1>4. CASE /\ charge'[d].parcela = charge[d].parcela
           /\ charge'[d].status = "absent" <=> charge[d].status = "absent"
    BY <1>1, <1>4 DEF Booked, Exists, StableStep
<1> QED
    BY <1>3, <1>4, ChargeWrites

\* A brcode is handed out once its row exists, money comes in for a brcode
\* that was handed out, and a pointer is set to a row that exists.
LEMMA KnownStep ==
    TypeOK /\ Booked /\ Known /\ Carried /\ [Next]_vars => Known'
<1> SUFFICES ASSUME TypeOK, Booked, Known, Carried, [Next]_vars PROVE Known'
    OBVIOUS
<1> USE DEF Exists
<1>0. /\ \A w \in Workers : sess[w] \in Session /\ CarriedBy(sess[w])
      /\ \A c \in Charges : charge[c] \in ChargeRow /\ psp[c] \in PspRow
      /\ \A p \in Parcelas : parcela[p] \in ParcelaRow
      /\ handed \subseteq Charges
    BY DEF TypeOK, Carried
<1>1. StableStep
    BY Stable
<1>2. ASSUME NEW w \in Workers, CommitCharge(w)
      PROVE  sess[w].c \in Charges /\ charge'[sess[w].c].status # "absent"
    BY <1>2, NewRow
<1>3. \A c \in handed' : charge'[c].status # "absent"
    <2>1. CASE UNCHANGED handed
        BY <1>0, <1>1, <2>1 DEF Known, StableStep
    <2>2. ASSUME NEW w \in Workers, ReturnExisting(w)
          PROVE  handed' = handed \cup {sess[w].last} /\ UNCHANGED charge
        BY <2>2 DEF ReturnExisting
    <2>3. ASSUME NEW w \in Workers, ReturnExisting(w)
          PROVE  Exists(sess[w].last)
        BY <1>0, <2>3 DEF ReturnExisting, CarriedBy
    <2>4. ASSUME NEW w \in Workers, CommitCharge(w)
          PROVE  handed' = handed \cup {sess[w].c}
        BY <2>4 DEF CommitCharge
    <2>5. CASE \E w \in Workers : ReturnExisting(w)
        BY <2>2, <2>3, <2>5 DEF Known
    <2>6. CASE \E w \in Workers : CommitCharge(w)
        BY <1>0, <1>1, <1>2, <2>4, <2>6 DEF Known, StableStep
    <2> QED
        BY <2>1, <2>5, <2>6
        DEF Next, vars, StartCharge, ReplaceExisting, CancelStale, CreateAtPsp,
            CreateFails, StartWebhook, LoadParcela, CommitWebhook,
            StartGetCharge, CommitExpired, StartOverdue, CommitOverdue,
            StartCancel, VoidParcelas, CancelOne, CommitCancel, LoseSession,
            Pay, NextDay, Evening
<1>4. \A c \in Charges : psp'[c].status = "paid" => c \in handed'
    <2>1. ASSUME NEW c \in Charges, psp'[c].status = "paid", psp[c].status # "paid"
          PROVE  c \in handed
        <3>1. ~UNCHANGED psp
            BY <2>1
        <3>2. ASSUME NEW w \in Workers, NEW d \in Charges,
                     CreateAtPsp(w, d) \/ CreateFails(w, d)
              PROVE  FALSE
            <4>1. psp' = psp \/ psp' = [psp EXCEPT ![d] = AtPsp(sess[w].p)]
                BY <3>2 DEF CreateAtPsp, CreateFails
            <4> QED
                BY <2>1, <4>1 DEF AtPsp, TypeOK
        <3>3. ASSUME NEW w \in Workers, CancelStale(w) PROVE FALSE
            <4>1. sess[w].last \in Charges
                BY <1>0, <3>3 DEF CancelStale, CarriedBy, Session
            <4> QED
                BY <2>1, <3>3, <4>1, PspCancelStable DEF CancelStale
        <3>4. ASSUME NEW w \in Workers, NEW d \in Charges, CancelOne(w, d)
              PROVE  FALSE
            BY <2>1, <3>1, <3>4, PspCancelStable DEF CancelOne
        <3>5. ASSUME NEW d \in Charges, Pay(d) PROVE c = d /\ c \in handed
            BY <2>1, <3>5 DEF Pay, TypeOK
        <3> QED
            BY <3>1, <3>2, <3>3, <3>4, <3>5
            DEF Next, vars, StartCharge, ReturnExisting, ReplaceExisting,
                CommitCharge, StartWebhook, LoadParcela, CommitWebhook,
                StartGetCharge, CommitExpired, StartOverdue, CommitOverdue,
                StartCancel, VoidParcelas, CommitCancel, LoseSession, NextDay, Evening
    <2> QED
        BY <1>1, <2>1 DEF Known, StableStep
<1>5. \A p \in Parcelas : parcela'[p].last # None =>
        charge'[parcela'[p].last].status # "absent"
    <2>1. ASSUME NEW p \in Parcelas, parcela'[p].last = parcela[p].last,
                 parcela'[p].last # None
          PROVE  charge'[parcela'[p].last].status # "absent"
        <3>1. parcela[p].last \in Charges
            BY <1>0, <2>1 DEF ParcelaRow
        <3> QED
            BY <1>1, <2>1, <3>1 DEF Known, StableStep
    <2>2. ASSUME NEW p \in Parcelas, NEW w \in Workers, CommitCharge(w)
          PROVE  parcela'[p].last \in {parcela[p].last, sess[w].c}
        BY <1>0, <2>2 DEF CommitCharge, ParcelaRow, TypeOK
    <2>3. ASSUME NEW p \in Parcelas, NEW w \in Workers, CommitWebhook(w)
          PROVE  /\ parcela'[p].last \in {parcela[p].last, sess[w].c}
                 /\ charge'[sess[w].c].status # "absent"
        <3>1. sess[w].c \in Charges /\ Exists(sess[w].c)
            BY <1>0, <2>3 DEF CommitWebhook, CarriedBy
        <3> QED
            BY <1>0, <1>1, <2>3, <3>1
            DEF CommitWebhook, ParcelaRow, StableStep, TypeOK
    <2>4. ASSUME NEW p \in Parcelas, NEW w \in Workers,
                 CommitOverdue(w) \/ CommitCancel(w)
          PROVE  parcela'[p].last = parcela[p].last
        BY <1>0, <2>4 DEF CommitOverdue, CommitCancel, ParcelaRow
    <2>5. CASE UNCHANGED parcela
        BY <2>1, <2>5
    <2>6. CASE \E w \in Workers : CommitCharge(w)
        BY <1>2, <2>1, <2>2, <2>6
    <2>7. CASE \E w \in Workers : CommitWebhook(w)
        BY <2>1, <2>3, <2>7
    <2>8. CASE \E w \in Workers : CommitOverdue(w) \/ CommitCancel(w)
        BY <2>1, <2>4, <2>8
    <2> QED
        BY <2>5, <2>6, <2>7, <2>8
        DEF Next, vars, StartCharge, ReturnExisting, ReplaceExisting,
            CancelStale, CreateAtPsp, CreateFails, StartWebhook, LoadParcela,
            StartGetCharge, CommitExpired, StartOverdue, StartCancel,
            VoidParcelas, CancelOne, LoseSession, Pay, NextDay, Evening
<1> QED
    BY <1>3, <1>4, <1>5 DEF Known

\* What a session carries stays good while other sessions run, and each of
\* its own steps hands on what the next one needs.
LEMMA CarriedStep ==
    TypeOK /\ Booked /\ Known /\ Carried /\ [Next]_vars => Carried'
<1> SUFFICES ASSUME TypeOK, Booked, Known, Carried, [Next]_vars PROVE Carried'
    OBVIOUS
<1> USE BillingAssumption DEF Exists
<1>0. /\ \A w \in Workers : sess[w] \in Session /\ CarriedBy(sess[w])
      /\ \A c \in Charges : charge[c] \in ChargeRow /\ psp[c] \in PspRow
      /\ \A p \in Parcelas : parcela[p] \in ParcelaRow
    BY DEF TypeOK, Carried
<1>1. StableStep
    BY Stable
<1>2. ASSUME NEW w \in Workers, sess'[w] = sess[w] PROVE CarriedBy(sess[w])'
    BY <1>0, <1>1, <1>2 DEF CarriedBy, StableStep, Session
<1>3. ASSUME NEW w \in Workers, sess'[w] = Closed PROVE CarriedBy(sess[w])'
    BY <1>3 DEF CarriedBy, Closed
<1>4. ASSUME NEW w \in Workers, \A v \in Workers \ {w} : sess'[v] = sess[v],
             CarriedBy(sess[w])'
      PROVE  Carried'
    BY <1>2, <1>4 DEF Carried
<1>5. CASE UNCHANGED sess
    BY <1>2, <1>5 DEF Carried
<1>6. ASSUME NEW w \in Workers, Close(w) PROVE Carried'
    BY <1>3, <1>4, <1>6 DEF Close, TypeOK
<1>7. ASSUME NEW w \in Workers, NEW p \in Parcelas, StartCharge(w, p)
      PROVE  Carried'
    <2>1. /\ sess'[w] = [Closed EXCEPT !.pc = "ensure", !.p = p,
                              !.status = parcela[p].status,
                              !.last = parcela[p].last]
          /\ \A v \in Workers \ {w} : sess'[v] = sess[v]
          /\ UNCHANGED <<charge, psp>>
        BY <1>7 DEF StartCharge, Open, TypeOK
    <2>2. /\ sess'[w].pc = "ensure" /\ sess'[w].p = p
          /\ sess'[w].last = parcela[p].last
          /\ sess'[w].todo = {} /\ sess'[w].done = {}
        BY <2>1 DEF Closed
    <2>3. CarriedBy(sess[w])'
        BY <2>1, <2>2 DEF CarriedBy, Known
    <2> QED
        BY <1>4, <2>1, <2>3
<1>8. ASSUME NEW w \in Workers, ReplaceExisting(w) PROVE Carried'
    <2> DEFINE s == sess[w]
    <2>1. /\ s.pc = "ensure"
          /\ UNCHANGED <<charge, psp>>
          /\ \A v \in Workers \ {w} : sess'[v] = sess[v]
        BY <1>8 DEF ReplaceExisting, TypeOK
    <2>2. /\ sess'[w].pc = "cancelOld" \/ sess'[w].pc = "create"
          /\ sess'[w].pc = "cancelOld" => s.last # None
          /\ sess'[w].p = s.p /\ sess'[w].last = s.last
          /\ sess'[w].todo = s.todo /\ sess'[w].done = s.done
        BY <1>0, <1>8 DEF ReplaceExisting, Session, TypeOK
    <2> QED
        BY <1>0, <1>4, <2>1, <2>2 DEF CarriedBy
<1>9. ASSUME NEW w \in Workers, CancelStale(w) PROVE Carried'
    <2>1. /\ sess[w].pc = "cancelOld"
          /\ sess'[w].pc = "create"
          /\ sess'[w].p = sess[w].p /\ sess'[w].last = sess[w].last
          /\ sess'[w].todo = sess[w].todo /\ sess'[w].done = sess[w].done
          /\ \A v \in Workers \ {w} : sess'[v] = sess[v]
          /\ UNCHANGED charge
        BY <1>0, <1>9 DEF CancelStale, Session, TypeOK
    <2> QED
        BY <1>0, <1>4, <2>1 DEF CarriedBy
<1>10. ASSUME NEW w \in Workers, NEW c \in Charges, CreateAtPsp(w, c)
       PROVE  Carried'
    <2>1. /\ sess[w].pc = "create"
          /\ sess'[w].pc = "store" /\ sess'[w].c = c
          /\ sess'[w].p = sess[w].p /\ sess'[w].last = sess[w].last
          /\ sess'[w].todo = sess[w].todo /\ sess'[w].done = sess[w].done
          /\ \A v \in Workers \ {w} : sess'[v] = sess[v]
          /\ UNCHANGED charge
        BY <1>0, <1>10 DEF CreateAtPsp, Session, TypeOK
    <2>2. psp'[c] = AtPsp(sess[w].p)
        BY <1>10 DEF CreateAtPsp, TypeOK
    <2> QED
        BY <1>0, <1>4, <2>1, <2>2 DEF CarriedBy, AtPsp
<1>11. ASSUME NEW w \in Workers, NEW c \in Charges, StartWebhook(w, c)
       PROVE  Carried'
    <2>1. /\ sess'[w] = [Closed EXCEPT !.pc = "webhook", !.c = c,
                                       !.p = charge[c].parcela]
          /\ \A v \in Workers \ {w} : sess'[v] = sess[v]
          /\ UNCHANGED <<charge, psp>>
          /\ psp[c].status = "paid" /\ charge[c].status # "absent"
        BY <1>11 DEF StartWebhook, PaidEvent, Open, TypeOK
    <2>2. /\ sess'[w].pc = "webhook" /\ sess'[w].c = c
          /\ sess'[w].p = charge[c].parcela /\ sess'[w].last = None
          /\ sess'[w].todo = {} /\ sess'[w].done = {}
        BY <2>1 DEF Closed
    <2>3. CarriedBy(sess[w])'
        BY <2>1, <2>2 DEF CarriedBy, Booked
    <2> QED
        BY <1>4, <2>1, <2>3
<1>12. ASSUME NEW w \in Workers, LoadParcela(w) PROVE Carried'
    <2>1. /\ sess[w].pc = "webhook" /\ sess[w].p \in Parcelas
          /\ sess'[w].pc = "settle"
          /\ sess'[w].c = sess[w].c /\ sess'[w].p = sess[w].p
          /\ sess'[w].last = parcela[sess[w].p].last
          /\ sess'[w].todo = sess[w].todo /\ sess'[w].done = sess[w].done
          /\ \A v \in Workers \ {w} : sess'[v] = sess[v]
          /\ UNCHANGED <<charge, psp>>
        BY <1>0, <1>12 DEF LoadParcela, CarriedBy, Session, TypeOK
    <2> QED
        BY <1>0, <1>4, <2>1 DEF CarriedBy, Known
<1>13. ASSUME NEW w \in Workers, NEW c \in Charges, StartGetCharge(w, c)
       PROVE  Carried'
    <2>1. /\ sess'[w] = [Closed EXCEPT !.pc = "expire", !.c = c]
          /\ \A v \in Workers \ {w} : sess'[v] = sess[v]
          /\ UNCHANGED <<charge, psp>>
          /\ charge[c].status = "pending"
        BY <1>13 DEF StartGetCharge, Open, TypeOK
    <2> QED
        BY <1>4, <2>1 DEF CarriedBy, Closed
<1>14. ASSUME NEW w \in Workers, StartOverdue(w) \/ StartCancel(w)
       PROVE  Carried'
    <2>1. /\ \/ sess'[w] = [Closed EXCEPT !.pc = "overdue", !.batch = PastDue]
             \/ sess'[w] = [Closed EXCEPT !.pc = "void"]
          /\ \A v \in Workers \ {w} : sess'[v] = sess[v]
        BY <1>14 DEF StartOverdue, StartCancel, Open, TypeOK
    <2> QED
        BY <1>4, <2>1 DEF CarriedBy, Closed
<1>15. ASSUME NEW w \in Workers, VoidParcelas(w) PROVE Carried'
    <2>1. /\ sess'[w].pc = "cancel"
          /\ sess'[w].last = sess[w].last
          /\ sess'[w].todo = {parcela[p].last : p \in Parcelas} \ {None}
          /\ sess'[w].done = sess[w].done
          /\ \A v \in Workers \ {w} : sess'[v] = sess[v]
          /\ UNCHANGED <<charge, psp>>
        BY <1>0, <1>15 DEF VoidParcelas, Session, TypeOK
    <2> QED
        BY <1>0, <1>4, <2>1 DEF CarriedBy, Known
<1>16. ASSUME NEW w \in Workers, NEW c \in Charges, CancelOne(w, c)
       PROVE  Carried'
    <2>1. /\ sess[w].pc = "cancel" /\ sess'[w].pc = "cancel"
          /\ c \in sess[w].todo
          /\ sess'[w].last = sess[w].last
          /\ sess'[w].todo \subseteq sess[w].todo
          /\ sess'[w].done \subseteq sess[w].done \cup {c}
          /\ \A v \in Workers \ {w} : sess'[v] = sess[v]
          /\ UNCHANGED charge
        BY <1>0, <1>16 DEF CancelOne, Session, TypeOK
    <2> QED
        BY <1>0, <1>4, <2>1 DEF CarriedBy
<1> QED
    BY <1>5, <1>6, <1>7, <1>8, <1>9, <1>10, <1>11, <1>12, <1>13, <1>14,
       <1>15, <1>16
    DEF Next, vars, ReturnExisting, CreateFails, CommitCharge, CommitWebhook,
        CommitExpired, CommitOverdue, CommitCancel, LoseSession, Pay, NextDay, Evening

-----------------------------------------------------------------------------
(* Safety *)

\* Only CommitWebhook makes an instalment paid, with a paid charge of it.
LEMMA BackedStep ==
    TypeOK /\ Booked /\ Known /\ Carried /\ PaidIsBacked /\ [Next]_vars
        => PaidIsBacked'
<1> SUFFICES ASSUME TypeOK, Booked, Known, Carried, PaidIsBacked, [Next]_vars,
                    NEW p \in Parcelas, parcela'[p].status = "paid"
             PROVE  \E c \in Charges : /\ charge'[c].parcela = p
                                       /\ psp'[c].status = "paid"
    BY DEF PaidIsBacked, Received
<1>0. /\ \A w \in Workers : CarriedBy(sess[w])
      /\ parcela[p] \in ParcelaRow
    BY DEF TypeOK, Carried
<1>1. StableStep
    BY Stable
<1>2. ASSUME NEW c \in Charges, psp[c].status = "paid", charge[c].parcela = p,
             Exists(c)
      PROVE  charge'[c].parcela = p /\ psp'[c].status = "paid"
    BY <1>1, <1>2 DEF StableStep
<1>3. CASE parcela[p].status = "paid"
    <2>1. PICK c \in Charges : charge[c].parcela = p /\ psp[c].status = "paid"
        BY <1>3 DEF PaidIsBacked, Received
    <2>2. Exists(c)
        BY <2>1 DEF Known
    <2> QED
        BY <1>2, <2>1, <2>2
<1>4. ASSUME NEW w \in Workers, CommitWebhook(w), p = sess[w].p
      PROVE  \E c \in Charges : /\ charge'[c].parcela = p
                                /\ psp'[c].status = "paid"
    <2>1. /\ sess[w].c \in Charges /\ Exists(sess[w].c)
          /\ psp[sess[w].c].status = "paid"
          /\ charge[sess[w].c].parcela = p
        BY <1>0, <1>4 DEF CommitWebhook, CarriedBy
    <2> QED
        BY <1>2, <2>1
<1>5. ASSUME parcela[p].status # "paid"
      PROVE  \E w \in Workers : CommitWebhook(w) /\ p = sess[w].p
    <2>1. ASSUME NEW w \in Workers, CommitCharge(w) PROVE FALSE
        BY <1>0, <1>5, <2>1 DEF CommitCharge, ParcelaRow, TypeOK
    <2>2. ASSUME NEW w \in Workers, CommitOverdue(w) PROVE FALSE
        BY <1>0, <1>5, <2>2 DEF CommitOverdue, ParcelaRow
    <2>3. ASSUME NEW w \in Workers, CommitCancel(w) PROVE FALSE
        BY <1>0, <2>3 DEF CommitCancel, ParcelaRow
    <2>4. ASSUME NEW w \in Workers, CommitWebhook(w) PROVE p = sess[w].p
        BY <1>5, <2>4 DEF CommitWebhook, TypeOK
    <2>5. ~UNCHANGED parcela
        BY <1>5
    <2> QED
        BY <2>1, <2>2, <2>3, <2>4, <2>5
        DEF Next, vars, StartCharge, ReturnExisting, ReplaceExisting,
            CancelStale, CreateAtPsp, CreateFails, StartWebhook, LoadParcela,
            StartGetCharge, CommitExpired, StartOverdue, StartCancel,
            VoidParcelas, CancelOne, LoseSession, Pay, NextDay, Evening
<1> QED
    BY <1>3, <1>4, <1>5

\* A session gets rates from ReplaceExisting only, and keeps its instalment
\* as long as it has them.
LEMMA RatesWrites ==
    ASSUME TypeOK, [Next]_vars, NEW w \in Workers
    PROVE  \/ sess'[w].rates = sess[w].rates /\ sess'[w].p = sess[w].p
           \/ ~sess'[w].rates
           \/ ReplaceExisting(w)
<1> DEFINE Same == sess'[w].rates = sess[w].rates /\ sess'[w].p = sess[w].p
<1>0. \A v \in Workers : sess[v] \in Session
    BY DEF TypeOK
<1>1. CASE sess'[w] = sess[w]
    BY <1>1
<1>2. ASSUME NEW v \in Workers, Close(v) PROVE Same \/ ~sess'[w].rates
    BY <1>2 DEF Close, Closed, TypeOK
<1>3. ASSUME NEW v \in Workers, NEW S, ~S.rates, Open(v, S)
      PROVE  Same \/ ~sess'[w].rates
    BY <1>3 DEF Open, TypeOK
<1>4. ASSUME NEW v \in Workers, NEW p \in Parcelas, StartCharge(v, p)
      PROVE  Same \/ ~sess'[w].rates
    BY <1>3, <1>4 DEF StartCharge, Closed
<1>5. ASSUME NEW v \in Workers, NEW c \in Charges,
             StartWebhook(v, c) \/ StartGetCharge(v, c)
      PROVE  Same \/ ~sess'[w].rates
    BY <1>3, <1>5 DEF StartWebhook, StartGetCharge, Closed
<1>6. ASSUME NEW v \in Workers, StartOverdue(v) \/ StartCancel(v)
      PROVE  Same \/ ~sess'[w].rates
    BY <1>3, <1>6 DEF StartOverdue, StartCancel, Closed
<1>7. ASSUME NEW v \in Workers, CancelStale(v) \/ LoadParcela(v) PROVE Same
    BY <1>0, <1>7 DEF CancelStale, LoadParcela, Session, TypeOK
<1>8. ASSUME NEW v \in Workers, NEW c \in Charges, CreateAtPsp(v, c) PROVE Same
    BY <1>0, <1>8 DEF CreateAtPsp, Session, TypeOK
<1>9. ASSUME NEW v \in Workers, VoidParcelas(v) PROVE Same
    BY <1>0, <1>9 DEF VoidParcelas, Session, TypeOK
<1>10. ASSUME NEW v \in Workers, NEW c \in Charges, CancelOne(v, c) PROVE Same
    BY <1>0, <1>10 DEF CancelOne, Session, TypeOK
<1>11. ASSUME NEW v \in Workers, v # w, ReplaceExisting(v)
       PROVE  sess'[w] = sess[w]
    BY <1>11 DEF ReplaceExisting, TypeOK
<1> HIDE DEF Same
<1>12. CASE UNCHANGED sess
    BY <1>1, <1>12
<1> QED
    BY <1>1, <1>2, <1>4, <1>5, <1>6, <1>7, <1>8, <1>9, <1>10, <1>11, <1>12
    DEF Same, Next, vars, ReturnExisting, CreateFails, CommitCharge,
        CommitWebhook, CommitExpired, CommitOverdue, CommitCancel, LoseSession,
        Pay, NextDay, Evening

\* Rates that a session decided on stay justified, since days only pass.
LEMMA RatesCarriedStep ==
    TypeOK /\ Booked /\ Carried /\ RatesCarried /\ [Next]_vars => RatesCarried'
<1> SUFFICES ASSUME TypeOK, Booked, Carried, RatesCarried, [Next]_vars,
                    NEW w \in Workers, sess'[w].rates
             PROVE  /\ sess'[w].p \in Parcelas
                    /\ today' > Due[sess'[w].p] + Carencia
    BY DEF RatesCarried
<1> USE BillingAssumption
<1>0. /\ sess[w] \in Session /\ CarriedBy(sess[w])
      /\ today \in Nat /\ today' \in Nat
    BY TypeStep DEF TypeOK, Carried
<1>1. today <= today'
    BY Stable DEF StableStep
<1>2. CASE sess'[w].rates = sess[w].rates /\ sess'[w].p = sess[w].p
    <2>1. sess[w].p \in Parcelas /\ today > Due[sess[w].p] + Carencia
        BY <1>2 DEF RatesCarried
    <2>2. Due[sess[w].p] + Carencia \in Nat
        BY <2>1
    <2> QED
        BY <1>0, <1>1, <1>2, <2>1, <2>2
<1>3. CASE ReplaceExisting(w)
    <2>1. /\ sess[w].p \in Parcelas
          /\ sess'[w].p = sess[w].p
          /\ sess'[w].rates = PastGrace(sess[w].p, sess[w].status)
          /\ today' = today
        <3>1. sess[w].p \in Parcelas
            BY <1>0, <1>3 DEF ReplaceExisting, CarriedBy
        <3>2. sess'[w].p = sess[w].p /\ today' = today
            BY <1>0, <1>3 DEF ReplaceExisting, Session, TypeOK
        <3>3. sess'[w].rates = PastGrace(sess[w].p, sess[w].status)
            BY <1>0, <1>3 DEF ReplaceExisting, Session, TypeOK
        <3> QED
            BY <3>1, <3>2, <3>3
    <2>2. today - Due[sess[w].p] > Carencia
        BY <2>1 DEF PastGrace
    <2>3. Due[sess[w].p] \in Nat
        BY <2>1
    <2> QED
        BY <1>0, <2>1, <2>2, <2>3
<1> QED
    BY <1>2, <1>3, RatesWrites

\* A new row takes its rates and its day from a session they suit.
LEMMA RatesBookedStep ==
    TypeOK /\ Booked /\ Carried /\ RatesCarried /\ RatesBooked
           /\ NoRatesWithinGrace /\ [Next]_vars
        => RatesBooked' /\ NoRatesWithinGrace'
<1> SUFFICES ASSUME TypeOK, Booked, Carried, RatesCarried, RatesBooked,
                    NoRatesWithinGrace, [Next]_vars,
                    NEW d \in Charges, charge'[d].rates
             PROVE  /\ charge'[d].parcela \in Parcelas
                    /\ charge'[d].utc > Due[charge'[d].parcela] + Carencia
    BY DEF RatesBooked, NoRatesWithinGrace
<1>1. CASE /\ charge'[d].parcela = charge[d].parcela
           /\ charge'[d].rates = charge[d].rates
           /\ charge'[d].utc = charge[d].utc
    BY <1>1 DEF RatesBooked, NoRatesWithinGrace
<1>2. ASSUME NEW w \in Workers, CommitCharge(w), d = sess[w].c
      PROVE  /\ charge'[d].parcela \in Parcelas
             /\ charge'[d].utc > Due[charge'[d].parcela] + Carencia
    BY <1>2, NewRow DEF RatesCarried
<1> QED
    BY <1>1, <1>2, ChargeWrites

-----------------------------------------------------------------------------
\* The invariant is inductive.
LEMMA Inductive == IInv /\ [Next]_vars => IInv'
BY TypeStep, BookedStep, KnownStep, CarriedStep, BackedStep,
   RatesCarriedStep, RatesBookedStep DEF IInv

\* The invariant holds in every behaviour.
LEMMA Invariance == Spec => []IInv
BY InitIInv, Inductive, PTL DEF Spec

\* Typing, for any number of instalments, charges and sessions.
THEOREM TypeCorrect == Spec => []TypeOK
<1>1. IInv => TypeOK
    BY DEF IInv
<1> QED
    BY <1>1, Invariance, PTL

\* However sessions interleave and fail, an instalment is shown as paid only
\* when the PSP received money for one of its own charges.
THEOREM PaidParcelasAreBacked == Spec => []PaidIsBacked
<1>1. IInv => PaidIsBacked
    BY DEF IInv
<1> QED
    BY <1>1, Invariance, PTL

\* The webhook of a payment always finds the row of its charge, and the row
\* names the instalment the PSP charged for: a brcode leaves the server only
\* after the commit.
THEOREM PaymentsFindTheirCharge == Spec => []PaymentFindsItsCharge
<1>1. IInv => PaymentFindsItsCharge
    BY DEF IInv, PaymentFindsItsCharge, Known, Booked, Exists
<1> QED
    BY <1>1, Invariance, PTL

\* No charge carries multa or juros that was created before the grace period
\* had passed by the server's calendar, even when the session decided on them
\* on an earlier day.
THEOREM NoEarlyRates == Spec => []NoRatesWithinGrace
<1>1. IInv => NoRatesWithinGrace
    BY DEF IInv
<1> QED
    BY <1>1, Invariance, PTL
-----------------------------------------------------------------------------
(* Stray charges *)

\* Session s is going to write charge c off, as it has told the PSP.
WritesOff(s, c) == \/ s.flip = "canceled" /\ s.last = c
                   \/ c \in s.done

Lost(c) == charge[c].status \in {"absent", "canceled"}

\* The charges that are stray, or will be when a session commits.
Doomed ==
    {c \in Charges :
        /\ psp[c].status = "active"
        /\ \/ Lost(c) /\ \A w \in Workers : sess[w].c # c
           \/ \E w \in Workers : WritesOff(sess[w], c)}

\* A session has a charge in hand only between two of its steps on it.
InHand ==
    \A w \in Workers :
        /\ sess[w].pc \notin {"store", "webhook", "settle", "expire"} =>
              sess[w].c = None
        /\ sess[w].flip = "canceled" => sess[w].pc \in {"create", "store"}

FewDoomed == IsFiniteSet(Doomed) /\ Cardinality(Doomed) <= faults

LEMMA InHandStep == TypeOK /\ InHand /\ [Next]_vars => InHand'
<1> SUFFICES ASSUME TypeOK, InHand, [Next]_vars PROVE InHand'
    OBVIOUS
<1> DEFINE Fine(s) ==
       /\ s.pc \notin {"store", "webhook", "settle", "expire"} => s.c = None
       /\ s.flip = "canceled" => s.pc \in {"create", "store"}
<1>0. \A w \in Workers : sess[w] \in Session /\ Fine(sess[w])
    BY DEF TypeOK, InHand
<1>1. CASE UNCHANGED sess
    BY <1>1 DEF InHand
<1>2. ASSUME NEW w \in Workers, NEW S, sess' = [sess EXCEPT ![w] = S], Fine(S)
      PROVE  InHand'
    <2>1. \A v \in Workers : Fine(sess'[v])
        BY <1>0, <1>2 DEF TypeOK
    <2> QED
        BY <2>1 DEF InHand
<1>3. Fine(Closed)
    BY DEF Closed
<1>4. ASSUME NEW w \in Workers, Close(w) PROVE InHand'
    BY <1>2, <1>3, <1>4 DEF Close
<1>5. ASSUME NEW w \in Workers, NEW p \in Parcelas, StartCharge(w, p) PROVE InHand'
    BY <1>2, <1>5 DEF StartCharge, Open, Closed
<1>6. ASSUME NEW w \in Workers, ReplaceExisting(w) PROVE InHand'
    <2> DEFINE rates == PastGrace(sess[w].p, sess[w].status)
               pc == IF sess[w].last # None /\ Flipped(sess[w].last) = "pending"
                     THEN "cancelOld" ELSE "create"
               flip == IF /\ sess[w].last # None
                          /\ charge[sess[w].last].status # Flipped(sess[w].last)
                       THEN "expired" ELSE "pending"
    <2>1. pc \in {"cancelOld", "create"} /\ flip # "canceled"
        OBVIOUS
    <2>2. sess[w].c = None
        BY <1>0, <1>6 DEF ReplaceExisting
    <2>3. sess' = [sess EXCEPT ![w].pc = pc, ![w].rates = rates, ![w].flip = flip]
        BY <1>6, Zenon DEF ReplaceExisting
    <2> HIDE DEF rates, pc, flip
    <2>4. sess' = [sess EXCEPT ![w] =
                     [sess[w] EXCEPT !.pc = pc, !.rates = rates, !.flip = flip]]
        BY <2>3
    <2> QED
        BY <1>0, <1>2, <2>1, <2>2, <2>4 DEF Session
<1>7. ASSUME NEW w \in Workers, CancelStale(w) PROVE InHand'
    <2>1. /\ sess' = [sess EXCEPT ![w] =
                        [sess[w] EXCEPT !.pc = "create", !.flip = "canceled"]]
          /\ sess[w].c = None
        BY <1>0, <1>7 DEF CancelStale
    <2> QED
        BY <1>0, <1>2, <2>1 DEF Session
<1>8. ASSUME NEW w \in Workers, NEW c \in Charges, CreateAtPsp(w, c) PROVE InHand'
    <2>1. sess' = [sess EXCEPT ![w] = [sess[w] EXCEPT !.pc = "store", !.c = c]]
        BY <1>8 DEF CreateAtPsp
    <2> QED
        BY <1>0, <1>2, <2>1 DEF Session
<1>9. ASSUME NEW w \in Workers, NEW c \in Charges,
             StartWebhook(w, c) \/ StartGetCharge(w, c)
      PROVE  InHand'
    BY <1>2, <1>9 DEF StartWebhook, StartGetCharge, Open, Closed
<1>10. ASSUME NEW w \in Workers, LoadParcela(w) PROVE InHand'
    <2> DEFINE status == parcela[sess[w].p].status
               last == parcela[sess[w].p].last
    <2>1. /\ sess' = [sess EXCEPT ![w] = [sess[w] EXCEPT
                        !.pc = "settle", !.status = status, !.last = last]]
          /\ sess[w].flip # "canceled"
        BY <1>0, <1>10 DEF LoadParcela
    <2> HIDE DEF status, last
    <2> QED
        BY <1>0, <1>2, <2>1 DEF Session
<1>11. ASSUME NEW w \in Workers, StartOverdue(w) \/ StartCancel(w) PROVE InHand'
    BY <1>2, <1>11 DEF StartOverdue, StartCancel, Open, Closed
<1>12. ASSUME NEW w \in Workers, VoidParcelas(w) PROVE InHand'
    <2> DEFINE todo == {parcela[p].last : p \in Parcelas} \ {None}
    <2>1. /\ sess' = [sess EXCEPT ![w] =
                        [sess[w] EXCEPT !.pc = "cancel", !.todo = todo]]
          /\ sess[w].c = None /\ sess[w].flip # "canceled"
        BY <1>0, <1>12 DEF VoidParcelas
    <2> HIDE DEF todo
    <2> QED
        BY <1>0, <1>2, <2>1 DEF Session
<1>13. ASSUME NEW w \in Workers, NEW c \in Charges, CancelOne(w, c) PROVE InHand'
    <2>1. /\ \/ sess' = [sess EXCEPT ![w] = [sess[w] EXCEPT
                           !.todo = @ \ {c}, !.done = @ \cup {c}]]
             \/ sess' = [sess EXCEPT ![w] = [sess[w] EXCEPT !.todo = @ \ {c}]]
          /\ sess[w].pc = "cancel"
        BY <1>13 DEF CancelOne
    <2> QED
        BY <1>0, <1>2, <2>1 DEF Session
<1> QED
    BY <1>1, <1>4, <1>5, <1>6, <1>7, <1>8, <1>9, <1>10, <1>11, <1>12, <1>13
    DEF Next, vars, ReturnExisting, CreateFails, CommitCharge, CommitWebhook,
        CommitExpired, CommitOverdue, CommitCancel, LoseSession, Pay, NextDay, Evening

\* A step of session w adds no charge c to the doomed ones unless the PSP begins
\* to take it, w lets go of it or tells the PSP to cancel it.
LEMMA DoomedBefore ==
    ASSUME TypeOK, NEW w \in Workers, NEW S, sess' = [sess EXCEPT ![w] = S],
           NEW c \in Charges, c \in Doomed',
           psp'[c].status = "active" => psp[c].status = "active",
           Lost(c)' => Lost(c) \/ WritesOff(sess[w], c),
           sess[w].c = c => S.c = c \/ ~Lost(c)' \/ psp'[c].status # "active",
           WritesOff(S, c) => WritesOff(sess[w], c) \/ psp'[c].status # "active"
    PROVE  c \in Doomed
<1>1. /\ sess'[w] = S
      /\ \A v \in Workers \ {w} : sess'[v] = sess[v]
    BY DEF TypeOK
<1>2. /\ psp'[c].status = "active" /\ psp[c].status = "active"
      /\ \/ Lost(c)' /\ \A v \in Workers : sess'[v].c # c
         \/ \E v \in Workers : WritesOff(sess'[v], c)
    BY DEF Doomed, WritesOff
<1>3. CASE \E v \in Workers : WritesOff(sess'[v], c)
    <2>1. PICK v \in Workers : WritesOff(sess'[v], c)
        BY <1>3
    <2>2. \E u \in Workers : WritesOff(sess[u], c)
        BY <1>1, <1>2, <2>1
    <2> QED
        BY <1>2, <2>2 DEF Doomed
<1>4. CASE Lost(c)' /\ \A v \in Workers : sess'[v].c # c
    <2>1. CASE WritesOff(sess[w], c)
        BY <1>2, <2>1 DEF Doomed
    <2>2. CASE Lost(c)
        <3>1. \A v \in Workers : sess[v].c # c
            BY <1>1, <1>2, <1>4
        <3> QED
            BY <1>2, <2>2, <3>1 DEF Doomed
    <2> QED
        BY <1>4, <2>1, <2>2
<1> QED
    BY <1>2, <1>3, <1>4

\* A step adds at most one charge to the doomed ones, and only with a failure.
DoomedStep ==
    \/ Doomed' \subseteq Doomed /\ faults' = faults
    \/ /\ faults' = faults + 1
       /\ \E x : Doomed' \subseteq Doomed \cup {x}

LEMMA NoneDoomedByEnd ==
    ASSUME TypeOK, NEW w \in Workers, Close(w),
           UNCHANGED <<psp, faults>>,
           \A c \in Charges : Lost(c)' => Lost(c) \/ WritesOff(sess[w], c),
           \A c \in Charges :
               sess[w].c = c => ~Lost(c)' \/ psp[c].status # "active"
    PROVE  DoomedStep
<1>1. \A c \in Charges : ~WritesOff(Closed, c)
    BY DEF WritesOff, Closed
<1>2. ASSUME NEW c \in Charges, c \in Doomed' PROVE c \in Doomed
    <2>1. psp' = psp /\ sess' = [sess EXCEPT ![w] = Closed] /\ ~WritesOff(Closed, c)
        BY <1>1 DEF Close
    <2>2. Lost(c)' => Lost(c) \/ WritesOff(sess[w], c)
        OBVIOUS
    <2>3. sess[w].c = c => ~Lost(c)' \/ psp'[c].status # "active"
        BY <2>1
    <2> QED
        BY <1>2, <2>1, <2>2, <2>3, DoomedBefore
<1> QED
    BY <1>2 DEF DoomedStep, Doomed

\* A call to cancel charge x fails, or the PSP no longer takes it.
LEMMA PspCancelEnds ==
    ASSUME TypeOK, NEW x \in Charges, PspCancel(x), psp[x].status # "unknown"
    PROVE  /\ \A c \in Charges : psp'[c].status = "active" => psp[c].status = "active"
           /\ \/ psp'[x].status # "active" /\ faults' = faults
              \/ faults' = faults + 1
BY DEF PspCancel, TypeOK, PspRow

LEMMA DoomedMoves ==
    TypeOK /\ Booked /\ Known /\ Carried /\ InHand /\ [Next]_vars => DoomedStep
<1> SUFFICES ASSUME TypeOK, Booked, Known, Carried, InHand, [Next]_vars
             PROVE  DoomedStep
    OBVIOUS
<1>0. /\ \A w \in Workers : sess[w] \in Session /\ CarriedBy(sess[w])
      /\ None \notin Charges
    BY BillingAssumption DEF TypeOK, Carried
<1>1. CASE UNCHANGED <<charge, psp, sess, faults>>
    BY <1>1 DEF DoomedStep, Doomed, Lost, WritesOff
<1>2. ASSUME NEW w \in Workers, Close(w), UNCHANGED <<charge, psp, faults>>,
             sess[w].pc \notin {"store", "webhook", "settle", "expire"}
      PROVE  DoomedStep
    <2>1. sess[w].c = None
        BY <1>2 DEF InHand
    <2>2. \A c \in Charges : Lost(c)' => Lost(c)
        BY <1>2 DEF Lost
    <2> QED
        BY <1>0, <1>2, <2>1, <2>2, NoneDoomedByEnd
\* A session that opens is about no charge yet, or about one that has a row.
<1>3. ASSUME NEW w \in Workers, NEW S, Open(w, S), UNCHANGED <<charge, psp, faults>>,
             S.flip = "pending", S.done = {}
      PROVE  DoomedStep
    <2>1. sess' = [sess EXCEPT ![w] = S] /\ sess[w].c = None
        BY <1>3 DEF Open, InHand
    <2>2. \A c \in Charges : Lost(c)' => Lost(c)
        BY <1>3 DEF Lost
    <2>3. \A c \in Charges : ~WritesOff(S, c)
        BY <1>3 DEF WritesOff
    <2>4. ASSUME NEW c \in Charges, c \in Doomed' PROVE c \in Doomed
        BY <1>0, <1>3, <2>1, <2>2, <2>3, <2>4, DoomedBefore
    <2> QED
        BY <1>3, <2>4 DEF DoomedStep, Doomed
\* A session that goes on with the same charges.
<1>4. ASSUME NEW w \in Workers, NEW S, sess' = [sess EXCEPT ![w] = S],
             UNCHANGED <<charge, psp, faults>>,
             S.c = sess[w].c, S.done = sess[w].done, S.flip # "canceled"
      PROVE  DoomedStep
    <2>1. \A c \in Charges : Lost(c)' => Lost(c)
        BY <1>4 DEF Lost
    <2>2. \A c \in Charges : WritesOff(S, c) => WritesOff(sess[w], c)
        BY <1>4 DEF WritesOff
    <2>3. ASSUME NEW c \in Charges, c \in Doomed' PROVE c \in Doomed
        BY <1>4, <2>1, <2>2, <2>3, DoomedBefore
    <2> QED
        BY <1>4, <2>3 DEF DoomedStep, Doomed
<1>5. ASSUME NEW w \in Workers, NEW p \in Parcelas, StartCharge(w, p)
      PROVE  DoomedStep
    <2> DEFINE S == [Closed EXCEPT !.pc = "ensure", !.p = p,
                       !.status = parcela[p].status, !.last = parcela[p].last]
    <2>1. Open(w, S) /\ UNCHANGED <<charge, psp, faults>>
        BY <1>5 DEF StartCharge
    <2>2. S.flip = "pending" /\ S.done = {}
        BY DEF Closed
    <2> HIDE DEF S
    <2> QED
        BY <1>3, <2>1, <2>2
<1>6. ASSUME NEW w \in Workers, NEW x \in Charges,
             StartWebhook(w, x) \/ StartGetCharge(w, x)
      PROVE  DoomedStep
    <2> DEFINE S == [Closed EXCEPT !.pc = "webhook", !.c = x, !.p = charge[x].parcela]
               T == [Closed EXCEPT !.pc = "expire", !.c = x]
    <2>1. (Open(w, S) \/ Open(w, T)) /\ UNCHANGED <<charge, psp, faults>>
        BY <1>6 DEF StartWebhook, StartGetCharge
    <2>2. S.flip = "pending" /\ S.done = {} /\ T.flip = "pending" /\ T.done = {}
        BY DEF Closed
    <2> HIDE DEF S, T
    <2> QED
        BY <1>3, <2>1, <2>2
<1>7. ASSUME NEW w \in Workers, StartOverdue(w) \/ StartCancel(w)
      PROVE  DoomedStep
    <2> DEFINE S == [Closed EXCEPT !.pc = "overdue", !.batch = PastDue]
               T == [Closed EXCEPT !.pc = "void"]
    <2>1. (Open(w, S) \/ Open(w, T)) /\ UNCHANGED <<charge, psp, faults>>
        BY <1>7 DEF StartOverdue, StartCancel
    <2>2. S.flip = "pending" /\ S.done = {} /\ T.flip = "pending" /\ T.done = {}
        BY DEF Closed
    <2> HIDE DEF S, T
    <2> QED
        BY <1>3, <2>1, <2>2
<1>8. ASSUME NEW w \in Workers, ReplaceExisting(w) PROVE DoomedStep
    <2> DEFINE rates == PastGrace(sess[w].p, sess[w].status)
               pc == IF sess[w].last # None /\ Flipped(sess[w].last) = "pending"
                     THEN "cancelOld" ELSE "create"
               flip == IF /\ sess[w].last # None
                          /\ charge[sess[w].last].status # Flipped(sess[w].last)
                       THEN "expired" ELSE "pending"
               S == [sess[w] EXCEPT !.pc = pc, !.rates = rates, !.flip = flip]
    <2>1. flip # "canceled"
        OBVIOUS
    <2>2. /\ sess' = [sess EXCEPT ![w].pc = pc, ![w].rates = rates, ![w].flip = flip]
          /\ UNCHANGED <<charge, psp, faults>>
        BY <1>8, Zenon DEF ReplaceExisting
    <2> HIDE DEF rates, pc, flip
    <2>3. sess' = [sess EXCEPT ![w] = S]
        BY <2>2
    <2>4. S.c = sess[w].c /\ S.done = sess[w].done /\ S.flip # "canceled"
        BY <1>0, <2>1 DEF Session
    <2> HIDE DEF S
    <2> QED
        BY <1>4, <2>2, <2>3, <2>4
<1>9. ASSUME NEW w \in Workers, LoadParcela(w) PROVE DoomedStep
    <2> DEFINE status == parcela[sess[w].p].status
               last == parcela[sess[w].p].last
               S == [sess[w] EXCEPT !.pc = "settle", !.status = status, !.last = last]
    <2>1. /\ sess' = [sess EXCEPT ![w] = S] /\ UNCHANGED <<charge, psp, faults>>
          /\ sess[w].flip # "canceled"
        BY <1>9 DEF LoadParcela, InHand
    <2> HIDE DEF status, last
    <2>2. S.c = sess[w].c /\ S.done = sess[w].done /\ S.flip # "canceled"
        BY <1>0, <2>1 DEF Session
    <2> HIDE DEF S
    <2> QED
        BY <1>4, <2>1, <2>2
<1>10. ASSUME NEW w \in Workers, VoidParcelas(w) PROVE DoomedStep
    <2> DEFINE todo == {parcela[p].last : p \in Parcelas} \ {None}
               S == [sess[w] EXCEPT !.pc = "cancel", !.todo = todo]
    <2>1. /\ sess' = [sess EXCEPT ![w] = S] /\ UNCHANGED <<charge, psp, faults>>
          /\ sess[w].flip # "canceled"
        BY <1>10 DEF VoidParcelas, InHand
    <2> HIDE DEF todo
    <2>2. S.c = sess[w].c /\ S.done = sess[w].done /\ S.flip # "canceled"
        BY <1>0, <2>1 DEF Session
    <2> HIDE DEF S
    <2> QED
        BY <1>4, <2>1, <2>2
\* The PSP is told to cancel a charge, and either removes it or is a failure.
<1>11. ASSUME NEW w \in Workers, NEW S, NEW x \in Charges,
              sess' = [sess EXCEPT ![w] = S], UNCHANGED charge,
              psp[x].status # "unknown", PspCancel(x), S.c = sess[w].c,
              \A c \in Charges \ {x} : WritesOff(S, c) => WritesOff(sess[w], c)
       PROVE  DoomedStep
    <2>1. \A c \in Charges : Lost(c)' => Lost(c)
        BY <1>11 DEF Lost
    <2>2. /\ \A c \in Charges : psp'[c].status = "active" => psp[c].status = "active"
          /\ \/ psp'[x].status # "active" /\ faults' = faults
             \/ faults' = faults + 1
        BY <1>11, PspCancelEnds
    <2>3. ASSUME NEW c \in Charges, c \in Doomed',
                 c # x \/ psp'[x].status # "active"
          PROVE  c \in Doomed
        BY <1>11, <2>1, <2>2, <2>3, DoomedBefore
    <2>4. Doomed' \subseteq Doomed \cup {x}
        BY <2>3 DEF Doomed
    <2>5. psp'[x].status # "active" => Doomed' \subseteq Doomed
        BY <2>3 DEF Doomed
    <2> QED
        BY <2>2, <2>4, <2>5 DEF DoomedStep
<1>12. ASSUME NEW w \in Workers, CancelStale(w) PROVE DoomedStep
    <2> DEFINE S == [sess[w] EXCEPT !.pc = "create", !.flip = "canceled"]
               x == sess[w].last
    <2>1. /\ sess' = [sess EXCEPT ![w] = S] /\ UNCHANGED charge
          /\ PspCancel(x) /\ sess[w].pc = "cancelOld"
        BY <1>12 DEF CancelStale
    <2>2. x \in Charges /\ psp[x].status # "unknown"
        BY <1>0, <2>1 DEF CarriedBy, Session, Booked
    <2>3. S.c = sess[w].c /\ S.last = x /\ S.done = sess[w].done
        BY <1>0 DEF Session
    <2> HIDE DEF S
    <2>4. \A c \in Charges \ {x} : WritesOff(S, c) => WritesOff(sess[w], c)
        BY <2>3 DEF WritesOff
    <2> HIDE DEF x
    <2> QED
        BY <1>11, <2>1, <2>2, <2>3, <2>4
<1>13. ASSUME NEW w \in Workers, NEW x \in Charges, CancelOne(w, x) PROVE DoomedStep
    <2>1. sess[w].pc = "cancel" /\ x \in sess[w].todo /\ UNCHANGED charge
        BY <1>13 DEF CancelOne
    <2>2. psp[x].status # "unknown" /\ sess[w].flip # "canceled"
        BY <1>0, <2>1 DEF CarriedBy, Booked, InHand
    <2>3. CASE charge[x].status = "pending"
        <3> DEFINE S == [sess[w] EXCEPT !.todo = @ \ {x}, !.done = @ \cup {x}]
        <3>1. sess' = [sess EXCEPT ![w] = S] /\ PspCancel(x)
            BY <1>13, <2>3 DEF CancelOne
        <3>2. S.c = sess[w].c /\ S.flip = sess[w].flip /\ S.done = sess[w].done \cup {x}
            BY <1>0 DEF Session
        <3> HIDE DEF S
        <3>3. \A c \in Charges \ {x} : WritesOff(S, c) => WritesOff(sess[w], c)
            BY <2>2, <3>2 DEF WritesOff
        <3> QED
            BY <1>11, <2>1, <2>2, <3>1, <3>2, <3>3
    <2>4. CASE charge[x].status # "pending"
        <3> DEFINE S == [sess[w] EXCEPT !.todo = @ \ {x}]
        <3>1. sess' = [sess EXCEPT ![w] = S] /\ UNCHANGED <<psp, faults>>
            BY <1>13, <2>4 DEF CancelOne
        <3>2. S.c = sess[w].c /\ S.flip # "canceled" /\ S.done = sess[w].done
            BY <1>0, <2>2 DEF Session
        <3> HIDE DEF S
        <3> QED
            BY <1>4, <2>1, <3>1, <3>2
    <2> QED
        BY <2>3, <2>4
\* A charge that the PSP begins to take is in the hand of its session, or its
\* session has failed.
<1>14. ASSUME NEW w \in Workers, NEW x \in Charges, CreateAtPsp(w, x)
       PROVE  DoomedStep
    <2> DEFINE S == [sess[w] EXCEPT !.pc = "store", !.c = x]
    <2>1. /\ sess' = [sess EXCEPT ![w] = S] /\ UNCHANGED <<charge, faults>>
          /\ sess[w].pc = "create" /\ charge[x].status = "absent"
          /\ psp' = [psp EXCEPT ![x] = AtPsp(sess[w].p)]
        BY <1>14 DEF CreateAtPsp, Fresh
    <2>2. S.c = x /\ S.flip = sess[w].flip /\ S.last = sess[w].last
          /\ S.done = sess[w].done /\ sess[w].c = None
        BY <1>0, <2>1 DEF Session, InHand
    <2> HIDE DEF S
    <2>3. sess'[w] = S /\ \A v \in Workers \ {w} : sess'[v] = sess[v]
        BY <2>1 DEF TypeOK
    <2>4. \A v \in Workers : ~WritesOff(sess[v], x)
        <3>1. ~Exists(x)
            BY <2>1 DEF Exists
        <3> QED
            BY <1>0, <3>1 DEF WritesOff, CarriedBy
    <2>5. \A c \in Charges : WritesOff(S, c) <=> WritesOff(sess[w], c)
        BY <2>2 DEF WritesOff
    <2>6. x \notin Doomed'
        <3>1. \A v \in Workers : ~WritesOff(sess'[v], x)
            BY <2>3, <2>4, <2>5
        <3> QED
            BY <2>2, <2>3, <3>1 DEF Doomed, WritesOff
    <2>7. \A c \in Charges : Lost(c)' => Lost(c)
        BY <2>1 DEF Lost
    <2>8. \A c \in Charges \ {x} : psp'[c] = psp[c]
        BY <2>1 DEF TypeOK
    <2>9. ASSUME NEW c \in Charges, c \in Doomed' PROVE c \in Doomed
        BY <1>0, <2>1, <2>2, <2>5, <2>6, <2>7, <2>8, <2>9, DoomedBefore
    <2> QED
        BY <2>1, <2>9 DEF DoomedStep, Doomed
<1>15. ASSUME NEW w \in Workers, NEW x,
              sess' = [sess EXCEPT ![w] = Closed], UNCHANGED charge,
              faults' = faults + 1,
              \A c \in Charges \ {x} : psp'[c] = psp[c] /\ sess[w].c # c
       PROVE  DoomedStep
    <2>1. \A c \in Charges : ~WritesOff(Closed, c) /\ (Lost(c)' => Lost(c))
        BY <1>15 DEF WritesOff, Closed, Lost
    <2>2. ASSUME NEW c \in Charges \ {x}, c \in Doomed' PROVE c \in Doomed
        BY <1>15, <2>1, <2>2, DoomedBefore
    <2>3. Doomed' \subseteq Doomed \cup {x}
        BY <2>2 DEF Doomed
    <2> QED
        BY <1>15, <2>3 DEF DoomedStep
<1>16. ASSUME NEW w \in Workers, NEW x \in Charges, CreateFails(w, x)
       PROVE  DoomedStep
    <2>1. /\ sess' = [sess EXCEPT ![w] = Closed] /\ UNCHANGED charge
          /\ faults' = faults + 1 /\ sess[w].c = None
          /\ psp' = psp \/ psp' = [psp EXCEPT ![x] = AtPsp(sess[w].p)]
        BY <1>16 DEF CreateFails, Close, InHand
    <2>2. \A c \in Charges \ {x} : psp'[c] = psp[c] /\ sess[w].c # c
        BY <1>0, <2>1 DEF TypeOK
    <2> QED
        BY <1>15, <2>1, <2>2
<1>17. ASSUME NEW w \in Workers, LoseSession(w) PROVE DoomedStep
    <2>1. /\ sess' = [sess EXCEPT ![w] = Closed] /\ UNCHANGED <<charge, psp>>
          /\ faults' = faults + 1
        BY <1>17 DEF LoseSession, Close
    <2>2. PICK x : x = sess[w].c
        OBVIOUS
    <2> QED
        BY <1>15, <2>1, <2>2
\* The commits write off what they were going to, and the charge in hand
\* becomes pending, expired or paid.
<1>18. ASSUME NEW w \in Workers, CommitCharge(w) PROVE DoomedStep
    <2>1. /\ Close(w) /\ UNCHANGED <<psp, faults>>
          /\ sess[w].c \in Charges /\ charge'[sess[w].c].status = "pending"
        BY <1>18, NewRow DEF CommitCharge
    <2>2. ASSUME NEW c \in Charges, sess[w].c = c PROVE ~Lost(c)'
        BY <2>1, <2>2 DEF Lost
    <2>3. ASSUME NEW c \in Charges, Lost(c)' PROVE Lost(c) \/ WritesOff(sess[w], c)
        <3>1. c # sess[w].c
            BY <2>2, <2>3
        <3>2. CASE c = sess[w].last /\ sess[w].flip # "pending"
            <4>1. charge'[c] = [charge[c] EXCEPT !.status = sess[w].flip]
                BY <1>18, <3>1, <3>2 DEF CommitCharge
            <4>2. sess[w].flip \in {"expired", "canceled"} /\ charge[c] \in ChargeRow
                BY <1>0, <3>2 DEF Session, TypeOK
            <4>3. charge'[c].status = sess[w].flip
                BY <4>1, <4>2 DEF ChargeRow
            <4> QED
                BY <2>3, <3>2, <4>2, <4>3 DEF Lost, WritesOff
        <3>3. CASE ~(c = sess[w].last /\ sess[w].flip # "pending")
            <4>1. charge'[c] = charge[c]
                BY <1>18, <3>1, <3>3 DEF CommitCharge
            <4> QED
                BY <2>3, <4>1 DEF Lost
        <3> QED
            BY <3>2, <3>3
    <2> QED
        BY <2>1, <2>2, <2>3, NoneDoomedByEnd
<1>19. ASSUME NEW w \in Workers, CommitWebhook(w) \/ CommitExpired(w)
       PROVE  DoomedStep
    <2>1. PICK status \in {"paid", "expired"} :
            charge' = [charge EXCEPT ![sess[w].c].status = status]
        BY <1>19 DEF CommitWebhook, CommitExpired
    <2>2. Close(w) /\ UNCHANGED <<psp, faults>>
        BY <1>19 DEF CommitWebhook, CommitExpired
    <2>3. \A c \in Charges : Lost(c)' => Lost(c) /\ c # sess[w].c
        BY <2>1 DEF Lost, TypeOK, ChargeRow
    <2> QED
        BY <2>2, <2>3, NoneDoomedByEnd
<1>20. ASSUME NEW w \in Workers, CommitCancel(w) PROVE DoomedStep
    <2>1. /\ Close(w) /\ UNCHANGED <<psp, faults>> /\ sess[w].c = None
          /\ \A c \in Charges \ sess[w].done : charge'[c] = charge[c]
        BY <1>20 DEF CommitCancel, InHand
    <2>2. \A c \in Charges : Lost(c)' => Lost(c) \/ WritesOff(sess[w], c)
        BY <2>1 DEF Lost, WritesOff
    <2> QED
        BY <1>0, <2>1, <2>2, NoneDoomedByEnd
<1>21. ASSUME NEW x \in Charges, Pay(x) PROVE DoomedStep
    <2>1. /\ UNCHANGED <<charge, sess, faults>>
          /\ \A c \in Charges : psp'[c].status = "active" => psp[c].status = "active"
        BY <1>21 DEF Pay, TypeOK, PspRow
    <2>2. ASSUME NEW c \in Charges, c \in Doomed' PROVE c \in Doomed
        BY <2>1, <2>2 DEF Doomed, Lost, WritesOff
    <2> QED
        BY <2>1, <2>2 DEF DoomedStep, Doomed
<1>22. CASE \E w \in Workers : ReturnExisting(w) \/ CommitOverdue(w)
    BY <1>2, <1>22 DEF ReturnExisting, CommitOverdue
<1>23. CASE \/ \E w \in Workers :
                  \/ \E p \in Parcelas : StartCharge(w, p)
                  \/ ReplaceExisting(w) \/ CancelStale(w) \/ LoadParcela(w)
                  \/ \E c \in Charges : CreateAtPsp(w, c) \/ CreateFails(w, c)
                  \/ \E c \in Charges : StartWebhook(w, c) \/ StartGetCharge(w, c)
                  \/ StartOverdue(w) \/ StartCancel(w) \/ VoidParcelas(w)
    BY <1>5, <1>6, <1>7, <1>8, <1>9, <1>10, <1>12, <1>14, <1>16, <1>23
<1>24. CASE \/ \E w \in Workers :
                  \/ CommitCharge(w) \/ CommitWebhook(w) \/ CommitExpired(w)
                  \/ CommitCancel(w) \/ LoseSession(w)
                  \/ \E c \in Charges : CancelOne(w, c)
            \/ \E c \in Charges : Pay(c)
    BY <1>13, <1>17, <1>18, <1>19, <1>20, <1>21, <1>24
<1>25. CASE NextDay \/ Evening \/ UNCHANGED vars
    BY <1>1, <1>25 DEF NextDay, Evening, vars
<1> QED
    BY <1>22, <1>23, <1>24, <1>25 DEF Next

LEMMA FewDoomedStep ==
    TypeOK /\ Booked /\ Known /\ Carried /\ InHand /\ FewDoomed /\ [Next]_vars
        => FewDoomed'
<1> SUFFICES ASSUME TypeOK, Booked, Known, Carried, InHand, FewDoomed, [Next]_vars
             PROVE  FewDoomed'
    OBVIOUS
<1>1. DoomedStep /\ faults \in Nat /\ IsFiniteSet(Doomed)
      /\ Cardinality(Doomed) <= faults
    BY DoomedMoves DEF TypeOK, FewDoomed
<1>2. Cardinality(Doomed) \in Nat
    BY <1>1, FS_CardinalityType
<1>3. ASSUME Doomed' \subseteq Doomed, faults' = faults
      PROVE  FewDoomed'
    <2>1. IsFiniteSet(Doomed') /\ Cardinality(Doomed') <= Cardinality(Doomed)
        BY <1>1, <1>3, FS_Subset
    <2>2. Cardinality(Doomed') \in Nat
        BY <2>1, FS_CardinalityType
    <2> QED
        BY <1>1, <1>2, <1>3, <2>1, <2>2 DEF FewDoomed
<1>4. ASSUME NEW x, Doomed' \subseteq Doomed \cup {x}, faults' = faults + 1
      PROVE  FewDoomed'
    <2>1. /\ IsFiniteSet(Doomed \cup {x})
          /\ \/ Cardinality(Doomed \cup {x}) = Cardinality(Doomed)
             \/ Cardinality(Doomed \cup {x}) = Cardinality(Doomed) + 1
        BY <1>1, FS_AddElement
    <2>2. /\ IsFiniteSet(Doomed')
          /\ Cardinality(Doomed') <= Cardinality(Doomed \cup {x})
        BY <1>4, <2>1, FS_Subset
    <2>3. Cardinality(Doomed') \in Nat
        BY <2>2, FS_CardinalityType
    <2> QED
        BY <1>1, <1>2, <1>4, <2>1, <2>2, <2>3 DEF FewDoomed
<1> QED
    BY <1>1, <1>3, <1>4 DEF DoomedStep

\* A charge the PSP would still take, and that the database has written off or
\* never had, is the trace of a failure, however sessions interleave.
THEOREM StrayChargesComeFromFailures == Spec => []StrayChargesAreFailures
<1>1. Init => InHand /\ FewDoomed
    <2> SUFFICES ASSUME Init PROVE InHand /\ FewDoomed
        OBVIOUS
    <2>1. InHand
        BY DEF Init, InHand, Closed
    <2>2. Doomed = {}
        BY DEF Init, Doomed
    <2>3. IsFiniteSet(Doomed) /\ Cardinality(Doomed) = 0
        BY <2>2, FS_EmptySet
    <2> QED
        BY <2>1, <2>3 DEF FewDoomed, Init
<1>2. IInv /\ InHand /\ FewDoomed /\ [Next]_vars => (InHand /\ FewDoomed)'
    BY InHandStep, FewDoomedStep DEF IInv
<1>3. ASSUME IInv, FewDoomed PROVE StrayChargesAreFailures
    <2>1. Stray \ InFlight \subseteq Doomed
        BY DEF Stray, InFlight, Doomed, Lost
    <2>2. /\ Cardinality(Stray \ InFlight) <= Cardinality(Doomed)
          /\ IsFiniteSet(Stray \ InFlight)
        BY <1>3, <2>1, FS_Subset DEF FewDoomed
    <2>3. Cardinality(Stray \ InFlight) \in Nat /\ Cardinality(Doomed) \in Nat
        BY <1>3, <2>2, FS_CardinalityType DEF FewDoomed
    <2> QED
        BY <1>3, <2>2, <2>3 DEF StrayChargesAreFailures, FewDoomed, IInv, TypeOK
<1> QED
    BY <1>1, <1>2, <1>3, Invariance, PTL DEF Spec

-----------------------------------------------------------------------------
(* Sessions that do not overlap *)

OneSession == \A v, w \in Workers : v = w

\* What a session loaded is still so when nobody else can have written it.
StillSo(s) ==
    /\ s.pc \in {"ensure", "cancelOld", "create", "store"} =>
         /\ s.status = parcela[s.p].status /\ s.status \in {"open", "overdue"}
         /\ s.last = parcela[s.p].last
    /\ s.pc = "cancelOld" => charge[s.last].status = "pending"
    /\ s.pc \in {"create", "store"} /\ s.last # None =>
         (s.flip # "pending" <=> charge[s.last].status = "pending")
    /\ s.pc = "store" => ~Exists(s.c)
    /\ s.pc \in {"webhook", "settle"} => charge[s.c].status # "paid"
    /\ s.pc = "settle" => s.status = parcela[s.p].status
    /\ s.pc = "expire" => charge[s.c].status = "pending"
    /\ s.pc = "overdue" => \A p \in s.batch : parcela[p].status = "open"
    /\ \A c \in s.done : charge[c].status = "pending"

Current == \A w \in Workers : StillSo(sess[w])

\* The pending charge of an instalment is the one it points at, unless the
\* payment of an older one has made it paid.
LastIsPending ==
    \A c \in Charges : charge[c].status = "pending" =>
        \/ parcela[charge[c].parcela].last = c
        \/ parcela[charge[c].parcela].status \in {"paid", "canceled"}

Entered ==
    \A c \in Charges : audit[c] = IF charge[c].status = "paid" THEN 1 ELSE 0

Voided ==
    proposal = "cancelada" =>
        \A p \in Parcelas : parcela[p].status \in {"canceled", "paid"}

Alone == Current /\ LastIsPending /\ OnePendingCharge /\ Entered /\ Voided

LEMMA CurrentStep ==
    OneSession /\ TypeOK /\ Carried /\ Current /\ [Next]_vars => Current'
<1> SUFFICES ASSUME OneSession, TypeOK, Carried, Current, [Next]_vars
             PROVE  Current'
    OBVIOUS
<1>0. \A w \in Workers : /\ sess[w] \in Session /\ CarriedBy(sess[w])
                         /\ StillSo(sess[w])
    BY DEF TypeOK, Carried, Current
<1>1. CASE UNCHANGED <<charge, parcela, sess>>
    BY <1>1 DEF Current, StillSo, Exists
\* The session that a step is of is the only one.
<1>2. ASSUME NEW w \in Workers, NEW S, sess' = [sess EXCEPT ![w] = S]
      PROVE  \A v \in Workers : sess'[v] = S
    BY <1>2 DEF OneSession, TypeOK
<1>3. ASSUME NEW w \in Workers, Close(w) PROVE Current'
    <2>1. \A v \in Workers : sess'[v] = Closed
        BY <1>2, <1>3 DEF Close
    <2> QED
        BY <2>1 DEF Current, StillSo, Closed
<1>4. ASSUME NEW w \in Workers, NEW p \in Parcelas, StartCharge(w, p)
      PROVE  Current'
    <2> DEFINE S == [Closed EXCEPT !.pc = "ensure", !.p = p,
                       !.status = parcela[p].status, !.last = parcela[p].last]
    <2>1. /\ \A v \in Workers : sess'[v] = S
          /\ UNCHANGED <<charge, parcela>>
          /\ parcela[p].status \in {"open", "overdue"}
        BY <1>2, <1>4 DEF StartCharge, Open, Payable
    <2>2. /\ S.pc = "ensure" /\ S.p = p /\ S.status = parcela[p].status
          /\ S.last = parcela[p].last /\ S.done = {}
        BY DEF Closed
    <2> HIDE DEF S
    <2> QED
        BY <2>1, <2>2 DEF Current, StillSo
<1>5. ASSUME NEW w \in Workers, ReplaceExisting(w) PROVE Current'
    <2> DEFINE s == sess[w]
               rates == PastGrace(s.p, s.status)
               stale == s.last # None /\ Flipped(s.last) = "pending"
               lapsed == s.last # None /\ charge[s.last].status # Flipped(s.last)
               pc == IF stale THEN "cancelOld" ELSE "create"
               flip == IF lapsed THEN "expired" ELSE "pending"
               S == [s EXCEPT !.pc = pc, !.rates = rates, !.flip = flip]
    <2>1. /\ sess' = [sess EXCEPT ![w].pc = pc, ![w].rates = rates, ![w].flip = flip]
          /\ s.pc = "ensure" /\ UNCHANGED <<charge, parcela>>
        BY <1>5, Zenon DEF ReplaceExisting
    <2>2. /\ pc = "cancelOld" => charge[s.last].status = "pending"
          /\ pc = "create" /\ s.last # None =>
               (flip # "pending" <=> charge[s.last].status = "pending")
          /\ pc \in {"cancelOld", "create"}
        BY DEF Flipped
    <2> HIDE DEF rates, pc, flip
    <2>3. sess' = [sess EXCEPT ![w] = S]
        BY <2>1
    <2>4. /\ S.pc = pc /\ S.flip = flip /\ S.p = s.p /\ S.status = s.status
          /\ S.last = s.last /\ S.done = s.done
        BY <1>0 DEF Session
    <2>5. \A v \in Workers : sess'[v] = S
        BY <1>2, <2>3
    <2>6. /\ s.status = parcela[s.p].status /\ s.status \in {"open", "overdue"}
          /\ s.last = parcela[s.p].last
          /\ \A c \in s.done : charge[c].status = "pending"
          /\ UNCHANGED <<charge, parcela>>
        BY <1>0, <2>1 DEF StillSo
    <2> HIDE DEF S, s
    <2>7. ASSUME NEW v \in Workers PROVE StillSo(sess[v])'
        <3>1. sess'[v] = S
            BY <2>5
        <3>2. CASE pc = "cancelOld"
            BY <2>2, <2>4, <2>6, <3>1, <3>2 DEF StillSo
        <3>3. CASE pc = "create"
            BY <2>2, <2>4, <2>6, <3>1, <3>3 DEF StillSo
        <3> QED
            BY <2>2, <3>2, <3>3
    <2> QED
        BY <2>7 DEF Current
<1>6. ASSUME NEW w \in Workers, CancelStale(w) PROVE Current'
    <2> DEFINE s == sess[w]
               S == [s EXCEPT !.pc = "create", !.flip = "canceled"]
    <2>1. /\ sess' = [sess EXCEPT ![w] = S] /\ UNCHANGED <<charge, parcela>>
          /\ s.pc = "cancelOld"
        BY <1>6 DEF CancelStale
    <2>2. /\ S.pc = "create" /\ S.flip = "canceled" /\ S.p = s.p
          /\ S.status = s.status /\ S.last = s.last /\ S.done = s.done
        BY <1>0 DEF Session
    <2>3. (\A v \in Workers : sess'[v] = S) /\ StillSo(s)
        BY <1>0, <1>2, <2>1
    <2> HIDE DEF S, s
    <2> QED
        BY <2>1, <2>2, <2>3 DEF Current, StillSo
<1>7. ASSUME NEW w \in Workers, NEW x \in Charges, CreateAtPsp(w, x)
      PROVE  Current'
    <2> DEFINE s == sess[w]
               S == [s EXCEPT !.pc = "store", !.c = x]
    <2>1. /\ sess' = [sess EXCEPT ![w] = S] /\ UNCHANGED <<charge, parcela>>
          /\ s.pc = "create" /\ charge[x].status = "absent"
        BY <1>7 DEF CreateAtPsp, Fresh
    <2>2. /\ S.pc = "store" /\ S.flip = s.flip /\ S.p = s.p /\ S.c = x
          /\ S.status = s.status /\ S.last = s.last /\ S.done = s.done
        BY <1>0 DEF Session
    <2>3. (\A v \in Workers : sess'[v] = S) /\ StillSo(s)
        BY <1>0, <1>2, <2>1
    <2> HIDE DEF S, s
    <2> QED
        BY <2>1, <2>2, <2>3 DEF Current, StillSo, Exists
<1>8. ASSUME NEW w \in Workers, NEW x \in Charges,
             StartWebhook(w, x) \/ StartGetCharge(w, x)
      PROVE  Current'
    <2> DEFINE S == [Closed EXCEPT !.pc = "webhook", !.c = x, !.p = charge[x].parcela]
               T == [Closed EXCEPT !.pc = "expire", !.c = x]
    <2>1. /\ UNCHANGED <<charge, parcela>>
          /\ \/ /\ \A v \in Workers : sess'[v] = S
                /\ charge[x].status # "paid"
             \/ /\ \A v \in Workers : sess'[v] = T
                /\ charge[x].status = "pending"
        BY <1>2, <1>8 DEF StartWebhook, StartGetCharge, Open, Replay
    <2>2. /\ S.pc = "webhook" /\ S.c = x /\ S.done = {}
          /\ T.pc = "expire" /\ T.c = x /\ T.done = {}
        BY DEF Closed
    <2> HIDE DEF S, T
    <2> QED
        BY <2>1, <2>2 DEF Current, StillSo
<1>9. ASSUME NEW w \in Workers, LoadParcela(w) PROVE Current'
    <2> DEFINE s == sess[w]
               status == parcela[s.p].status
               last == parcela[s.p].last
               S == [s EXCEPT !.pc = "settle", !.status = status, !.last = last]
    <2>1. /\ sess' = [sess EXCEPT ![w] = S] /\ UNCHANGED <<charge, parcela>>
          /\ s.pc = "webhook"
        BY <1>9 DEF LoadParcela
    <2>2. /\ S.pc = "settle" /\ S.c = s.c /\ S.p = s.p
          /\ S.status = parcela[s.p].status /\ S.done = s.done
        BY <1>0 DEF Session
    <2>3. (\A v \in Workers : sess'[v] = S) /\ StillSo(s)
        BY <1>0, <1>2, <2>1
    <2> HIDE DEF S, s, status, last
    <2> QED
        BY <2>1, <2>2, <2>3 DEF Current, StillSo
<1>10. ASSUME NEW w \in Workers, StartOverdue(w) \/ StartCancel(w) PROVE Current'
    <2> DEFINE S == [Closed EXCEPT !.pc = "overdue", !.batch = PastDue]
               T == [Closed EXCEPT !.pc = "void"]
    <2>1. /\ UNCHANGED <<charge, parcela>>
          /\ \/ \A v \in Workers : sess'[v] = S
             \/ \A v \in Workers : sess'[v] = T
        BY <1>2, <1>10 DEF StartOverdue, StartCancel, Open
    <2>2. /\ S.pc = "overdue" /\ S.batch = PastDue /\ S.done = {}
          /\ T.pc = "void" /\ T.done = {}
          /\ \A p \in PastDue : parcela[p].status = "open"
        BY DEF Closed, PastDue
    <2> HIDE DEF S, T
    <2> QED
        BY <2>1, <2>2 DEF Current, StillSo
<1>11. ASSUME NEW w \in Workers, VoidParcelas(w) PROVE Current'
    <2> DEFINE s == sess[w]
               todo == {parcela[p].last : p \in Parcelas} \ {None}
               S == [s EXCEPT !.pc = "cancel", !.todo = todo]
    <2>1. /\ sess' = [sess EXCEPT ![w] = S] /\ UNCHANGED <<charge, parcela>>
        BY <1>11 DEF VoidParcelas
    <2> HIDE DEF todo
    <2>2. S.pc = "cancel" /\ S.done = s.done
        BY <1>0 DEF Session
    <2>3. (\A v \in Workers : sess'[v] = S) /\ StillSo(s)
        BY <1>0, <1>2, <2>1
    <2> HIDE DEF S, s
    <2> QED
        BY <2>1, <2>2, <2>3 DEF Current, StillSo
<1>12. ASSUME NEW w \in Workers, NEW x \in Charges, CancelOne(w, x) PROVE Current'
    <2> DEFINE s == sess[w]
               S == [s EXCEPT !.todo = @ \ {x}, !.done = @ \cup {x}]
               T == [s EXCEPT !.todo = @ \ {x}]
    <2>1. /\ UNCHANGED <<charge, parcela>> /\ s.pc = "cancel"
          /\ \/ sess' = [sess EXCEPT ![w] = S] /\ charge[x].status = "pending"
             \/ sess' = [sess EXCEPT ![w] = T]
        BY <1>12 DEF CancelOne
    <2>2. /\ S.pc = s.pc /\ S.done = s.done \cup {x}
          /\ T.pc = s.pc /\ T.done = s.done
        BY <1>0 DEF Session
    <2> HIDE DEF S, T
    <2>3. /\ \/ (\A v \in Workers : sess'[v] = S) /\ charge[x].status = "pending"
             \/ \A v \in Workers : sess'[v] = T
          /\ StillSo(s)
        BY <1>0, <1>2, <2>1
    <2> HIDE DEF s
    <2> QED
        BY <2>1, <2>2, <2>3 DEF Current, StillSo
<1>13. CASE \E w \in Workers :
              \/ ReturnExisting(w) \/ CommitCharge(w) \/ CommitWebhook(w)
              \/ CommitExpired(w) \/ CommitOverdue(w) \/ CommitCancel(w)
              \/ LoseSession(w) \/ \E c \in Charges : CreateFails(w, c)
    BY <1>3, <1>13 DEF ReturnExisting, CommitCharge, CommitWebhook, CommitExpired,
       CommitOverdue, CommitCancel, LoseSession, CreateFails
<1>14. CASE \E w \in Workers :
              \/ \E p \in Parcelas : StartCharge(w, p)
              \/ ReplaceExisting(w) \/ CancelStale(w) \/ LoadParcela(w)
              \/ \E c \in Charges : CreateAtPsp(w, c)
              \/ \E c \in Charges : StartWebhook(w, c) \/ StartGetCharge(w, c)
              \/ StartOverdue(w) \/ StartCancel(w) \/ VoidParcelas(w)
              \/ \E c \in Charges : CancelOne(w, c)
    BY <1>4, <1>5, <1>6, <1>7, <1>8, <1>9, <1>10, <1>11, <1>12, <1>14
<1>15. CASE NextDay \/ Evening \/ UNCHANGED vars \/ \E c \in Charges : Pay(c)
    BY <1>1, <1>15 DEF NextDay, Evening, Pay, vars
<1> QED
    BY <1>13, <1>14, <1>15 DEF Next

\* When no charge becomes pending, no second one does.
LEMMA OnePendingKept ==
    ASSUME OnePendingCharge,
           \A d \in Charges : charge'[d].status = "pending" =>
               /\ charge[d].status = "pending"
               /\ charge'[d].parcela = charge[d].parcela
    PROVE  OnePendingCharge'
BY DEF OnePendingCharge, Pending

\* A session commits a charge only for an instalment whose last charge is no
\* longer pending, or no longer after the commit.
LEMMA CommitChargeAlone ==
    ASSUME TypeOK, Booked, Carried, Alone, NEW w \in Workers, CommitCharge(w)
    PROVE  (LastIsPending /\ OnePendingCharge /\ Entered /\ Voided)'
<1> DEFINE s == sess[w]
<1>1. /\ s.c \in Charges /\ s.p \in Parcelas /\ ~Exists(s.c)
      /\ parcela[s.p].status \in {"open", "overdue"} /\ s.last = parcela[s.p].last
      /\ s.last # None =>
            (s.flip # "pending" <=> charge[s.last].status = "pending")
      /\ s.flip \in {"pending", "expired", "canceled"} /\ None \notin Charges
    BY BillingAssumption
       DEF CommitCharge, TypeOK, Session, Carried, CarriedBy, Alone, Current, StillSo
<1>2. /\ charge'[s.c].status = "pending" /\ charge'[s.c].parcela = s.p
      /\ UNCHANGED <<proposal, audit>>
    BY NewRow DEF CommitCharge
<1>3. /\ parcela'[s.p].last = s.c
      /\ \A p \in Parcelas : parcela'[p].status = parcela[p].status
      /\ \A p \in Parcelas \ {s.p} : parcela'[p] = parcela[p]
    <2>1. parcela' = [parcela EXCEPT ![s.p].last = s.c]
        BY DEF CommitCharge
    <2>2. parcela \in [Parcelas -> ParcelaRow]
        BY DEF TypeOK
    <2> HIDE DEF s
    <2> QED
        BY <1>1, <2>1, <2>2 DEF ParcelaRow
<1>4. ASSUME NEW d \in Charges \ {s.c}
      PROVE  \/ charge'[d] = charge[d] /\ (charge[d].status = "pending" => d # s.last)
             \/ /\ charge[d].status = "pending"
                /\ charge'[d].status \in {"expired", "canceled"}
    <2>1. charge[d] \in ChargeRow
        BY DEF TypeOK
    <2>2. CASE d = s.last /\ s.flip # "pending"
        <3>1. charge'[d] = [charge[d] EXCEPT !.status = s.flip]
            BY <2>2 DEF CommitCharge
        <3> QED
            BY <1>1, <2>1, <2>2, <3>1 DEF ChargeRow
    <2>3. CASE ~(d = s.last /\ s.flip # "pending")
        <3>1. charge'[d] = charge[d]
            BY <2>3 DEF CommitCharge
        <3> QED
            BY <1>1, <2>3, <3>1
    <2> QED
        BY <2>2, <2>3
<1> HIDE DEF s
<1>5. ASSUME NEW d \in Charges \ {s.c}, charge'[d].status = "pending"
      PROVE  /\ charge'[d] = charge[d] /\ charge[d].status = "pending"
             /\ charge[d].parcela \in Parcelas \ {s.p}
    <2>1. charge'[d] = charge[d] /\ charge[d].status = "pending" /\ d # s.last
        BY <1>4, <1>5
    <2>2. charge[d].parcela \in Parcelas
        BY <2>1 DEF Booked, Exists
    <2>3. charge[d].parcela # s.p
        BY <1>1, <2>1 DEF Alone, LastIsPending
    <2> QED
        BY <2>1, <2>2, <2>3
<1>6. LastIsPending'
    BY <1>2, <1>3, <1>5 DEF Alone, LastIsPending
<1>7. OnePendingCharge'
    BY <1>2, <1>5 DEF Alone, OnePendingCharge, Pending
<1>8. Entered'
    <2>1. \A d \in Charges : charge'[d].status = "paid" <=> charge[d].status = "paid"
        BY <1>1, <1>2, <1>4 DEF Exists
    <2> QED
        BY <1>2, <2>1 DEF Alone, Entered
<1>9. Voided'
    BY <1>2, <1>3 DEF Alone, Voided
<1> QED
    BY <1>6, <1>7, <1>8, <1>9

LEMMA AloneStep ==
    /\ OneSession /\ TypeOK /\ Booked /\ Carried /\ Alone /\ [Next]_vars
    => Alone'
<1> SUFFICES ASSUME OneSession, TypeOK, Booked, Carried, Alone, [Next]_vars
             PROVE  (LastIsPending /\ OnePendingCharge /\ Entered /\ Voided)'
    BY CurrentStep DEF Alone
<1>0. /\ \A w \in Workers : StillSo(sess[w]) /\ CarriedBy(sess[w])
      /\ \A c \in Charges : charge[c] \in ChargeRow
      /\ \A p \in Parcelas : parcela[p] \in ParcelaRow
    BY DEF Alone, Current, Carried, TypeOK
<1>1. CASE UNCHANGED <<charge, parcela, audit, proposal>>
    BY <1>1 DEF Alone, LastIsPending, OnePendingCharge, Pending, Entered, Voided
<1>2. ASSUME NEW w \in Workers, CommitWebhook(w)
      PROVE  (LastIsPending /\ OnePendingCharge /\ Entered /\ Voided)'
    <2> DEFINE s == sess[w]
               status == IF s.status = "paid" THEN parcela[s.p].status ELSE "paid"
               last == IF s.last = s.c THEN parcela[s.p].last ELSE s.c
    <2>1. /\ s.c \in Charges /\ s.p \in Parcelas
          /\ charge[s.c].status # "paid" /\ status = "paid"
        BY <1>0, <1>2 DEF CommitWebhook, StillSo, CarriedBy
    <2>2. /\ charge' = [charge EXCEPT ![s.c].status = "paid"]
          /\ parcela' = [parcela EXCEPT ![s.p] = [status |-> status, last |-> last]]
          /\ audit' = [audit EXCEPT ![s.c] = @ + 1]
          /\ UNCHANGED proposal
        BY <1>2 DEF CommitWebhook
    <2> HIDE DEF s, status, last
    <2>3. /\ charge'[s.c].status = "paid"
          /\ \A d \in Charges \ {s.c} : charge'[d] = charge[d]
          /\ parcela'[s.p].status = "paid"
          /\ \A p \in Parcelas \ {s.p} : parcela'[p] = parcela[p]
          /\ audit'[s.c] = audit[s.c] + 1
          /\ \A d \in Charges \ {s.c} : audit'[d] = audit[d]
        BY <1>0, <2>1, <2>2 DEF TypeOK, ChargeRow
    <2>4. \A d \in Charges : charge'[d].status = "pending" =>
              charge[d].status = "pending" /\ charge'[d] = charge[d]
        BY <2>3
    <2>5. LastIsPending'
        <3> SUFFICES ASSUME NEW d \in Charges, charge'[d].status = "pending"
                     PROVE  \/ parcela'[charge'[d].parcela].last = d
                            \/ parcela'[charge'[d].parcela].status \in {"paid", "canceled"}
            BY DEF LastIsPending
        <3>1. /\ charge'[d] = charge[d] /\ charge[d].parcela \in Parcelas
              /\ \/ parcela[charge[d].parcela].last = d
                 \/ parcela[charge[d].parcela].status \in {"paid", "canceled"}
            BY <2>4 DEF Alone, LastIsPending, Booked, Exists
        <3> QED
            BY <2>3, <3>1
    <2>6. OnePendingCharge'
        BY <2>4, OnePendingKept DEF Alone
    <2>7. Entered'
        BY <2>1, <2>3 DEF Alone, Entered
    <2>8. Voided'
        BY <2>2, <2>3 DEF Alone, Voided
    <2> QED
        BY <2>5, <2>6, <2>7, <2>8
<1>3. ASSUME NEW w \in Workers, CommitExpired(w)
      PROVE  (LastIsPending /\ OnePendingCharge /\ Entered /\ Voided)'
    <2>1. /\ sess[w].c \in Charges /\ charge[sess[w].c].status = "pending"
          /\ charge' = [charge EXCEPT ![sess[w].c].status = "expired"]
          /\ UNCHANGED <<parcela, audit, proposal>>
        BY <1>0, <1>3 DEF CommitExpired, StillSo, CarriedBy
    <2>2. /\ \A d \in Charges : charge'[d].status = "pending" =>
                charge[d].status = "pending" /\ charge'[d] = charge[d]
          /\ \A d \in Charges : charge'[d].status = "paid" <=> charge[d].status = "paid"
        BY <1>0, <2>1 DEF TypeOK, ChargeRow
    <2>3. OnePendingCharge'
        BY <2>2, OnePendingKept DEF Alone
    <2> QED
        BY <2>1, <2>2, <2>3 DEF Alone, LastIsPending, Entered, Voided
<1>4. ASSUME NEW w \in Workers, CommitOverdue(w)
      PROVE  (LastIsPending /\ OnePendingCharge /\ Entered /\ Voided)'
    <2>1. /\ UNCHANGED <<charge, audit, proposal>>
          /\ \A p \in Parcelas :
                \/ parcela'[p] = parcela[p]
                \/ /\ parcela[p].status = "open"
                   /\ parcela'[p] = [parcela[p] EXCEPT !.status = "overdue"]
        BY <1>0, <1>4 DEF CommitOverdue, StillSo
    <2>2. \A p \in Parcelas :
              /\ parcela'[p].last = parcela[p].last
              /\ \/ parcela'[p].status = parcela[p].status
                 \/ parcela[p].status = "open"
        BY <1>0, <2>1 DEF ParcelaRow
    <2>3. \A d \in Charges : charge[d].status = "pending" => charge[d].parcela \in Parcelas
        BY DEF Booked, Exists
    <2>4. LastIsPending'
        BY <2>1, <2>2, <2>3 DEF Alone, LastIsPending
    <2>5. Voided'
        BY <2>1, <2>2 DEF Alone, Voided
    <2> QED
        BY <2>1, <2>4, <2>5 DEF Alone, OnePendingCharge, Pending, Entered
<1>5. ASSUME NEW w \in Workers, CommitCancel(w)
      PROVE  (LastIsPending /\ OnePendingCharge /\ Entered /\ Voided)'
    <2>1. /\ UNCHANGED audit
          /\ \A p \in Parcelas : parcela'[p] = [parcela[p] EXCEPT !.status = "canceled"]
          /\ \A d \in Charges :
                \/ charge'[d] = charge[d]
                \/ /\ charge[d].status = "pending"
                   /\ charge'[d] = [charge[d] EXCEPT !.status = "canceled"]
        BY <1>0, <1>5 DEF CommitCancel, StillSo
    <2>2. /\ \A p \in Parcelas : parcela'[p].status = "canceled"
          /\ \A d \in Charges :
                \/ charge'[d] = charge[d]
                \/ charge[d].status = "pending" /\ charge'[d].status = "canceled"
        BY <1>0, <2>1 DEF ParcelaRow, ChargeRow
    <2>3. \A d \in Charges : charge[d].status = "pending" => charge[d].parcela \in Parcelas
        BY DEF Booked, Exists
    <2>4. LastIsPending'
        BY <2>2, <2>3 DEF LastIsPending
    <2>5. OnePendingCharge'
        BY <2>2, OnePendingKept DEF Alone
    <2>6. Entered'
        BY <2>1, <2>2 DEF Alone, Entered
    <2> QED
        BY <2>2, <2>4, <2>5, <2>6 DEF Voided
<1>6. CASE \E w \in Workers :
              \/ CommitCharge(w) \/ CommitWebhook(w) \/ CommitExpired(w)
              \/ CommitOverdue(w) \/ CommitCancel(w)
    BY <1>2, <1>3, <1>4, <1>5, <1>6, CommitChargeAlone
<1>7. CASE ~\E w \in Workers :
              \/ CommitCharge(w) \/ CommitWebhook(w) \/ CommitExpired(w)
              \/ CommitOverdue(w) \/ CommitCancel(w)
    <2>1. UNCHANGED <<charge, parcela, audit, proposal>>
        BY <1>7
        DEF Next, vars, StartCharge, ReturnExisting, ReplaceExisting, CancelStale,
            CreateAtPsp, CreateFails, StartWebhook, LoadParcela, StartGetCharge,
            StartOverdue, StartCancel, VoidParcelas, CancelOne, LoseSession, Pay,
            NextDay, Evening
    <2> QED
        BY <1>1, <2>1
<1> QED
    BY <1>6, <1>7

LEMMA AloneInvariance ==
    ASSUME OneSession PROVE Spec => []Alone
<1>1. Init => Alone
    BY DEF Init, Alone, Current, StillSo, Closed, NoRow, LastIsPending,
       OnePendingCharge, Pending, Entered, Voided
<1>2. IInv /\ Alone /\ [Next]_vars => Alone'
    BY AloneStep DEF IInv
<1> QED
    BY <1>1, <1>2, Invariance, PTL DEF Spec

\* As long as no two sessions on a proposal are open at one time, an instalment
\* never has two pending charges, however charges lapse, go stale or are paid
\* late.
THEOREM OneChargeAtATime ==
    ASSUME OneSession PROVE Spec => []OnePendingCharge
<1>1. Alone => OnePendingCharge
    BY DEF Alone
<1> QED
    BY <1>1, AloneInvariance, PTL

\* Under the same assumption a payment is entered once, however often its event
\* is delivered.
THEOREM PaymentsEnteredOnce ==
    ASSUME OneSession PROVE Spec => []ProcessedOnce
<1>1. Alone => ProcessedOnce
    BY DEF Alone, Entered, ProcessedOnce
<1> QED
    BY <1>1, AloneInvariance, PTL

\* Under the same assumption no charge becomes pending after the cancellation.
THEOREM NothingIsChargedAfterCancel ==
    ASSUME OneSession PROVE Spec => NoChargeAfterCancel
<1>1. ASSUME IInv, Alone, [Next]_vars, proposal = "cancelada",
             NEW c \in Charges, charge'[c].status = "pending"
      PROVE  charge[c].status = "pending"
    <2>1. ASSUME NEW w \in Workers, CommitCharge(w) PROVE FALSE
        <3>1. /\ sess[w].p \in Parcelas
              /\ parcela[sess[w].p].status \in {"open", "overdue"}
            BY <1>1, <2>1
               DEF CommitCharge, IInv, Carried, CarriedBy, Alone, Current, StillSo
        <3> QED
            BY <1>1, <3>1 DEF Alone, Voided
    <2>2. charge[c] \in ChargeRow
        BY <1>1 DEF IInv, TypeOK
    <2>3. CASE charge' = charge
        BY <1>1, <2>3
    <2>4. ASSUME NEW w \in Workers, CommitWebhook(w) \/ CommitExpired(w)
          PROVE  charge[c].status = "pending"
        <3>1. PICK status \in {"paid", "expired"} :
                charge' = [charge EXCEPT ![sess[w].c].status = status]
            BY <2>4 DEF CommitWebhook, CommitExpired
        <3> QED
            BY <1>1, <2>2, <3>1 DEF ChargeRow, IInv, TypeOK
    <2>5. ASSUME NEW w \in Workers, CommitCancel(w)
          PROVE  charge[c].status = "pending"
        <3>1. charge'[c] \in {charge[c], [charge[c] EXCEPT !.status = "canceled"]}
            BY <2>5 DEF CommitCancel
        <3> QED
            BY <1>1, <2>2, <3>1 DEF ChargeRow
    <2>6. CASE ~\E w \in Workers : \/ CommitCharge(w) \/ CommitWebhook(w)
                                   \/ CommitExpired(w) \/ CommitCancel(w)
        <3>1. charge' = charge
            BY <1>1, <2>6
            DEF Next, vars, StartCharge, ReturnExisting, ReplaceExisting, CancelStale,
                CreateAtPsp, CreateFails, StartWebhook, LoadParcela, StartGetCharge,
                StartOverdue, CommitOverdue, StartCancel, VoidParcelas, CancelOne,
                LoseSession, Pay, NextDay, Evening
        <3> QED
            BY <2>3, <3>1
    <2> QED
        BY <2>1, <2>4, <2>5, <2>6
<1>2. IInv /\ Alone /\ [Next]_vars =>
        [proposal = "cancelada" =>
           \A c \in Charges : charge'[c].status = "pending" =>
             charge[c].status = "pending"]_vars
    BY <1>1
<1> QED
    BY <1>2, Invariance, AloneInvariance, PTL DEF Spec, NoChargeAfterCancel

-----------------------------------------------------------------------------
(* The ledger *)

\* Money comes in by a payment of the customer and by nothing else.
LEMMA PaidOnlyByPay ==
    ASSUME TypeOK, Carried, [Next]_vars, NEW c \in Charges,
           psp'[c].status = "paid", psp[c].status # "paid"
    PROVE  Pay(c)
<1>0. /\ \A w \in Workers : sess[w] \in Session /\ CarriedBy(sess[w])
      /\ psp[c] \in PspRow
    BY DEF TypeOK, Carried
<1>1. ASSUME NEW d \in Charges, PspCancel(d) PROVE FALSE
    BY <1>1, PspCancelStable
<1>2. ASSUME NEW w \in Workers, CancelStale(w) PROVE FALSE
    <2>1. sess[w].last \in Charges
        BY <1>0, <1>2 DEF CancelStale, CarriedBy, Session
    <2> QED
        BY <1>1, <1>2, <2>1 DEF CancelStale
<1>3. ASSUME NEW w \in Workers, NEW d \in Charges, CancelOne(w, d) PROVE FALSE
    BY <1>1, <1>3 DEF CancelOne
<1>4. ASSUME NEW w \in Workers, NEW d \in Charges,
             CreateAtPsp(w, d) \/ CreateFails(w, d)
      PROVE  FALSE
    BY <1>4 DEF CreateAtPsp, CreateFails, AtPsp, TypeOK
<1>5. ASSUME NEW d \in Charges, Pay(d) PROVE Pay(c)
    <2>1. d = c
        BY <1>5 DEF Pay, TypeOK
    <2> QED
        BY <1>5, <2>1
<1>6. psp' # psp
    OBVIOUS
<1> QED
    BY <1>2, <1>3, <1>4, <1>5, <1>6
    DEF Next, vars, StartCharge, ReturnExisting, ReplaceExisting, CommitCharge,
        StartWebhook, LoadParcela, CommitWebhook, StartGetCharge, CommitExpired,
        StartOverdue, CommitOverdue, StartCancel, VoidParcelas, CommitCancel,
        LoseSession, NextDay, Evening

\* What an instalment received stays received, and a payment adds the one of
\* its charge.
LEMMA ReceivedMoves ==
    ASSUME TypeOK, Booked, Known, Carried, [Next]_vars, NEW p \in Parcelas
    PROVE  Received(p)' <=>
             \/ Received(p)
             \/ \E c \in Charges : Pay(c) /\ charge[c].parcela = p
<1>0. StableStep
    BY Stable
<1>1. ASSUME Received(p) PROVE Received(p)'
    <2>1. PICK c \in Charges : charge[c].parcela = p /\ psp[c].status = "paid"
        BY <1>1 DEF Received
    <2>2. charge'[c].parcela = p /\ psp'[c].status = "paid"
        BY <1>0, <2>1 DEF Known, StableStep
    <2> QED
        BY <2>2 DEF Received
<1>2. ASSUME NEW c \in Charges, Pay(c), charge[c].parcela = p PROVE Received(p)'
    BY <1>2 DEF Pay, Received, TypeOK, PspRow
<1>3. ASSUME Received(p)'
      PROVE  \/ Received(p)
             \/ \E c \in Charges : Pay(c) /\ charge[c].parcela = p
    <2>1. PICK c \in Charges : charge'[c].parcela = p /\ psp'[c].status = "paid"
        BY <1>3 DEF Received
    <2>2. CASE psp[c].status = "paid"
        <3>1. charge[c].parcela = p
            BY <1>0, <2>1, <2>2 DEF Known, StableStep
        <3> QED
            BY <2>2, <3>1 DEF Received
    <2>3. CASE psp[c].status # "paid"
        <3>1. Pay(c)
            BY <2>1, <2>3, PaidOnlyByPay
        <3>2. charge' = charge
            BY <3>1 DEF Pay
        <3> QED
            BY <2>1, <3>1, <3>2
    <2> QED
        BY <2>2, <2>3
<1> QED
    BY <1>1, <1>2, <1>3

LedgerVars == <<[p \in Parcelas |-> parcela[p].status],
                {p \in Parcelas : Received(p)}>>

\* Every step of the one session is a step of the ledger or a stutter.
LEMMA LedgerStep ==
    IInv /\ Alone /\ [Next]_vars => [Ledger!Next]_LedgerVars
<1> SUFFICES ASSUME IInv, Alone, [Next]_vars
             PROVE  Ledger!Next \/ UNCHANGED LedgerVars
    OBVIOUS
<1> DEFINE status == [p \in Parcelas |-> parcela[p].status]
           received == {p \in Parcelas : Received(p)}
<1>0. /\ TypeOK /\ Booked /\ Known /\ Carried
      /\ \A w \in Workers : CarriedBy(sess[w]) /\ StillSo(sess[w])
      /\ \A p \in Parcelas : parcela[p] \in ParcelaRow
    BY DEF IInv, Carried, Alone, Current, TypeOK
<1>1. ASSUME ~\E c \in Charges : Pay(c) PROVE received' = received
    <2>1. \A p \in Parcelas : Received(p)' <=> Received(p)
        BY <1>0, <1>1, ReceivedMoves
    <2> QED
        BY <2>1
<1>2. ASSUME NEW c \in Charges, Pay(c) PROVE Ledger!Next
    <2>1. charge[c].parcela \in Parcelas
        BY <1>0, <1>2 DEF Pay, Known, Booked
    <2>2. \A d \in Charges : Pay(d) => d = c
        BY <1>0, <1>2 DEF Pay, TypeOK, PspRow
    <2>3. \A p \in Parcelas : Received(p)' <=> Received(p) \/ p = charge[c].parcela
        BY <1>0, <1>2, <2>2, ReceivedMoves
    <2>4. received' = received \cup {charge[c].parcela}
        BY <2>1, <2>3
    <2>5. status' = status
        BY <1>2 DEF Pay
    <2>6. Ledger!Receive(charge[c].parcela)
        BY <2>4, <2>5 DEF Ledger!Receive
    <2> QED
        BY <2>1, <2>6 DEF Ledger!Next
<1>3. ASSUME NEW w \in Workers, CommitWebhook(w), received' = received
      PROVE  Ledger!Next
    <2> DEFINE s == sess[w]
               new == IF s.status = "paid" THEN parcela[s.p].status ELSE "paid"
               last == IF s.last = s.c THEN parcela[s.p].last ELSE s.c
    <2>1. /\ s.p \in Parcelas /\ Received(s.p)
          /\ new = "paid"
        BY <1>0, <1>3 DEF CommitWebhook, CarriedBy, StillSo, Received
    <2>2. parcela' = [parcela EXCEPT ![s.p] = [status |-> new, last |-> last]]
        BY <1>3 DEF CommitWebhook
    <2> HIDE DEF s, new, last
    <2>3. status' = [status EXCEPT ![s.p] = "paid"]
        BY <1>0, <2>1, <2>2 DEF TypeOK
    <2>4. \E p \in Parcelas : Ledger!Settle(p)
        BY <1>3, <2>1, <2>3 DEF Ledger!Settle
    <2> QED
        BY <2>4 DEF Ledger!Next
<1>4. ASSUME NEW w \in Workers, CommitOverdue(w), received' = received
      PROVE  Ledger!Next
    <2> DEFINE S == sess[w].batch
    <2>1. S \in SUBSET Parcelas /\ \A p \in S : parcela[p].status = "open"
        BY <1>0, <1>4 DEF CommitOverdue, StillSo, TypeOK, Session
    <2>2. \A p \in Parcelas :
            parcela'[p] = IF p \in S THEN [parcela[p] EXCEPT !.status = "overdue"]
                                     ELSE parcela[p]
        BY <1>4 DEF CommitOverdue
    <2> HIDE DEF S
    <2>3. \A p \in Parcelas :
            parcela'[p].status = IF p \in S THEN "overdue" ELSE parcela[p].status
        BY <1>0, <2>2 DEF ParcelaRow
    <2>4. \E T \in SUBSET Parcelas : Ledger!Lapse(T)
        BY <1>4, <2>1, <2>3 DEF Ledger!Lapse
    <2> QED
        BY <2>4 DEF Ledger!Next
<1>5. ASSUME NEW w \in Workers, CommitCancel(w), received' = received
      PROVE  Ledger!Next
    <2>1. \A p \in Parcelas : parcela'[p] = [parcela[p] EXCEPT !.status = "canceled"]
        BY <1>5 DEF CommitCancel
    <2>2. \A p \in Parcelas : parcela'[p].status = "canceled"
        BY <1>0, <2>1 DEF ParcelaRow
    <2>3. Ledger!Void
        BY <1>5, <2>2 DEF Ledger!Void
    <2> QED
        BY <2>3 DEF Ledger!Next
<1>6. ASSUME NEW w \in Workers, CommitCharge(w) PROVE status' = status
    <2>1. parcela' = [parcela EXCEPT ![sess[w].p].last = sess[w].c]
        BY <1>6 DEF CommitCharge
    <2>2. \A p \in Parcelas : parcela'[p].status = parcela[p].status
        BY <1>0, <2>1 DEF TypeOK, ParcelaRow
    <2> QED
        BY <2>2
<1>7. CASE ~\E w \in Workers : \/ CommitWebhook(w) \/ CommitOverdue(w)
                               \/ CommitCancel(w) \/ CommitCharge(w)
    <2>1. parcela' = parcela
        BY <1>7
        DEF Next, vars, StartCharge, ReturnExisting, ReplaceExisting, CancelStale,
            CreateAtPsp, CreateFails, StartWebhook, LoadParcela, StartGetCharge,
            CommitExpired, StartOverdue, StartCancel, VoidParcelas, CancelOne,
            LoseSession, Pay, NextDay, Evening
    <2>2. status' = status
        BY <2>1
    <2> HIDE DEF status, received
    <2>3. CASE \E c \in Charges : Pay(c)
        BY <1>2, <2>3
    <2>4. CASE ~\E c \in Charges : Pay(c)
        <3>1. received' = received
            BY <1>1, <2>4
        <3> QED
            BY <2>2, <3>1 DEF LedgerVars, status, received
    <2> QED
        BY <2>3, <2>4
<1>8. CASE \E c \in Charges : Pay(c)
    BY <1>2, <1>8
<1>9. CASE ~\E c \in Charges : Pay(c)
    <2>1. received' = received
        BY <1>1, <1>9
    <2>2. ASSUME status' = status PROVE UNCHANGED LedgerVars
        BY <2>1, <2>2 DEF LedgerVars
    <2> HIDE DEF status, received
    <2> QED
        BY <1>3, <1>4, <1>5, <1>6, <1>7, <2>1, <2>2
<1> HIDE DEF status, received
<1> QED
    BY <1>8, <1>9

\* With one session at a time the charges, retries and webhooks implement the
\* ledger: an instalment becomes paid only when money for it came in, lapses
\* only while it is open, and once paid only the cancellation changes it.
THEOREM BillingImplementsLedger ==
    ASSUME OneSession PROVE Spec => ImplementsLedger
<1>1. Init => Ledger!Init
    BY DEF Init, Ledger!Init, Received
<1>2. IInv /\ Alone /\ [Next]_vars => [Ledger!Next]_LedgerVars
    BY LedgerStep
<1> QED
    BY <1>1, <1>2, Invariance, AloneInvariance, PTL
    DEF Spec, ImplementsLedger, Ledger!Spec, LedgerVars

=============================================================================
