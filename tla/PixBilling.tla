----------------------------- MODULE PixBilling -----------------------------
(***************************************************************************)
(* Collection of the instalments (parcelas) of one approved proposal       *)
(* through Pix: pix/service.py, the overdue cron of                        *)
(* services/parcela_service.py and the cancellation of                     *)
(* services/proposal_service.py, run by concurrent database sessions       *)
(* against a payment service provider (PSP) and a customer.                *)
(*                                                                         *)
(* The database runs READ COMMITTED and no query takes FOR UPDATE.  A      *)
(* session loads rows into its identity map, awaits other work and at its  *)
(* commit writes the columns whose value differs from the loaded one.  A   *)
(* session is therefore a record of what it loaded; a read is a step, a    *)
(* call to the PSP is a step, a commit is a step, and any of them may be   *)
(* interleaved with the steps of the other sessions.                       *)
(***************************************************************************)
EXTENDS Integers, FiniteSets

CONSTANTS
    Parcelas,    \* the instalments of the proposal
    Charges,     \* the charge ids (txids) that may be drawn
    Workers,     \* the sessions that may be open at one time
    None,        \* no row, a NULL column
    Due,         \* vencimento of each instalment, a day number
    Carencia,    \* inadimplencia_carencia_dias
    Validade,    \* pix_validade_apos_vencimento_dias
    HasRates,    \* the tenant configured a multa or a juros above zero
    MaxDay,      \* bound: the last day of both calendars
    MaxFaults,   \* bound: failed calls and lost sessions
    MaxAudits    \* bound: parcela_paga rows after which no webhook is begun

ASSUME BillingAssumption ==
    /\ None \notin Parcelas \cup Charges
    /\ Due \in [Parcelas -> Nat]
    /\ Carencia \in Nat
    /\ Validade \in Nat
    /\ HasRates \in BOOLEAN
    /\ MaxDay \in Nat
    /\ MaxFaults \in Nat
    /\ MaxAudits \in Nat

VARIABLES
    day,       \* the day in Brazil (BRT)
    today,     \* the server's day (UTC): one ahead from 21:00 BRT on
    proposal,  \* proposals.status
    parcela,   \* parcela_payments: status and last_pix_charge_id
    charge,    \* pix_charges: owner, status, both days of criado_em, rates
    audit,     \* number of parcela_paga rows in audit_log, by charge
    psp,       \* the PSP's own record of each charge: status, owner, birth
    handed,    \* charges whose brcode was returned to the customer
    sess,      \* the open sessions
    faults     \* failures so far

vars == <<day, today, proposal, parcela, charge, audit, psp, handed, sess, faults>>

-----------------------------------------------------------------------------
ParcelaStatus == {"open", "overdue", "paid", "canceled"}
ChargeStatus == {"absent", "pending", "paid", "expired", "canceled"}

ParcelaRow == [status: ParcelaStatus, last: Charges \cup {None}]

ChargeRow == [parcela: Parcelas \cup {None}, status: ChargeStatus,
              born: Nat, utc: Nat, rates: BOOLEAN]

NoRow == [parcela |-> None, status |-> "absent", born |-> 0, utc |-> 0,
          rates |-> FALSE]

PspRow == [status: {"unknown", "active", "removed", "paid"},
           parcela: Parcelas \cup {None}, born: Nat]

Session == [pc: {"idle", "ensure", "cancelOld", "create", "store",
                 "webhook", "settle", "expire", "overdue",
                 "void", "cancel"},
            p: Parcelas \cup {None},      \* the instalment it works on
            c: Charges \cup {None},       \* the charge it creates or updates
            status: ParcelaStatus,        \* parcela.status as loaded
            last: Charges \cup {None},    \* last_pix_charge_id as loaded
            flip: {"pending", "expired", "canceled"}, \* last's new status
            rates: BOOLEAN,               \* rates_past_grace
            batch: SUBSET Parcelas,       \* rows selected by the cron
            todo: SUBSET Charges,         \* charges still to cancel
            done: SUBSET Charges]         \* charges cancelled

Closed == [pc |-> "idle", p |-> None, c |-> None, status |-> "open",
           last |-> None, flip |-> "pending", rates |-> FALSE,
           batch |-> {}, todo |-> {}, done |-> {}]

\* Typing.
TypeOK ==
    /\ day \in Nat
    /\ today \in Nat
    /\ proposal \in {"aprovada", "cancelada"}
    /\ parcela \in [Parcelas -> ParcelaRow]
    /\ charge \in [Charges -> ChargeRow]
    /\ audit \in [Charges -> Nat]
    /\ psp \in [Charges -> PspRow]
    /\ handed \in SUBSET Charges
    /\ sess \in [Workers -> Session]
    /\ faults \in Nat

\* approve has committed: every instalment is open and has no charge.
Init ==
    /\ day = 0
    /\ today = 0
    /\ proposal = "aprovada"
    /\ parcela = [p \in Parcelas |-> [status |-> "open", last |-> None]]
    /\ charge = [c \in Charges |-> NoRow]
    /\ audit = [c \in Charges |-> 0]
    /\ psp = [c \in Charges |->
                [status |-> "unknown", parcela |-> None, born |-> 0]]
    /\ handed = {}
    /\ sess = [w \in Workers |-> Closed]
    /\ faults = 0

Open(w, s) == /\ sess[w].pc = "idle"
              /\ sess' = [sess EXCEPT ![w] = s]
Close(w) == sess' = [sess EXCEPT ![w] = Closed]

\* The bulk UPDATE of a cancellation keeps the row locks of the instalments
\* until its session ends; every other write of an instalment waits.
Unlocked == \A w \in Workers : sess[w].pc # "cancel"

-----------------------------------------------------------------------------
(* create_charge_for_parcela and _ensure_charge *)

\* Defect: the day the grace period ends already carries rates.
PastGraceEarly(p, status) ==
    /\ status = "overdue"
    /\ today - Due[p] >= Carencia
    /\ HasRates

\* rates_past_grace, for the loaded status: by date.today(), the server's day
PastGrace(p, status) ==
    /\ status = "overdue"
    /\ today - Due[p] > Carencia
    /\ HasRates

LastDay(p) == Due[p] + Validade

\* _lazy_flip_expired: the charge's status once the flip is applied.  The
\* expiry is the end of the last day in Brazil.
Flipped(c) ==
    IF charge[c].status = "pending" /\ day > LastDay(charge[c].parcela)
    THEN "expired" ELSE charge[c].status

\* _created_before_today_brt
NeedsRegeneration(c, rates) == rates /\ charge[c].born < day

\* Defect: only a paid instalment is refused.
PayableUnlessPaid(p) == parcela[p].status # "paid"

Payable(p) == parcela[p].status \in {"open", "overdue"}

Fresh(c) == /\ psp[c].status = "unknown"
            /\ charge[c].status = "absent"

\* The instalment is loaded; it must be open or overdue.  The bound on the
\* charge ids stops requests, not a request half way.
StartCharge(w, p) ==
    /\ Payable(p)
    /\ \E c \in Charges : Fresh(c)
    /\ Open(w, [Closed EXCEPT !.pc = "ensure", !.p = p,
                              !.status = parcela[p].status,
                              !.last = parcela[p].last])
    /\ UNCHANGED <<day, today, proposal, parcela, charge, audit, psp, handed, faults>>

\* A pending charge that is not stale is returned as it is.
ReturnExisting(w) ==
    LET s == sess[w] IN
    /\ s.pc = "ensure" /\ s.last # None
    /\ Flipped(s.last) = "pending"
    /\ ~NeedsRegeneration(s.last, PastGrace(s.p, s.status))
    /\ handed' = handed \cup {s.last}
    /\ Close(w)
    /\ UNCHANGED <<day, today, proposal, parcela, charge, audit, psp, faults>>

\* A stale pending charge is to be cancelled first; a charge that is no
\* longer pending is replaced, and its expiry is written with the new one.
ReplaceExisting(w) ==
    LET s == sess[w]
        rates == PastGrace(s.p, s.status)
        stale == s.last # None /\ Flipped(s.last) = "pending"
        lapsed == s.last # None /\ charge[s.last].status # Flipped(s.last)
    IN
    /\ s.pc = "ensure"
    /\ stale => NeedsRegeneration(s.last, rates)
    /\ sess' = [sess EXCEPT
                  ![w].pc = IF stale THEN "cancelOld" ELSE "create",
                  ![w].rates = rates,
                  ![w].flip = IF lapsed THEN "expired" ELSE "pending"]
    /\ UNCHANGED <<day, today, proposal, parcela, charge, audit, psp, handed, faults>>

\* provider.cancel_charge: the PSP removes an active charge; an error (a
\* refused or failed call) is swallowed and leaves it as it was.
PspCancel(c) ==
    \/ /\ psp' = [psp EXCEPT
                    ![c].status = IF @ = "active" THEN "removed" ELSE @]
       /\ UNCHANGED faults
    \/ /\ faults < MaxFaults
       /\ faults' = faults + 1
       /\ UNCHANGED psp

\* Defect: the stale charge keeps its status in the session.
CancelStaleAtPspOnly(w) ==
    /\ sess[w].pc = "cancelOld"
    /\ PspCancel(sess[w].last)
    /\ sess' = [sess EXCEPT ![w].pc = "create"]
    /\ UNCHANGED <<day, today, proposal, parcela, charge, audit, handed>>

\* Defect: the PSP is not told of the cancellation.
CancelStaleLocally(w) ==
    /\ sess[w].pc = "cancelOld"
    /\ sess' = [sess EXCEPT ![w].pc = "create", ![w].flip = "canceled"]
    /\ UNCHANGED <<day, today, proposal, parcela, charge, audit, psp, handed, faults>>

CancelStale(w) ==
    /\ sess[w].pc = "cancelOld"
    /\ PspCancel(sess[w].last)
    /\ sess' = [sess EXCEPT ![w].pc = "create", ![w].flip = "canceled"]
    /\ UNCHANGED <<day, today, proposal, parcela, charge, audit, handed>>

\* Defect: the birth of a charge is off by one.
AtPspYesterday(p) == [status |-> "active", parcela |-> p, born |-> day - 1]

AtPsp(p) == [status |-> "active", parcela |-> p, born |-> day]

\* Defect: the brcode is returned as soon as the PSP knows it.
CreateAtPspAndReturn(w, c) ==
    /\ sess[w].pc = "create"
    /\ Fresh(c)
    /\ psp' = [psp EXCEPT ![c] = AtPsp(sess[w].p)]
    /\ sess' = [sess EXCEPT ![w].pc = "store", ![w].c = c]
    /\ handed' = handed \cup {c}
    /\ UNCHANGED <<day, today, proposal, parcela, charge, audit, faults>>

\* provider.create_charge: the charge exists at the PSP before any row does.
CreateAtPsp(w, c) ==
    /\ sess[w].pc = "create"
    /\ Fresh(c)
    /\ psp' = [psp EXCEPT ![c] = AtPsp(sess[w].p)]
    /\ sess' = [sess EXCEPT ![w].pc = "store", ![w].c = c]
    /\ UNCHANGED <<day, today, proposal, parcela, charge, audit, handed, faults>>

\* The create call raises.  EfiPixProvider makes two calls, the charge and
\* its QR code, so that the charge may exist when the second one fails.
CreateFails(w, c) ==
    /\ sess[w].pc = "create"
    /\ Fresh(c)
    /\ faults < MaxFaults
    /\ faults' = faults + 1
    /\ psp' \in {psp, [psp EXCEPT ![c] = AtPsp(sess[w].p)]}
    /\ Close(w)
    /\ UNCHANGED <<day, today, proposal, parcela, charge, audit, handed>>

\* The QR code is stored, the row is inserted and committed with the new
\* status of the replaced charge and last_pix_charge_id, and the brcode is
\* returned to the customer.
CommitCharge(w) ==
    LET s == sess[w] IN
    /\ s.pc = "store" /\ Unlocked
    /\ charge' = [d \in Charges |->
          IF d = s.c THEN [parcela |-> s.p, status |-> "pending",
                           born |-> day, utc |-> today, rates |-> s.rates]
          ELSE IF d = s.last /\ s.flip # "pending"
               THEN [charge[d] EXCEPT !.status = s.flip]
               ELSE charge[d]]
    /\ parcela' = [parcela EXCEPT ![s.p].last = s.c]
    /\ handed' = handed \cup {s.c}
    /\ Close(w)
    /\ UNCHANGED <<day, today, proposal, audit, psp, faults>>

-----------------------------------------------------------------------------
(* handle_webhook, for a verified event of status paid.  The PSP may       *)
(* deliver the event of a payment late and more than once.                 *)

\* Defect: the status of the event is not looked at.
PaidEventUnchecked(c) == psp[c].status \in {"active", "paid"}

\* An event of status paid: the PSP received the payment of c.
PaidEvent(c) == psp[c].status = "paid"

\* Defects: no replay is recognised; any charge not pending counts as one.
ReplayNever(c) == FALSE
ReplayUnlessPending(c) == charge[c].status # "pending"

Replay(c) == charge[c].status = "paid"

\* The event of an unknown charge, or of one already paid, is logged and
\* changes nothing here.
StartWebhook(w, c) ==
    /\ PaidEvent(c)
    /\ charge[c].status # "absent" /\ ~Replay(c)
    /\ audit[c] < MaxAudits
    /\ Open(w, [Closed EXCEPT !.pc = "webhook", !.c = c,
                              !.p = charge[c].parcela])
    /\ UNCHANGED <<day, today, proposal, parcela, charge, audit, psp, handed, faults>>

LoadParcela(w) ==
    /\ sess[w].pc = "webhook"
    /\ sess' = [sess EXCEPT ![w].pc = "settle",
                            ![w].status = parcela[sess[w].p].status,
                            ![w].last = parcela[sess[w].p].last]
    /\ UNCHANGED <<day, today, proposal, parcela, charge, audit, psp, handed, faults>>

\* A column that already held the new value when it was loaded is not
\* written.
CommitWebhook(w) ==
    LET s == sess[w] IN
    /\ s.pc = "settle" /\ Unlocked
    /\ charge' = [charge EXCEPT ![s.c].status = "paid"]
    /\ parcela' = [parcela EXCEPT
                     ![s.p] = [status |-> IF s.status = "paid"
                                          THEN @.status ELSE "paid",
                               last |-> IF s.last = s.c THEN @.last ELSE s.c]]
    /\ audit' = [audit EXCEPT ![s.c] = @ + 1]
    /\ Close(w)
    /\ UNCHANGED <<day, today, proposal, psp, handed, faults>>

-----------------------------------------------------------------------------
(* get_charge: the expiry of a charge that is looked at is committed *)

StartGetCharge(w, c) ==
    /\ charge[c].status = "pending"
    /\ Flipped(c) = "expired"
    /\ Open(w, [Closed EXCEPT !.pc = "expire", !.c = c])
    /\ UNCHANGED <<day, today, proposal, parcela, charge, audit, psp, handed, faults>>

CommitExpired(w) ==
    /\ sess[w].pc = "expire"
    /\ charge' = [charge EXCEPT ![sess[w].c].status = "expired"]
    /\ Close(w)
    /\ UNCHANGED <<day, today, proposal, parcela, audit, psp, handed, faults>>

-----------------------------------------------------------------------------
(* mark_overdue, the daily cron *)

\* Defect: the query does not filter on the status.
PastDueAnyStatus == {p \in Parcelas : Due[p] < today}

PastDue == {p \in Parcelas : parcela[p].status = "open" /\ Due[p] < today}

StartOverdue(w) ==
    /\ PastDue # {}
    /\ Open(w, [Closed EXCEPT !.pc = "overdue", !.batch = PastDue])
    /\ UNCHANGED <<day, today, proposal, parcela, charge, audit, psp, handed, faults>>

CommitOverdue(w) ==
    /\ sess[w].pc = "overdue" /\ Unlocked
    /\ parcela' = [p \in Parcelas |->
          IF p \in sess[w].batch
          THEN [parcela[p] EXCEPT !.status = "overdue"] ELSE parcela[p]]
    /\ Close(w)
    /\ UNCHANGED <<day, today, proposal, charge, audit, psp, handed, faults>>

-----------------------------------------------------------------------------
(* ProposalService.cancel and cancel_charges_for_proposal *)

StartCancel(w) ==
    /\ proposal = "aprovada"
    /\ Open(w, [Closed EXCEPT !.pc = "void"])
    /\ UNCHANGED <<day, today, proposal, parcela, charge, audit, psp, handed, faults>>

\* The bulk UPDATE, then the query for the charges to cancel: only the one
\* that last_pix_charge_id points at is looked at.
VoidParcelas(w) ==
    /\ sess[w].pc = "void" /\ Unlocked
    /\ sess' = [sess EXCEPT
                  ![w].pc = "cancel",
                  ![w].todo = {parcela[p].last : p \in Parcelas} \ {None}]
    /\ UNCHANGED <<day, today, proposal, parcela, charge, audit, psp, handed, faults>>

CancelOne(w, c) ==
    /\ sess[w].pc = "cancel"
    /\ c \in sess[w].todo
    /\ IF charge[c].status = "pending"
       THEN /\ PspCancel(c)
            /\ sess' = [sess EXCEPT ![w].todo = @ \ {c},
                                    ![w].done = @ \cup {c}]
       ELSE /\ sess' = [sess EXCEPT ![w].todo = @ \ {c}]
            /\ UNCHANGED <<psp, faults>>
    /\ UNCHANGED <<day, today, proposal, parcela, charge, audit, handed>>

\* The bulk UPDATE has no condition on the status of an instalment.
CommitCancel(w) ==
    LET s == sess[w] IN
    /\ s.pc = "cancel" /\ s.todo = {}
    /\ parcela' = [p \in Parcelas |->
                     [parcela[p] EXCEPT !.status = "canceled"]]
    /\ charge' = [c \in Charges |->
          IF c \in s.done THEN [charge[c] EXCEPT !.status = "canceled"]
                          ELSE charge[c]]
    /\ proposal' = "cancelada"
    /\ Close(w)
    /\ UNCHANGED <<day, today, audit, psp, handed, faults>>

-----------------------------------------------------------------------------
(* The environment *)

\* A session is lost before its commit: a crash, a time-out, a failed
\* storage.put.  What it did at the PSP stays done.
LoseSession(w) ==
    /\ sess[w].pc # "idle"
    /\ faults < MaxFaults
    /\ faults' = faults + 1
    /\ Close(w)
    /\ UNCHANGED <<day, today, proposal, parcela, charge, audit, psp, handed>>

\* The customer pays a brcode he was given, as long as the PSP takes it.
Pay(c) ==
    /\ c \in handed
    /\ psp[c].status = "active"
    /\ day <= LastDay(psp[c].parcela)
    /\ psp' = [psp EXCEPT ![c].status = "paid"]
    /\ UNCHANGED <<day, today, proposal, parcela, charge, audit, handed, sess, faults>>

\* 21:00 in Brazil: midnight for the server.
Evening ==
    /\ today = day /\ today < MaxDay
    /\ today' = day + 1
    /\ UNCHANGED <<day, proposal, parcela, charge, audit, psp, handed, sess,
                   faults>>

NextDay ==
    /\ day < today
    /\ day' = today
    /\ UNCHANGED <<today, proposal, parcela, charge, audit, psp, handed, sess, faults>>

Next ==
    \/ \E w \in Workers :
          \/ \E p \in Parcelas : StartCharge(w, p)
          \/ ReturnExisting(w)
          \/ ReplaceExisting(w)
          \/ CancelStale(w)
          \/ \E c \in Charges : CreateAtPsp(w, c)
          \/ \E c \in Charges : CreateFails(w, c)
          \/ CommitCharge(w)
          \/ \E c \in Charges : StartWebhook(w, c)
          \/ LoadParcela(w)
          \/ CommitWebhook(w)
          \/ \E c \in Charges : StartGetCharge(w, c)
          \/ CommitExpired(w)
          \/ StartOverdue(w)
          \/ CommitOverdue(w)
          \/ StartCancel(w)
          \/ VoidParcelas(w)
          \/ \E c \in Charges : CancelOne(w, c)
          \/ CommitCancel(w)
          \/ LoseSession(w)
    \/ \E c \in Charges : Pay(c)
    \/ Evening
    \/ NextDay

Spec == Init /\ [][Next]_vars

-----------------------------------------------------------------------------
(* Fairness.  Every step of an open session is awaited by a running event  *)
(* loop; the PSP goes on delivering the event of a payment until it is     *)
(* accepted, and the server has capacity to open a session for it.         *)

SessionStep(w) ==
    \/ ReturnExisting(w) \/ ReplaceExisting(w) \/ CancelStale(w)
    \/ \E c \in Charges : CreateAtPsp(w, c) \/ CancelOne(w, c)
    \/ CommitCharge(w) \/ LoadParcela(w) \/ CommitWebhook(w)
    \/ CommitExpired(w) \/ CommitOverdue(w) \/ VoidParcelas(w)
    \/ CommitCancel(w)

FairSpec ==
    /\ Spec
    /\ \A w \in Workers : WF_vars(SessionStep(w) \/ LoseSession(w))
    /\ \A c \in Charges : SF_vars(\E w \in Workers : StartWebhook(w, c))

-----------------------------------------------------------------------------
(* What holds whatever the sessions' interleaving *)

Received(p) == \E c \in Charges : charge[c].parcela = p /\ psp[c].status = "paid"

\* An instalment is shown as paid only when the PSP received money for one
\* of its own charges (handle_webhook, under any race with the cron, with
\* cancellations and with other webhooks).
PaidIsBacked == \A p \in Parcelas : parcela[p].status = "paid" => Received(p)

\* No payment is ever lost for want of a row: a brcode reaches the customer
\* only after its charge was committed, so that "charge not found" never
\* answers the event of a payment, and the row names the instalment the PSP
\* charged for.
PaymentFindsItsCharge ==
    \A c \in Charges : psp[c].status = "paid" =>
        /\ charge[c].status # "absent"
        /\ charge[c].parcela = psp[c].parcela

\* A charge that carries multa and juros was created when the grace period of
\* its instalment was over by the server's calendar (rates_past_grace in
\* _ensure_charge), however long the request took and whatever its session
\* had loaded.  In Brazil that may be the evening of the last day of grace.
NoRatesWithinGrace ==
    \A c \in Charges : charge[c].rates =>
        charge[c].utc > Due[charge[c].parcela] + Carencia

\* A charge the PSP would still take money for, and the database neither
\* offers nor has seen expire, is the trace of a failure: of a cancel call
\* that was refused or of a session that was lost or failed after its create
\* call, and of no interleaving.
InFlight == {sess[w].c : w \in Workers}

Stray == {c \in Charges : /\ psp[c].status = "active"
                          /\ charge[c].status \in {"absent", "canceled"}}

StrayChargesAreFailures == Cardinality(Stray \ InFlight) <= faults

-----------------------------------------------------------------------------
(* What holds when sessions do not overlap (one worker) *)

Pending(p) == {c \in Charges : /\ charge[c].parcela = p
                               /\ charge[c].status = "pending"}

\* _ensure_charge is idempotent: an instalment never has two pending
\* charges, although charges expire, go stale and are paid late.
OnePendingCharge ==
    \A p \in Parcelas : \A c, d \in Pending(p) : c = d

\* handle_webhook processes paid events idempotently: however often the PSP
\* delivers it, a payment is entered in the audit log once.
ProcessedOnce == \A c \in Charges : audit[c] <= 1

\* Once the proposal is cancelled no charge is created for its instalments.
NoChargeAfterCancel ==
    [][proposal = "cancelada" =>
         \A c \in Charges : charge'[c].status = "pending" =>
           charge[c].status = "pending"]_vars

Ledger == INSTANCE ParcelaLedger WITH
    status <- [p \in Parcelas |-> parcela[p].status],
    received <- {p \in Parcelas : Received(p)}

\* The sessions, charges and webhooks together implement the ledger.
ImplementsLedger == Ledger!Spec

\* A payment is recorded in the end and stays recorded, even when its
\* charge was cancelled, replaced or expired before the event arrived.
PaymentRecorded ==
    \A c \in Charges :
        psp[c].status = "paid" ~> [](charge[c].status = "paid")
=============================================================================
