---------------------------- MODULE ProposalFlow ----------------------------
(***************************************************************************)
(* The life of the proposals: services/proposal_service.py, run by request *)
(* sessions, and the render jobs of workers/tasks.py, run by the job       *)
(* queue's worker.  A request enqueues its job after it has committed; the *)
(* queue runs a job again when the worker that ran it died.                *)
(*                                                                         *)
(* A session loads a proposal, checks it, and writes at its commit the     *)
(* columns that differ from what it loaded; nothing locks the row between. *)
(***************************************************************************)
EXTENDS Naturals, FiniteSets

CONSTANTS
    Sims,          \* confirmed simulations, with a client and a vehicle
    Workers,       \* request sessions open at one time
    Runners,       \* jobs run at one time
    None,
    MaxReRenders,  \* bound: re-render requests of the administrator
    MaxCarnes,     \* bound: carne requests
    MaxReruns,     \* bound: jobs run again after their worker died
    MaxFaults      \* bound: requests lost and renders that fail or time out

ASSUME ProposalAssumption ==
    /\ None \notin Sims
    /\ MaxReRenders \in Nat /\ MaxCarnes \in Nat
    /\ MaxReruns \in Nat /\ MaxFaults \in Nat

VARIABLES
    prop,    \* proposals, by simulation: status, render_status, keys
    sets,    \* instalment schedules inserted by approvals, by proposal
    void,    \* how many of them a cancellation covered, oldest first
    queue,   \* jobs waiting, by kind and proposal
    sess,    \* the open request sessions
    job,     \* the running jobs
    used,    \* how much of each bound was used
    overlapped \* history: two requests were open at one time

vars == <<prop, sets, void, queue, sess, job, used, overlapped>>

-----------------------------------------------------------------------------
Status == {"none", "rascunho", "pronta", "aprovada", "cancelada"}
Kinds == {"proposta", "carne"}

Proposal == [status: Status,
             render: {"pending", "rendering", "ready", "failed"},
             pdf: BOOLEAN, carne: BOOLEAN]

NoProposal == [status |-> "none", render |-> "pending",
               pdf |-> FALSE, carne |-> FALSE]

Session == [pc: {"idle", "insert", "enqueue", "approve", "void", "cancel"},
            s: Sims \cup {None},
            kind: Kinds,        \* the job to enqueue
            covered: Nat]       \* schedules the bulk UPDATE reached

Closed == [pc |-> "idle", s |-> None, kind |-> "proposta", covered |-> 0]

Job == [s: Sims \cup {None}, kind: Kinds,
        status: Status]         \* proposal.status as loaded by the job

NoJob == [s |-> None, kind |-> "proposta", status |-> "none"]

\* Typing.
TypeOK ==
    /\ prop \in [Sims -> Proposal]
    /\ sets \in [Sims -> Nat]
    /\ void \in [Sims -> Nat]
    /\ queue \in [Kinds -> [Sims -> Nat]]
    /\ sess \in [Workers -> Session]
    /\ job \in [Runners -> Job]
    /\ used \in [{"reRender", "carne", "rerun", "fault"} -> Nat]
    /\ overlapped \in BOOLEAN

Init ==
    /\ prop = [s \in Sims |-> NoProposal]
    /\ sets = [s \in Sims |-> 0]
    /\ void = [s \in Sims |-> 0]
    /\ queue = [k \in Kinds |-> [s \in Sims |-> 0]]
    /\ sess = [w \in Workers |-> Closed]
    /\ job = [r \in Runners |-> NoJob]
    /\ used = [b \in {"reRender", "carne", "rerun", "fault"} |-> 0]
    /\ overlapped = FALSE

Use(bound, max) == /\ used[bound] < max
                   /\ used' = [used EXCEPT ![bound] = @ + 1]

Open(w, session) ==
    /\ sess[w].pc = "idle"
    /\ sess' = [sess EXCEPT ![w] = session]
    /\ overlapped' = (overlapped \/ \E v \in Workers : sess[v].pc # "idle")

Close(w) == sess' = [sess EXCEPT ![w] = Closed]

-----------------------------------------------------------------------------
(* create *)

\* A simulation that already has a proposal is refused.
StartCreate(w, s) ==
    /\ prop[s].status = "none"
    /\ Open(w, [Closed EXCEPT !.pc = "insert", !.s = s])
    /\ UNCHANGED <<prop, sets, void, queue, job, used>>

\* The unique constraint fails the second of two concurrent inserts.
CommitCreate(w) ==
    LET s == sess[w].s IN
    /\ sess[w].pc = "insert"
    /\ IF prop[s].status = "none"
       THEN /\ prop' = [prop EXCEPT ![s].status = "rascunho"]
            /\ sess' = [sess EXCEPT ![w].pc = "enqueue"]
       ELSE /\ Close(w)
            /\ UNCHANGED prop
    /\ UNCHANGED <<sets, void, queue, job, used, overlapped>>

\* The last step of create, re_render and create_carne.
EnqueueJob(w) ==
    LET c == sess[w] IN
    /\ c.pc = "enqueue"
    /\ queue' = [queue EXCEPT ![c.kind][c.s] = @ + 1]
    /\ Close(w)
    /\ UNCHANGED <<prop, sets, void, job, used, overlapped>>

-----------------------------------------------------------------------------
(* approve *)

\* Defect: the render status alone decides.
ApprovableRendered(s) == prop[s].render = "ready"

Approvable(s) == prop[s].status = "pronta" /\ prop[s].render = "ready"

StartApprove(w, s) ==
    /\ Approvable(s)
    /\ Open(w, [Closed EXCEPT !.pc = "approve", !.s = s])
    /\ UNCHANGED <<prop, sets, void, queue, job, used>>

\* One parcela_payments row per line of the snapshot's schedule: nothing in
\* the table keeps a second schedule out.
CommitApprove(w) ==
    LET s == sess[w].s IN
    /\ sess[w].pc = "approve"
    /\ prop' = [prop EXCEPT ![s].status = "aprovada"]
    /\ sets' = [sets EXCEPT ![s] = @ + 1]
    /\ Close(w)
    /\ UNCHANGED <<void, queue, job, used, overlapped>>

-----------------------------------------------------------------------------
(* cancel *)

Cancellable(s) == prop[s].status = "aprovada"

\* Defect: the bulk UPDATE is left out.
CoveredNone(s) == 0

\* The bulk UPDATE reaches the rows committed when it runs.
Covered(s) == sets[s]

StartCancel(w, s) ==
    /\ Cancellable(s)
    /\ Open(w, [Closed EXCEPT !.pc = "void", !.s = s])
    /\ UNCHANGED <<prop, sets, void, queue, job, used>>

VoidParcelas(w) ==
    /\ sess[w].pc = "void"
    /\ sess' = [sess EXCEPT ![w].pc = "cancel",
                            ![w].covered = Covered(sess[w].s)]
    /\ UNCHANGED <<prop, sets, void, queue, job, used, overlapped>>

CommitCancel(w) ==
    LET s == sess[w].s IN
    /\ sess[w].pc = "cancel"
    /\ prop' = [prop EXCEPT ![s].status = "cancelada"]
    /\ void' = [void EXCEPT ![s] =
                  IF sess[w].covered > @ THEN sess[w].covered ELSE @]
    /\ Close(w)
    /\ UNCHANGED <<sets, queue, job, used, overlapped>>

-----------------------------------------------------------------------------
(* re_render and create_carne *)

AskedAgain(row) == [row EXCEPT !.render = "pending"]

\* The administrator's re_render does not look at the status.
ReRender(w, s) ==
    /\ prop[s].status # "none"
    /\ Use("reRender", MaxReRenders)
    /\ Open(w, [Closed EXCEPT !.pc = "enqueue", !.s = s])
    /\ prop' = [prop EXCEPT ![s] = AskedAgain(@)]
    /\ UNCHANGED <<sets, void, queue, job>>

\* create_carne wants an approved proposal, re_render of a carne any.
AskCarne(w, s) ==
    /\ \/ prop[s].status = "aprovada"
       \/ prop[s].status # "none" /\ MaxReRenders > 0
    /\ Use("carne", MaxCarnes)
    /\ Open(w, [Closed EXCEPT !.pc = "enqueue", !.s = s, !.kind = "carne"])
    /\ UNCHANGED <<prop, sets, void, queue, job>>

\* A request is lost between its steps: what it had committed stays.
LoseRequest(w) ==
    /\ sess[w].pc # "idle"
    /\ Use("fault", MaxFaults)
    /\ Close(w)
    /\ UNCHANGED <<prop, sets, void, queue, job, overlapped>>

-----------------------------------------------------------------------------
(* render_proposta_pdf and render_carne_pdf *)

\* The proposal is loaded; the render of a proposal is announced.
TakeJob(r, k, s) ==
    /\ job[r] = NoJob
    /\ queue[k][s] > 0
    /\ queue' = [queue EXCEPT ![k][s] = @ - 1]
    /\ job' = [job EXCEPT ![r] = [s |-> s, kind |-> k,
                                  status |-> prop[s].status]]
    /\ prop' = IF k = "proposta"
               THEN [prop EXCEPT ![s].render = "rendering"] ELSE prop
    /\ UNCHANGED <<sets, void, sess, used, overlapped>>

Done(r) == job' = [job EXCEPT ![r] = NoJob]

\* Defect: the key of the PDF is not recorded.
RenderedNoKey(row, loaded) ==
    [row EXCEPT !.render = "ready",
                !.status = IF loaded = "pronta" THEN @ ELSE "pronta"]

\* The columns written when the PDF is stored.  The proposal becomes pronta
\* whatever it is, unless it already was when the job loaded it.
Rendered(row, loaded) ==
    [row EXCEPT !.render = "ready", !.pdf = TRUE,
                !.status = IF loaded = "pronta" THEN @ ELSE "pronta"]

FinishRender(r) ==
    LET j == job[r] IN
    /\ j.s # None /\ j.kind = "proposta"
    /\ prop' = [prop EXCEPT ![j.s] = Rendered(@, j.status)]
    /\ Done(r)
    /\ UNCHANGED <<sets, void, queue, sess, used, overlapped>>

FinishCarne(r) ==
    /\ job[r].s # None /\ job[r].kind = "carne"
    /\ prop' = [prop EXCEPT ![job[r].s].carne = TRUE]
    /\ Done(r)
    /\ UNCHANGED <<sets, void, queue, sess, used, overlapped>>

\* An exception is recorded as failed (a carne's only as an error text).
FailJob(r) ==
    /\ job[r].s # None
    /\ Use("fault", MaxFaults)
    /\ prop' = IF job[r].kind = "proposta"
               THEN [prop EXCEPT ![job[r].s].render = "failed"] ELSE prop
    /\ Done(r)
    /\ UNCHANGED <<sets, void, queue, sess, overlapped>>

\* The queue cancels the job after 120 seconds; the cancellation is not an
\* Exception and is not recorded.
TimeOutJob(r) ==
    /\ job[r].s # None
    /\ Use("fault", MaxFaults)
    /\ Done(r)
    /\ UNCHANGED <<prop, sets, void, queue, sess, overlapped>>

\* The worker dies, before the job's last commit or right after it; the
\* queue keeps the job and hands it out again.
Rerun(r) ==
    LET j == job[r] IN
    /\ j.s # None
    /\ Use("rerun", MaxReruns)
    /\ queue' = [queue EXCEPT ![j.kind][j.s] = @ + 1]
    /\ prop' \in {prop, IF j.kind = "proposta"
                        THEN [prop EXCEPT ![j.s] = Rendered(@, j.status)]
                        ELSE [prop EXCEPT ![j.s].carne = TRUE]}
    /\ Done(r)
    /\ UNCHANGED <<sets, void, sess, overlapped>>

Next ==
    \/ \E w \in Workers :
          \/ \E s \in Sims : \/ StartCreate(w, s) \/ StartApprove(w, s)
                             \/ StartCancel(w, s) \/ ReRender(w, s)
                             \/ AskCarne(w, s)
          \/ CommitCreate(w)
          \/ EnqueueJob(w)
          \/ CommitApprove(w)
          \/ VoidParcelas(w)
          \/ CommitCancel(w)
          \/ LoseRequest(w)
    \/ \E r \in Runners :
          \/ \E k \in Kinds, s \in Sims : TakeJob(r, k, s)
          \/ FinishRender(r)
          \/ FinishCarne(r)
          \/ FailJob(r)
          \/ TimeOutJob(r)
          \/ Rerun(r)

Spec == Init /\ [][Next]_vars

\* Fairness: an open request runs on, the worker takes jobs and ends them.
FairSpec ==
    /\ Spec
    /\ \A w \in Workers :
         WF_vars(CommitCreate(w) \/ EnqueueJob(w) \/ CommitApprove(w)
                 \/ VoidParcelas(w) \/ CommitCancel(w))
    /\ \A r \in Runners :
         /\ \A k \in Kinds, s \in Sims : SF_vars(TakeJob(r, k, s))
         /\ WF_vars(FinishRender(r) \/ FinishCarne(r) \/ FailJob(r))

-----------------------------------------------------------------------------
(* While no two requests have overlapped *)

\* Cancelling leaves no instalment to collect, even when the proposal was
\* rendered and approved again before.
CancelledHasNoInstalments ==
    \A s \in Sims :
        prop[s].status = "cancelada" /\ ~overlapped => void[s] = sets[s]

\* A proposal gets a second schedule of instalments only after a second
\* render of it was asked for or its render was run again: an approval uses
\* its pronta up.
SchedulesFollowRenders ==
    \A s \in Sims :
        overlapped \/ sets[s] <= 1 + used["reRender"] + used["rerun"]

-----------------------------------------------------------------------------
(* While no request is lost and no render fails *)

\* Every render that was asked for ends with a PDF, even if its worker dies.
RenderEnds ==
    \A s \in Sims :
        (prop[s].status # "none" /\ prop[s].render # "ready")
          ~> \/ prop[s].render = "ready" /\ prop[s].pdf
             \/ used["fault"] > 0
=============================================================================
