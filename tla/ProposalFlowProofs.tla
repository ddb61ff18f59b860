------------------------- MODULE ProposalFlowProofs -------------------------
(***************************************************************************)
(* What approvals and cancellations do to the schedules of instalments     *)
(* while no two requests overlap, for any number of proposals, sessions,   *)
(* runners, re-renders, reruns and faults.                                 *)
(*                                                                         *)
(* The argument is an account: a proposal earns one credit when it is      *)
(* created, one by every re-render and one by every job run again; a       *)
(* credit is somewhere on its way from a request through the queue and a   *)
(* job to the status pronta, and an approval spends it on a schedule.      *)
(***************************************************************************)
EXTENDS ProposalFlow, TLAPS, FiniteSetTheorems

One(condition) == IF condition THEN 1 ELSE 0

Created(s) == prop[s].status # "none"

\* Where a credit of s is between its request and its schedule.
Asking(s) == \E w \in Workers : /\ sess[w].pc = "enqueue"
                                /\ sess[w].s = s
                                /\ sess[w].kind = "proposta"
Rendering(s) == {r \in Runners : job[r].s = s /\ job[r].kind = "proposta"}
Ready(s) == \/ prop[s].status = "pronta"
            \/ \E w \in Workers : sess[w].pc = "approve" /\ sess[w].s = s

Underway(s) ==
    One(Asking(s)) + queue["proposta"][s] + Cardinality(Rendering(s)) + One(Ready(s))

Earned(s) == One(Created(s)) + used["reRender"] + used["rerun"]

\* The jobs of a proposal can be counted, although Runners may be infinite.
FewJobs == \A s \in Sims : IsFiniteSet(Rendering(s))

\* An open request is about a proposal.
Addressed == \A w \in Workers : sess[w].pc # "idle" => sess[w].s \in Sims

\* The request that is open is the only one.
Alone == \A v, w \in Workers :
            sess[v].pc # "idle" /\ sess[w].pc # "idle" => v = w

Balanced == \A s \in Sims : sets[s] + Underway(s) <= Earned(s)

\* A cancellation covers every schedule there is when it commits.
Covering ==
    /\ \A s \in Sims : void[s] <= sets[s]
    /\ \A s \in Sims : prop[s].status = "cancelada" => void[s] = sets[s]
    /\ \A w \in Workers :
          sess[w].pc = "cancel" => sess[w].covered = sets[sess[w].s]

IInv ==
    /\ TypeOK
    /\ FewJobs
    /\ Addressed
    /\ ~overlapped => Alone /\ Balanced /\ Covering

-----------------------------------------------------------------------------
(* Counting *)

\* The jobs of a proposal are counted when a runner takes or ends one.
LEMMA JobCount ==
    ASSUME job \in [Runners -> Job], NEW r \in Runners, NEW j \in Job,
           job' = [job EXCEPT ![r] = j],
           NEW s \in Sims, IsFiniteSet(Rendering(s))
    PROVE  /\ IsFiniteSet(Rendering(s)')
           /\ Cardinality(Rendering(s)) \in Nat
           /\ Cardinality(Rendering(s)') \in Nat
           /\ Cardinality(Rendering(s)') =
                 Cardinality(Rendering(s))
                 - (IF job[r].s = s /\ job[r].kind = "proposta" THEN 1 ELSE 0)
                 + (IF j.s = s /\ j.kind = "proposta" THEN 1 ELSE 0)
  <1> DEFINE rest == Rendering(s) \ {r}
  <1>1. /\ IsFiniteSet(rest)
        /\ Cardinality(rest) = IF r \in Rendering(s) THEN Cardinality(Rendering(s)) - 1
                               ELSE Cardinality(Rendering(s))
    BY FS_RemoveElement
  <1>2. /\ IsFiniteSet(rest \cup {r})
        /\ Cardinality(rest \cup {r}) = Cardinality(rest) + 1
    BY <1>1, FS_AddElement
  <1>3. Rendering(s)' = IF j.s = s /\ j.kind = "proposta" THEN rest \cup {r} ELSE rest
    BY DEF Rendering
  <1>4. r \in Rendering(s) <=> job[r].s = s /\ job[r].kind = "proposta"
    BY DEF Rendering
  <1>5. Cardinality(Rendering(s)) \in Nat /\ Cardinality(rest) \in Nat
    BY <1>1, FS_CardinalityType
  <1> QED
    BY <1>1, <1>2, <1>3, <1>4, <1>5

LEMMA Initially == Init => IInv
  <1> SUFFICES ASSUME Init
               PROVE  IInv
    OBVIOUS
  <1>1. TypeOK
    BY ProposalAssumption DEF Init, TypeOK, Proposal, NoProposal, Status, Kinds, Session, Closed,
         Job, NoJob
  <1>2. \A s \in Sims : Rendering(s) = {}
    BY ProposalAssumption DEF Init, Rendering, NoJob
  <1>3. FewJobs
    BY <1>2, FS_EmptySet DEF FewJobs
  <1>4. Addressed /\ Alone /\ Covering
    BY DEF Init, Addressed, Alone, Covering, Closed, NoProposal
  <1>5. Balanced
    <2> SUFFICES ASSUME NEW s \in Sims
                 PROVE  sets[s] + Underway(s) <= Earned(s)
      BY DEF Balanced
    <2>1. ~Asking(s) /\ ~Ready(s) /\ ~Created(s)
      BY DEF Init, Asking, Ready, Created, Closed, NoProposal
    <2>2. Cardinality(Rendering(s)) = 0
      BY <1>2, FS_EmptySet
    <2> QED
      BY <2>1, <2>2 DEF Init, Underway, Earned, One, Kinds
  <1> QED
    BY <1>1, <1>3, <1>4, <1>5 DEF IInv

-----------------------------------------------------------------------------
(* The requests *)

\* What a step of a request needs to keep the account: no job is touched, and
\* each proposal spends no more than it earns.
LEMMA RequestStep ==
    ASSUME IInv, TypeOK', Addressed', UNCHANGED job,
           overlapped' \in BOOLEAN, overlapped => overlapped',
           ~overlapped' =>
              /\ Alone' /\ Covering'
              /\ \A s \in Sims :
                    sets'[s] + One(Asking(s)') + queue'["proposta"][s] + One(Ready(s)')
                    - Earned(s)'
                      <= sets[s] + One(Asking(s)) + queue["proposta"][s] + One(Ready(s))
                         - Earned(s)
    PROVE  IInv'
  <1>1. \A s : Rendering(s)' = Rendering(s)
    BY DEF Rendering
  <1>2. FewJobs'
    BY <1>1 DEF IInv, FewJobs
  <1>3. ASSUME ~overlapped' PROVE Balanced'
    <2> SUFFICES ASSUME NEW s \in Sims
                 PROVE  sets'[s] + Underway(s)' <= Earned(s)'
      BY DEF Balanced
    <2>1. /\ sets[s] \in Nat /\ sets'[s] \in Nat
          /\ queue["proposta"][s] \in Nat /\ queue'["proposta"][s] \in Nat
          /\ Earned(s) \in Nat /\ Earned(s)' \in Nat
      BY DEF IInv, TypeOK, Kinds, Earned, One
    <2>2. /\ One(Asking(s)) \in Nat /\ One(Ready(s)) \in Nat
          /\ One(Asking(s)') \in Nat /\ One(Ready(s)') \in Nat
      BY DEF One
    <2>3. Cardinality(Rendering(s)) \in Nat
      BY FS_CardinalityType DEF IInv, FewJobs
    <2>4. sets[s] + Underway(s) <= Earned(s)
      BY <1>3 DEF IInv, Balanced
    <2>5. /\ Underway(s) = One(Asking(s)) + queue["proposta"][s]
                           + Cardinality(Rendering(s)) + One(Ready(s))
          /\ Underway(s)' = One(Asking(s)') + queue'["proposta"][s]
                            + Cardinality(Rendering(s)) + One(Ready(s)')
      BY <1>1 DEF Underway, One
    <2> HIDE DEF Underway, Earned, One, Asking, Ready
    <2> QED
      BY <1>3, <2>1, <2>2, <2>3, <2>4, <2>5
  <1> QED
    BY <1>2, <1>3 DEF IInv

\* A request that ends without a commit gives up what it had.
LEMMA ClosedStep ==
    ASSUME IInv, NEW w \in Workers, Close(w),
           UNCHANGED <<prop, sets, void, queue, job, overlapped>>,
           used' = used \/ Use("fault", MaxFaults)
    PROVE  IInv'
  <1> USE DEF Close, Use
  <1>1. TypeOK'
    <2> USE DEF IInv, TypeOK, Addressed
    <2>1. prop' \in [Sims -> Proposal]
      BY DEF Proposal, Status
    <2>2. sess' \in [Workers -> Session]
      BY DEF Session, Closed, Kinds
    <2>3. sets' \in [Sims -> Nat] /\ void' \in [Sims -> Nat]
      BY DEF Session
    <2>4. queue' \in [Kinds -> [Sims -> Nat]]
      BY DEF Session, Kinds
    <2>5. used' \in [{"reRender", "carne", "rerun", "fault"} -> Nat]
      BY DEF Session, Kinds
    <2> QED
      BY <2>1, <2>2, <2>3, <2>4, <2>5
  <1>2. Addressed'
    BY DEF IInv, Addressed, TypeOK, Closed
  <1>3. overlapped' \in BOOLEAN
    BY DEF IInv, TypeOK
  <1>4. ASSUME ~overlapped' PROVE Alone' /\ Covering'
    BY <1>4 DEF IInv, Alone, Covering, TypeOK, Closed
  <1>5. ASSUME ~overlapped', NEW s1 \in Sims
        PROVE  sets'[s1] + One(Asking(s1)') + queue'["proposta"][s1] + One(Ready(s1)')
               - Earned(s1)'
                 <= sets[s1] + One(Asking(s1)) + queue["proposta"][s1]
                    + One(Ready(s1)) - Earned(s1)
    BY DEF IInv, TypeOK, Kinds, Closed, Asking, Ready, Earned, Created, One
  <1> QED
    BY <1>1, <1>2, <1>3, <1>4, <1>5, RequestStep

\* A request to create a proposal has nothing underway yet.
LEMMA StartCreateStep ==
    ASSUME IInv, NEW w \in Workers, NEW s \in Sims, StartCreate(w, s)
    PROVE  IInv'
  <1> USE DEF StartCreate, Open
  <1>1. TypeOK'
    <2> USE DEF IInv, TypeOK, Addressed
    <2>1. prop' \in [Sims -> Proposal]
      BY DEF Proposal, Status
    <2>2. sess' \in [Workers -> Session]
      BY DEF Session, Closed, Kinds
    <2>3. sets' \in [Sims -> Nat] /\ void' \in [Sims -> Nat]
      BY DEF Session
    <2>4. queue' \in [Kinds -> [Sims -> Nat]]
      BY DEF Session, Kinds
    <2>5. used' \in [{"reRender", "carne", "rerun", "fault"} -> Nat]
      BY DEF Session, Kinds
    <2> QED
      BY <2>1, <2>2, <2>3, <2>4, <2>5
  <1>2. Addressed'
    BY ProposalAssumption DEF IInv, Addressed, TypeOK, Proposal, Status, Kinds, Session, Closed
  <1>3. /\ UNCHANGED job
        /\ overlapped' \in BOOLEAN
        /\ overlapped => overlapped'
    BY DEF IInv, TypeOK
  <1>4. ASSUME ~overlapped' PROVE Alone'
    BY <1>4 DEF IInv, Alone, TypeOK, Proposal, Status, Kinds, Session, Closed
  <1>5. ASSUME ~overlapped' PROVE Covering'
    BY <1>5 DEF IInv, Addressed, Alone, Covering, TypeOK, Proposal, Status, Kinds,
                Session, Closed
  <1>6. ASSUME ~overlapped', NEW s1 \in Sims
        PROVE  sets'[s1] + One(Asking(s1)') + queue'["proposta"][s1] + One(Ready(s1)')
               - Earned(s1)'
                 <= sets[s1] + One(Asking(s1)) + queue["proposta"][s1]
                    + One(Ready(s1)) - Earned(s1)
    BY <1>6 DEF IInv, Addressed, Alone, TypeOK, Proposal, Status, Kinds, Session,
                Closed, Asking, Ready, Earned, Created, One
  <1> QED
    BY <1>1, <1>2, <1>3, <1>4, <1>5, <1>6, RequestStep

\* The credit of a new proposal is with the request that will enqueue its job.
LEMMA CommitCreateStep ==
    ASSUME IInv, NEW w \in Workers, CommitCreate(w)
    PROVE  IInv'
  <1> DEFINE s == sess[w].s
  <1>1. /\ s \in Sims /\ sess \in [Workers -> Session] /\ sess[w].pc = "insert"
        /\ prop \in [Sims -> Proposal]
        /\ UNCHANGED <<sets, void, queue, job, used, overlapped>>
        /\ overlapped \in BOOLEAN
    BY DEF CommitCreate, IInv, TypeOK, Addressed
  <1>2. CASE prop[s].status = "none"
    <2>1. /\ prop' = [prop EXCEPT ![s].status = "rascunho"]
          /\ sess' = [sess EXCEPT ![w].pc = "enqueue"]
      BY <1>2 DEF CommitCreate
    <2> HIDE DEF s
    <2>2. /\ prop' \in [Sims -> Proposal] /\ sess' \in [Workers -> Session]
          /\ \A v \in Workers : sess'[v].s = sess[v].s
      BY <1>1, <2>1 DEF Proposal, Status, Session
    <2>3. TypeOK'
      BY <1>1, <2>2 DEF IInv, TypeOK
    <2>4. Addressed'
      BY <1>1, <2>1 DEF IInv, Addressed
    <2>5. ASSUME ~overlapped' PROVE Alone' /\ Covering'
      BY <1>1, <2>1, <2>5 DEF IInv, Alone, Covering, Proposal
    <2>6. ASSUME ~overlapped', NEW s1 \in Sims
          PROVE  sets'[s1] + One(Asking(s1)') + queue'["proposta"][s1] + One(Ready(s1)')
                 - Earned(s1)'
                   <= sets[s1] + One(Asking(s1)) + queue["proposta"][s1]
                      + One(Ready(s1)) - Earned(s1)
      <3>1. /\ Ready(s1)' <=> Ready(s1)
            /\ s1 # s => (Asking(s1)' <=> Asking(s1)) /\ (Created(s1)' <=> Created(s1))
            /\ s1 = s => ~Created(s1) /\ Created(s1)'
        BY <1>1, <1>2, <2>1, <2>2 DEF Asking, Ready, Created, Proposal, Session, s
      <3>2. s1 = s => ~Asking(s1)
        BY <1>1, <2>6 DEF Asking, IInv, Alone
      <3>3. /\ sets[s1] \in Nat /\ queue["proposta"][s1] \in Nat
            /\ used["reRender"] \in Nat /\ used["rerun"] \in Nat
        BY DEF IInv, TypeOK, Kinds
      <3> HIDE DEF Asking, Ready, Created
      <3> QED
        BY <1>1, <3>1, <3>2, <3>3 DEF Earned, One
    <2> QED
      BY <1>1, <2>3, <2>4, <2>5, <2>6, RequestStep
  <1>3. CASE prop[s].status # "none"
    <2>1. UNCHANGED prop /\ Close(w)
      BY <1>3 DEF CommitCreate
    <2> QED
      BY <1>1, <2>1, ClosedStep
  <1> QED
    BY <1>2, <1>3

\* The credit goes from the request to the queue, or the job is a carne's.
LEMMA EnqueueJobStep ==
    ASSUME IInv, NEW w \in Workers, EnqueueJob(w)
    PROVE  IInv'
  <1> USE DEF EnqueueJob, Close
  <1>1. TypeOK'
    <2> USE DEF IInv, TypeOK, Addressed
    <2>1. prop' \in [Sims -> Proposal]
      BY DEF Proposal, Status
    <2>2. sess' \in [Workers -> Session]
      BY DEF Session, Closed, Kinds
    <2>3. sets' \in [Sims -> Nat] /\ void' \in [Sims -> Nat]
      BY DEF Session
    <2>4. queue' \in [Kinds -> [Sims -> Nat]]
      BY DEF Session, Kinds
    <2>5. used' \in [{"reRender", "carne", "rerun", "fault"} -> Nat]
      BY DEF Session, Kinds
    <2> QED
      BY <2>1, <2>2, <2>3, <2>4, <2>5
  <1>2. Addressed'
    BY ProposalAssumption DEF IInv, Addressed, TypeOK, Proposal, Status, Kinds, Session, Closed
  <1>3. /\ UNCHANGED job
        /\ overlapped' \in BOOLEAN
        /\ overlapped => overlapped'
    BY DEF IInv, TypeOK
  <1>4. ASSUME ~overlapped' PROVE Alone'
    BY <1>4 DEF IInv, Alone, TypeOK, Proposal, Status, Kinds, Session, Closed
  <1>5. ASSUME ~overlapped' PROVE Covering'
    BY <1>5 DEF IInv, Addressed, Alone, Covering, TypeOK, Proposal, Status, Kinds,
                Session, Closed
  <1>6. ASSUME ~overlapped', NEW s1 \in Sims
        PROVE  sets'[s1] + One(Asking(s1)') + queue'["proposta"][s1] + One(Ready(s1)')
               - Earned(s1)'
                 <= sets[s1] + One(Asking(s1)) + queue["proposta"][s1]
                    + One(Ready(s1)) - Earned(s1)
    BY <1>6 DEF IInv, Addressed, Alone, TypeOK, Proposal, Status, Kinds, Session,
                Closed, Asking, Ready, Earned, Created, One
  <1> QED
    BY <1>1, <1>2, <1>3, <1>4, <1>5, <1>6, RequestStep

\* Only a proposal that is pronta is approved, so the request takes its credit over.
LEMMA StartApproveStep ==
    ASSUME IInv, NEW w \in Workers, NEW s \in Sims, StartApprove(w, s)
    PROVE  IInv'
  <1> USE DEF StartApprove, Open, Approvable
  <1>1. TypeOK'
    <2> USE DEF IInv, TypeOK, Addressed
    <2>1. prop' \in [Sims -> Proposal]
      BY DEF Proposal, Status
    <2>2. sess' \in [Workers -> Session]
      BY DEF Session, Closed, Kinds
    <2>3. sets' \in [Sims -> Nat] /\ void' \in [Sims -> Nat]
      BY DEF Session
    <2>4. queue' \in [Kinds -> [Sims -> Nat]]
      BY DEF Session, Kinds
    <2>5. used' \in [{"reRender", "carne", "rerun", "fault"} -> Nat]
      BY DEF Session, Kinds
    <2> QED
      BY <2>1, <2>2, <2>3, <2>4, <2>5
  <1>2. Addressed'
    BY ProposalAssumption DEF IInv, Addressed, TypeOK, Proposal, Status, Kinds, Session, Closed
  <1>3. /\ UNCHANGED job
        /\ overlapped' \in BOOLEAN
        /\ overlapped => overlapped'
    BY DEF IInv, TypeOK
  <1>4. ASSUME ~overlapped' PROVE Alone'
    BY <1>4 DEF IInv, Alone, TypeOK, Proposal, Status, Kinds, Session, Closed
  <1>5. ASSUME ~overlapped' PROVE Covering'
    BY <1>5 DEF IInv, Addressed, Alone, Covering, TypeOK, Proposal, Status, Kinds,
                Session, Closed
  <1>6. ASSUME ~overlapped', NEW s1 \in Sims
        PROVE  sets'[s1] + One(Asking(s1)') + queue'["proposta"][s1] + One(Ready(s1)')
               - Earned(s1)'
                 <= sets[s1] + One(Asking(s1)) + queue["proposta"][s1]
                    + One(Ready(s1)) - Earned(s1)
    BY <1>6 DEF IInv, Addressed, Alone, TypeOK, Proposal, Status, Kinds, Session,
                Closed, Asking, Ready, Earned, Created, One
  <1> QED
    BY <1>1, <1>2, <1>3, <1>4, <1>5, <1>6, RequestStep

\* The credit of the approval becomes the schedule.
LEMMA CommitApproveStep ==
    ASSUME IInv, NEW w \in Workers, CommitApprove(w)
    PROVE  IInv'
  <1> USE DEF CommitApprove, Close
  <1>1. TypeOK'
    <2> USE DEF IInv, TypeOK, Addressed
    <2>1. prop' \in [Sims -> Proposal]
      <3>1. sess[w].s \in Sims /\ prop[sess[w].s] \in Proposal
        OBVIOUS
      <3>2. [prop[sess[w].s] EXCEPT !.status = "aprovada"] \in Proposal
        BY <3>1 DEF Proposal, Status
      <3> QED
        BY <3>1, <3>2
    <2>2. sess' \in [Workers -> Session]
      BY DEF Session, Closed, Kinds
    <2>3. sets' \in [Sims -> Nat] /\ void' \in [Sims -> Nat]
      BY DEF Session
    <2>4. queue' \in [Kinds -> [Sims -> Nat]]
      BY DEF Session, Kinds
    <2>5. used' \in [{"reRender", "carne", "rerun", "fault"} -> Nat]
      BY DEF Session, Kinds
    <2> QED
      BY <2>1, <2>2, <2>3, <2>4, <2>5
  <1>2. Addressed'
    BY ProposalAssumption DEF IInv, Addressed, TypeOK, Proposal, Status, Kinds, Session, Closed
  <1>3. /\ UNCHANGED job
        /\ overlapped' \in BOOLEAN
        /\ overlapped => overlapped'
    BY DEF IInv, TypeOK
  <1>4. ASSUME ~overlapped' PROVE Alone'
    BY <1>4 DEF IInv, Alone, TypeOK, Proposal, Status, Kinds, Session, Closed
  <1>5. ASSUME ~overlapped' PROVE Covering'
    BY <1>5 DEF IInv, Addressed, Alone, Covering, TypeOK, Proposal, Status, Kinds,
                Session, Closed
  <1>6. ASSUME ~overlapped', NEW s1 \in Sims
        PROVE  sets'[s1] + One(Asking(s1)') + queue'["proposta"][s1] + One(Ready(s1)')
               - Earned(s1)'
                 <= sets[s1] + One(Asking(s1)) + queue["proposta"][s1]
                    + One(Ready(s1)) - Earned(s1)
    BY <1>6 DEF IInv, Addressed, Alone, TypeOK, Proposal, Status, Kinds, Session,
                Closed, Asking, Ready, Earned, Created, One
  <1> QED
    BY <1>1, <1>2, <1>3, <1>4, <1>5, <1>6, RequestStep

\* A cancellation starts with no account to keep.
LEMMA StartCancelStep ==
    ASSUME IInv, NEW w \in Workers, NEW s \in Sims, StartCancel(w, s)
    PROVE  IInv'
  <1> USE DEF StartCancel, Open, Cancellable
  <1>1. TypeOK'
    <2> USE DEF IInv, TypeOK, Addressed
    <2>1. prop' \in [Sims -> Proposal]
      BY DEF Proposal, Status
    <2>2. sess' \in [Workers -> Session]
      BY DEF Session, Closed, Kinds
    <2>3. sets' \in [Sims -> Nat] /\ void' \in [Sims -> Nat]
      BY DEF Session
    <2>4. queue' \in [Kinds -> [Sims -> Nat]]
      BY DEF Session, Kinds
    <2>5. used' \in [{"reRender", "carne", "rerun", "fault"} -> Nat]
      BY DEF Session, Kinds
    <2> QED
      BY <2>1, <2>2, <2>3, <2>4, <2>5
  <1>2. Addressed'
    BY ProposalAssumption DEF IInv, Addressed, TypeOK, Proposal, Status, Kinds, Session, Closed
  <1>3. /\ UNCHANGED job
        /\ overlapped' \in BOOLEAN
        /\ overlapped => overlapped'
    BY DEF IInv, TypeOK
  <1>4. ASSUME ~overlapped' PROVE Alone'
    BY <1>4 DEF IInv, Alone, TypeOK, Proposal, Status, Kinds, Session, Closed
  <1>5. ASSUME ~overlapped' PROVE Covering'
    BY <1>5 DEF IInv, Addressed, Alone, Covering, TypeOK, Proposal, Status, Kinds,
                Session, Closed
  <1>6. ASSUME ~overlapped', NEW s1 \in Sims
        PROVE  sets'[s1] + One(Asking(s1)') + queue'["proposta"][s1] + One(Ready(s1)')
               - Earned(s1)'
                 <= sets[s1] + One(Asking(s1)) + queue["proposta"][s1]
                    + One(Ready(s1)) - Earned(s1)
    BY <1>6 DEF IInv, Addressed, Alone, TypeOK, Proposal, Status, Kinds, Session,
                Closed, Asking, Ready, Earned, Created, One
  <1> QED
    BY <1>1, <1>2, <1>3, <1>4, <1>5, <1>6, RequestStep

\* The update reaches every schedule there is, and no approval is open.
LEMMA VoidParcelasStep ==
    ASSUME IInv, NEW w \in Workers, VoidParcelas(w)
    PROVE  IInv'
  <1> USE DEF VoidParcelas, Covered
  <1>1. TypeOK'
    <2> USE DEF IInv, TypeOK, Addressed
    <2>1. prop' \in [Sims -> Proposal]
      BY DEF Proposal, Status
    <2>2. sess' \in [Workers -> Session]
      <3>1. sess[w] \in Session /\ sets[sess[w].s] \in Nat
        OBVIOUS
      <3>2. [sess[w] EXCEPT !.pc = "cancel", !.covered = sets[sess[w].s]] \in Session
        BY <3>1 DEF Session
      <3> QED
        BY <3>1, <3>2
    <2>3. sets' \in [Sims -> Nat] /\ void' \in [Sims -> Nat]
      BY DEF Session
    <2>4. queue' \in [Kinds -> [Sims -> Nat]]
      BY DEF Session, Kinds
    <2>5. used' \in [{"reRender", "carne", "rerun", "fault"} -> Nat]
      BY DEF Session, Kinds
    <2> QED
      BY <2>1, <2>2, <2>3, <2>4, <2>5
  <1>2. Addressed'
    BY ProposalAssumption DEF IInv, Addressed, TypeOK, Proposal, Status, Kinds, Session, Closed
  <1>3. /\ UNCHANGED job
        /\ overlapped' \in BOOLEAN
        /\ overlapped => overlapped'
    BY DEF IInv, TypeOK
  <1>4. ASSUME ~overlapped' PROVE Alone'
    BY <1>4 DEF IInv, Alone, TypeOK, Proposal, Status, Kinds, Session, Closed
  <1>5. ASSUME ~overlapped' PROVE Covering'
    BY <1>5 DEF IInv, Addressed, Alone, Covering, TypeOK, Proposal, Status, Kinds,
                Session, Closed
  <1>6. ASSUME ~overlapped', NEW s1 \in Sims
        PROVE  sets'[s1] + One(Asking(s1)') + queue'["proposta"][s1] + One(Ready(s1)')
               - Earned(s1)'
                 <= sets[s1] + One(Asking(s1)) + queue["proposta"][s1]
                    + One(Ready(s1)) - Earned(s1)
    BY <1>6 DEF IInv, Addressed, Alone, TypeOK, Proposal, Status, Kinds, Session,
                Closed, Asking, Ready, Earned, Created, One
  <1> QED
    BY <1>1, <1>2, <1>3, <1>4, <1>5, <1>6, RequestStep

\* The schedules covered are still all there are.
LEMMA CommitCancelStep ==
    ASSUME IInv, NEW w \in Workers, CommitCancel(w)
    PROVE  IInv'
  <1> USE DEF CommitCancel, Close
  <1>1. TypeOK'
    <2> USE DEF IInv, TypeOK, Addressed
    <2>1. prop' \in [Sims -> Proposal]
      <3>1. sess[w].s \in Sims /\ prop[sess[w].s] \in Proposal
        OBVIOUS
      <3>2. [prop[sess[w].s] EXCEPT !.status = "cancelada"] \in Proposal
        BY <3>1 DEF Proposal, Status
      <3> QED
        BY <3>1, <3>2
    <2>2. sess' \in [Workers -> Session]
      BY DEF Session, Closed, Kinds
    <2>3. sets' \in [Sims -> Nat] /\ void' \in [Sims -> Nat]
      BY DEF Session
    <2>4. queue' \in [Kinds -> [Sims -> Nat]]
      BY DEF Session, Kinds
    <2>5. used' \in [{"reRender", "carne", "rerun", "fault"} -> Nat]
      BY DEF Session, Kinds
    <2> QED
      BY <2>1, <2>2, <2>3, <2>4, <2>5
  <1>2. Addressed'
    BY ProposalAssumption DEF IInv, Addressed, TypeOK, Proposal, Status, Kinds, Session, Closed
  <1>3. /\ UNCHANGED job
        /\ overlapped' \in BOOLEAN
        /\ overlapped => overlapped'
    BY DEF IInv, TypeOK
  <1>4. ASSUME ~overlapped' PROVE Alone'
    BY <1>4 DEF IInv, Alone, TypeOK, Proposal, Status, Kinds, Session, Closed
  <1>5. ASSUME ~overlapped' PROVE Covering'
    BY <1>5 DEF IInv, Addressed, Alone, Covering, TypeOK, Proposal, Status, Kinds,
                Session, Closed
  <1>6. ASSUME ~overlapped', NEW s1 \in Sims
        PROVE  sets'[s1] + One(Asking(s1)') + queue'["proposta"][s1] + One(Ready(s1)')
               - Earned(s1)'
                 <= sets[s1] + One(Asking(s1)) + queue["proposta"][s1]
                    + One(Ready(s1)) - Earned(s1)
    BY <1>6 DEF IInv, Addressed, Alone, TypeOK, Proposal, Status, Kinds, Session,
                Closed, Asking, Ready, Earned, Created, One
  <1> QED
    BY <1>1, <1>2, <1>3, <1>4, <1>5, <1>6, RequestStep

\* A re-render earns the credit that it asks with.
LEMMA ReRenderStep ==
    ASSUME IInv, NEW w \in Workers, NEW s \in Sims, ReRender(w, s)
    PROVE  IInv'
  <1> USE DEF ReRender, Open, Use, AskedAgain
  <1>1. TypeOK'
    <2> USE DEF IInv, TypeOK, Addressed
    <2>1. prop' \in [Sims -> Proposal]
      BY DEF Proposal, Status
    <2>2. sess' \in [Workers -> Session]
      BY DEF Session, Closed, Kinds
    <2>3. sets' \in [Sims -> Nat] /\ void' \in [Sims -> Nat]
      BY DEF Session
    <2>4. queue' \in [Kinds -> [Sims -> Nat]]
      BY DEF Session, Kinds
    <2>5. used' \in [{"reRender", "carne", "rerun", "fault"} -> Nat]
      BY DEF Session, Kinds
    <2> QED
      BY <2>1, <2>2, <2>3, <2>4, <2>5
  <1>2. Addressed'
    BY ProposalAssumption DEF IInv, Addressed, TypeOK, Proposal, Status, Kinds, Session, Closed
  <1>3. /\ UNCHANGED job
        /\ overlapped' \in BOOLEAN
        /\ overlapped => overlapped'
    BY DEF IInv, TypeOK
  <1>4. ASSUME ~overlapped' PROVE Alone'
    BY <1>4 DEF IInv, Alone, TypeOK, Proposal, Status, Kinds, Session, Closed
  <1>5. ASSUME ~overlapped' PROVE Covering'
    BY <1>5 DEF IInv, Addressed, Alone, Covering, TypeOK, Proposal, Status, Kinds,
                Session, Closed
  <1>6. ASSUME ~overlapped', NEW s1 \in Sims
        PROVE  sets'[s1] + One(Asking(s1)') + queue'["proposta"][s1] + One(Ready(s1)')
               - Earned(s1)'
                 <= sets[s1] + One(Asking(s1)) + queue["proposta"][s1]
                    + One(Ready(s1)) - Earned(s1)
    BY <1>6 DEF IInv, Addressed, Alone, TypeOK, Proposal, Status, Kinds, Session,
                Closed, Asking, Ready, Earned, Created, One
  <1> QED
    BY <1>1, <1>2, <1>3, <1>4, <1>5, <1>6, RequestStep

\* A carne is no credit.
LEMMA AskCarneStep ==
    ASSUME IInv, NEW w \in Workers, NEW s \in Sims, AskCarne(w, s)
    PROVE  IInv'
  <1> USE DEF AskCarne, Open, Use
  <1>1. TypeOK'
    <2> USE DEF IInv, TypeOK, Addressed
    <2>1. prop' \in [Sims -> Proposal]
      BY DEF Proposal, Status
    <2>2. sess' \in [Workers -> Session]
      BY DEF Session, Closed, Kinds
    <2>3. sets' \in [Sims -> Nat] /\ void' \in [Sims -> Nat]
      BY DEF Session
    <2>4. queue' \in [Kinds -> [Sims -> Nat]]
      BY DEF Session, Kinds
    <2>5. used' \in [{"reRender", "carne", "rerun", "fault"} -> Nat]
      BY DEF Session, Kinds
    <2> QED
      BY <2>1, <2>2, <2>3, <2>4, <2>5
  <1>2. Addressed'
    BY ProposalAssumption DEF IInv, Addressed, TypeOK, Proposal, Status, Kinds, Session, Closed
  <1>3. /\ UNCHANGED job
        /\ overlapped' \in BOOLEAN
        /\ overlapped => overlapped'
    BY DEF IInv, TypeOK
  <1>4. ASSUME ~overlapped' PROVE Alone'
    BY <1>4 DEF IInv, Alone, TypeOK, Proposal, Status, Kinds, Session, Closed
  <1>5. ASSUME ~overlapped' PROVE Covering'
    BY <1>5 DEF IInv, Addressed, Alone, Covering, TypeOK, Proposal, Status, Kinds,
                Session, Closed
  <1>6. ASSUME ~overlapped', NEW s1 \in Sims
        PROVE  sets'[s1] + One(Asking(s1)') + queue'["proposta"][s1] + One(Ready(s1)')
               - Earned(s1)'
                 <= sets[s1] + One(Asking(s1)) + queue["proposta"][s1]
                    + One(Ready(s1)) - Earned(s1)
    BY <1>6 DEF IInv, Addressed, Alone, TypeOK, Proposal, Status, Kinds, Session,
                Closed, Asking, Ready, Earned, Created, One
  <1> QED
    BY <1>1, <1>2, <1>3, <1>4, <1>5, <1>6, RequestStep

\* A credit that is lost with its request is not spent.
LEMMA LoseRequestStep ==
    ASSUME IInv, NEW w \in Workers, LoseRequest(w)
    PROVE  IInv'
  BY ClosedStep DEF LoseRequest

-----------------------------------------------------------------------------
(* The jobs *)

\* What a step of a runner needs to keep the account: it inserts and covers no
\* schedule, cancels nothing, and what a proposal has underway grows by no more
\* than it earns.
LEMMA RunnerStep ==
    ASSUME IInv, TypeOK', FewJobs', UNCHANGED <<sets, void, sess, overlapped>>,
           \A s \in Sims : 
              prop'[s].status = "cancelada" => prop[s].status = "cancelada",
           \A s \in Sims : Underway(s)' - Earned(s)' <= Underway(s) - Earned(s)
    PROVE  IInv'
  <1>1. Addressed' /\ (Alone => Alone')
    BY DEF IInv, Addressed, Alone
  <1>2. Covering => Covering'
    BY DEF Covering
  <1>3. ASSUME Balanced PROVE Balanced'
    <2> SUFFICES ASSUME NEW s \in Sims
                 PROVE  sets[s] + Underway(s)' <= Earned(s)'
      BY DEF Balanced
    <2>1. Earned(s) \in Nat /\ Earned(s)' \in Nat /\ sets[s] \in Nat
      BY DEF IInv, TypeOK, Earned, One
    <2>2. Underway(s) \in Nat
      <3>1. Cardinality(Rendering(s)) \in Nat
        BY FS_CardinalityType DEF IInv, FewJobs
      <3> QED
        BY <3>1 DEF IInv, TypeOK, Kinds, Underway, One
    <2>3. Underway(s)' \in Nat
      <3>1. Cardinality(Rendering(s)') \in Nat
        BY FS_CardinalityType DEF FewJobs
      <3>2. queue'["proposta"][s] \in Nat
        BY DEF TypeOK, Kinds
      <3> QED
        BY <3>1, <3>2 DEF Underway, One
    <2>4. sets[s] + Underway(s) <= Earned(s)
      BY <1>3 DEF Balanced
    <2> HIDE DEF Underway, Earned
    <2> QED
      BY <2>1, <2>2, <2>3, <2>4
  <1> QED
    BY <1>1, <1>2, <1>3 DEF IInv

\* A runner takes a job from the queue: the credit goes with it.
LEMMA TakeJobStep ==
    ASSUME IInv, NEW r \in Runners, NEW k \in Kinds, NEW s \in Sims, TakeJob(r, k, s)
    PROVE  IInv'
  <1> DEFINE j == [s |-> s, kind |-> k, status |-> prop[s].status]
  <1>1. /\ prop \in [Sims -> Proposal] /\ queue \in [Kinds -> [Sims -> Nat]]
        /\ job \in [Runners -> Job]
        /\ job[r] = NoJob
        /\ queue[k][s] > 0 /\ queue' = [queue EXCEPT ![k][s] = @ - 1]
        /\ prop' = IF k = "proposta" THEN [prop EXCEPT ![s].render = "rendering"] ELSE prop
        /\ job' = [job EXCEPT ![r] = j]
        /\ UNCHANGED <<sets, void, sess, used, overlapped>>
    BY DEF TakeJob, IInv, TypeOK
  <1>2. j \in Job
    BY <1>1 DEF Job, Proposal
  <1>3. j.s = s /\ j.kind = k /\ job[r].s \notin Sims
    BY <1>1, ProposalAssumption DEF NoJob
  <1> HIDE DEF j
  <1>4. prop' \in [Sims -> Proposal] /\ \A x \in Sims : prop'[x].status = prop[x].status
    BY <1>1 DEF Proposal
  <1>5. queue' \in [Kinds -> [Sims -> Nat]]
    BY <1>1 DEF Kinds
  <1>6. TypeOK'
    BY <1>1, <1>2, <1>4, <1>5 DEF IInv, TypeOK
  <1>7. ASSUME NEW x \in Sims
        PROVE  /\ IsFiniteSet(Rendering(x)')
               /\ Underway(x)' - Earned(x)' <= Underway(x) - Earned(x)
    <2>1. /\ IsFiniteSet(Rendering(x)')
          /\ Cardinality(Rendering(x)) \in Nat
          /\ Cardinality(Rendering(x)') =
               Cardinality(Rendering(x)) + (IF s = x /\ k = "proposta" THEN 1 ELSE 0)
      <3>1. IsFiniteSet(Rendering(x))
        BY DEF IInv, FewJobs
      <3>2. /\ job \in [Runners -> Job] /\ r \in Runners /\ j \in Job /\ x \in Sims
            /\ job' = [job EXCEPT ![r] = j]
        BY <1>1, <1>2
      <3>3. /\ IsFiniteSet(Rendering(x)')
            /\ Cardinality(Rendering(x)) \in Nat
            /\ Cardinality(Rendering(x)') \in Nat
            /\ Cardinality(Rendering(x)') =
                 Cardinality(Rendering(x))
                 - (IF job[r].s = x /\ job[r].kind = "proposta" THEN 1 ELSE 0)
                 + (IF j.s = x /\ j.kind = "proposta" THEN 1 ELSE 0)
        BY ONLY <3>1, <3>2, JobCount
      <3> HIDE DEF Rendering
      <3> QED
        BY <1>3, <3>3
    <2>2. /\ Asking(x)' <=> Asking(x)
          /\ Ready(x)' <=> Ready(x)
          /\ Created(x)' <=> Created(x)
      BY <1>1, <1>4 DEF Asking, Ready, Created
    <2>3. /\ queue["proposta"][x] \in Nat
          /\ queue'["proposta"][x] =
               queue["proposta"][x] - (IF s = x /\ k = "proposta" THEN 1 ELSE 0)
      BY <1>1 DEF Kinds
    <2>4. used["reRender"] \in Nat /\ used["rerun"] \in Nat
      BY DEF IInv, TypeOK
    <2> HIDE DEF Asking, Ready, Created, Rendering
    <2> QED
      BY <1>1, <2>1, <2>2, <2>3, <2>4 DEF Underway, Earned, One
  <1>8. FewJobs'
    BY <1>7 DEF FewJobs
  <1> QED
    BY <1>1, <1>4, <1>6, <1>7, <1>8, RunnerStep

\* A job ends, with or without its PDF.  The credit becomes the status pronta,
\* is lost, or goes back to the queue with the credit that a rerun earns.
LEMMA EndedStep ==
    ASSUME IInv, NEW r \in Runners, job[r].s # None, Done(r),
           UNCHANGED <<sets, void, sess, overlapped>>,
           prop' \in [Sims -> Proposal],
           \A s \in Sims \ {job[r].s} : prop'[s] = prop[s],
           \/ prop'[job[r].s].status = prop[job[r].s].status
           \/ job[r].kind = "proposta" /\ prop'[job[r].s].status = "pronta",
           \/ queue' = queue /\ (used' = used \/ Use("fault", MaxFaults))
           \/ /\ queue' = [queue EXCEPT ![job[r].kind][job[r].s] = @ + 1]
              /\ Use("rerun", MaxReruns)
    PROVE  IInv'
  <1> DEFINE s == job[r].s
             k == job[r].kind
             j == NoJob
  <1>1. /\ prop \in [Sims -> Proposal] /\ queue \in [Kinds -> [Sims -> Nat]]
        /\ job \in [Runners -> Job]
        /\ used \in [{"reRender", "carne", "rerun", "fault"} -> Nat]
        /\ s \in Sims /\ k \in Kinds
    BY DEF IInv, TypeOK, Job
  <1>2. /\ j \in Job /\ j.s \notin Sims
        /\ job' = [job EXCEPT ![r] = j]
    BY ProposalAssumption DEF NoJob, Job, Kinds, Status, Done
  <1> HIDE DEF s, k, j
  <1>3. queue' \in [Kinds -> [Sims -> Nat]]
    BY <1>1 DEF s, k
  <1>4. used' \in [{"reRender", "carne", "rerun", "fault"} -> Nat]
    BY <1>1 DEF Use
  <1>5. TypeOK'
    BY <1>1, <1>2, <1>3, <1>4 DEF IInv, TypeOK
  <1>6. ASSUME NEW x \in Sims
        PROVE  /\ IsFiniteSet(Rendering(x)')
               /\ Underway(x)' - Earned(x)' <= Underway(x) - Earned(x)
    <2>1. /\ IsFiniteSet(Rendering(x)')
          /\ Cardinality(Rendering(x)) \in Nat
          /\ Cardinality(Rendering(x)') \in Nat
          /\ Cardinality(Rendering(x)') =
               Cardinality(Rendering(x)) - (IF s = x /\ k = "proposta" THEN 1 ELSE 0)
      <3>1. IsFiniteSet(Rendering(x))
        BY DEF IInv, FewJobs
      <3>2. /\ job \in [Runners -> Job] /\ r \in Runners /\ j \in Job /\ x \in Sims
            /\ job' = [job EXCEPT ![r] = j]
        BY <1>1, <1>2
      <3>3. /\ IsFiniteSet(Rendering(x)')
            /\ Cardinality(Rendering(x)) \in Nat
            /\ Cardinality(Rendering(x)') \in Nat
            /\ Cardinality(Rendering(x)') =
                 Cardinality(Rendering(x))
                 - (IF job[r].s = x /\ job[r].kind = "proposta" THEN 1 ELSE 0)
                 + (IF j.s = x /\ j.kind = "proposta" THEN 1 ELSE 0)
        BY ONLY <3>1, <3>2, JobCount
      <3> HIDE DEF Rendering
      <3> QED
        BY <1>1, <1>2, <3>3 DEF s, k
    <2>2. Asking(x)' <=> Asking(x)
      BY DEF Asking
    <2>3. /\ s # x \/ k # "proposta" => (Ready(x)' <=> Ready(x))
          /\ Created(x) => Created(x)'
          /\ Created(x)' \in BOOLEAN /\ Created(x) \in BOOLEAN
      BY <1>1 DEF Ready, Created, s, k
    <2>4. /\ queue["proposta"][x] \in Nat /\ used["reRender"] \in Nat /\ used["rerun"] \in Nat
          /\ used'["reRender"] = used["reRender"]
          /\ \/ /\ queue'["proposta"][x] = queue["proposta"][x]
                /\ used'["rerun"] = used["rerun"]
             \/ /\ used'["rerun"] = used["rerun"] + 1
                /\ queue'["proposta"][x] =
                     queue["proposta"][x] + (IF s = x /\ k = "proposta" THEN 1 ELSE 0)
      BY <1>1 DEF Kinds, Use, s, k
    <2> HIDE DEF Asking, Ready, Created, Rendering
    <2> QED
      BY <2>1, <2>2, <2>3, <2>4 DEF Underway, Earned, One
  <1>7. FewJobs'
    BY <1>6 DEF FewJobs
  <1>8. \A x \in Sims : prop'[x].status = "cancelada" => prop[x].status = "cancelada"
    BY DEF s
  <1> QED
    BY <1>5, <1>6, <1>7, <1>8, RunnerStep

\* What a job writes keeps the row a proposal, and its status or makes it
\* pronta.
LEMMA WhatJobsWrite ==
    ASSUME IInv, NEW r \in Runners, job[r].s # None,
           LET s == job[r].s IN
           \/ prop' = prop
           \/ /\ job[r].kind = "proposta"
              /\ \/ prop' = [prop EXCEPT ![s] = Rendered(@, job[r].status)]
                 \/ prop' = [prop EXCEPT ![s].render = "failed"]
           \/ prop' = [prop EXCEPT ![s].carne = TRUE]
    PROVE  LET s == job[r].s IN
           /\ prop' \in [Sims -> Proposal]
           /\ \A x \in Sims \ {s} : prop'[x] = prop[x]
           /\ \/ prop'[s].status = prop[s].status
              \/ job[r].kind = "proposta" /\ prop'[s].status = "pronta"
  <1>1. job[r].s \in Sims /\ prop \in [Sims -> Proposal]
    BY DEF IInv, TypeOK, Job
  <1>2. prop[job[r].s] \in Proposal
    BY <1>1
  <1>3. /\ Rendered(prop[job[r].s], job[r].status) \in Proposal
        /\ Rendered(prop[job[r].s], job[r].status).status
             \in {prop[job[r].s].status, "pronta"}
    BY <1>2 DEF Rendered, Proposal, Status
  <1>4. /\ [prop[job[r].s] EXCEPT !.carne = TRUE] \in Proposal
        /\ [prop[job[r].s] EXCEPT !.carne = TRUE].status = prop[job[r].s].status
        /\ [prop[job[r].s] EXCEPT !.render = "failed"] \in Proposal
        /\ [prop[job[r].s] EXCEPT !.render = "failed"].status = prop[job[r].s].status
    BY <1>2 DEF Proposal
  <1> QED
    BY <1>1, <1>3, <1>4

-----------------------------------------------------------------------------
(* The theorems *)

LEMMA Stuttering == IInv /\ UNCHANGED vars => IInv'
  <1> SUFFICES ASSUME IInv, UNCHANGED vars
               PROVE  IInv'
    OBVIOUS
  <1>1. TypeOK' /\ Addressed' /\ (Alone => Alone') /\ (Covering => Covering')
    BY DEF vars, IInv, TypeOK, Addressed, Alone, Covering
  <1>2. /\ UNCHANGED overlapped
        /\ \A s : Rendering(s)' = Rendering(s)
        /\ \A s : Earned(s)' = Earned(s) /\ Underway(s)' = Underway(s)
    BY DEF vars, Rendering, Earned, Created, Underway, Asking, Ready
  <1> QED
    BY <1>1, <1>2 DEF vars, IInv, FewJobs, Balanced

LEMMA Inductive == IInv /\ [Next]_vars => IInv'
  <1> SUFFICES ASSUME IInv, [Next]_vars
               PROVE  IInv'
    OBVIOUS
  <1>1. ASSUME NEW w \in Workers, NEW s \in Sims,
               \/ StartCreate(w, s) \/ StartApprove(w, s) \/ StartCancel(w, s)
               \/ ReRender(w, s) \/ AskCarne(w, s)
        PROVE  IInv'
    BY <1>1, StartCreateStep, StartApproveStep, StartCancelStep, ReRenderStep, AskCarneStep
  <1>2. ASSUME NEW w \in Workers,
               \/ CommitCreate(w) \/ EnqueueJob(w) \/ CommitApprove(w)
               \/ VoidParcelas(w) \/ CommitCancel(w) \/ LoseRequest(w)
        PROVE  IInv'
    BY <1>2, CommitCreateStep, EnqueueJobStep, CommitApproveStep, VoidParcelasStep,
       CommitCancelStep, LoseRequestStep
  <1>3. ASSUME NEW r \in Runners, NEW k \in Kinds, NEW s \in Sims, TakeJob(r, k, s)
        PROVE  IInv'
    BY <1>3, TakeJobStep
  <1>4. ASSUME NEW r \in Runners, FinishRender(r)
        PROVE  IInv'
    <2> HIDE DEF Rendered
    <2> QED
      BY <1>4, WhatJobsWrite, EndedStep DEF FinishRender, IInv, TypeOK
  <1>5. ASSUME NEW r \in Runners, FinishCarne(r)
        PROVE  IInv'
    BY <1>5, WhatJobsWrite, EndedStep DEF FinishCarne, IInv, TypeOK
  <1>6. ASSUME NEW r \in Runners, FailJob(r)
        PROVE  IInv'
    BY <1>6, WhatJobsWrite, EndedStep DEF FailJob, IInv, TypeOK
  <1>7. ASSUME NEW r \in Runners, TimeOutJob(r)
        PROVE  IInv'
    BY <1>7, WhatJobsWrite, EndedStep DEF TimeOutJob, IInv, TypeOK
  <1>8. ASSUME NEW r \in Runners, Rerun(r)
        PROVE  IInv'
    BY <1>8, WhatJobsWrite, EndedStep DEF Rerun, IInv, TypeOK
  <1> QED
    BY <1>1, <1>2, <1>3, <1>4, <1>5, <1>6, <1>7, <1>8, Stuttering DEF Next

LEMMA Invariance == Spec => []IInv
  BY Initially, Inductive, PTL DEF Spec

\* Every column of the model holds what its type says.
THEOREM TypeCorrect == Spec => []TypeOK
  <1>1. IInv => TypeOK
    BY DEF IInv
  <1> QED
    BY <1>1, Invariance, PTL

\* A cancelled proposal has no instalment left to collect, however often it was
\* rendered and approved before, while no two requests overlapped.
THEOREM CancellingEndsCollection == Spec => []CancelledHasNoInstalments
  <1>1. IInv => CancelledHasNoInstalments
    BY DEF IInv, Covering, CancelledHasNoInstalments
  <1> QED
    BY <1>1, Invariance, PTL

\* A proposal has no more schedules than renders it was asked for, the first one
\* and each that was repeated, while no two requests overlapped.
THEOREM ApprovalsFollowRenders == Spec => []SchedulesFollowRenders
  <1>1. ASSUME IInv, ~overlapped, NEW s \in Sims
        PROVE  sets[s] <= 1 + used["reRender"] + used["rerun"]
    <2>1. /\ sets[s] \in Nat /\ queue["proposta"][s] \in Nat
          /\ used["reRender"] \in Nat /\ used["rerun"] \in Nat
      BY <1>1 DEF IInv, TypeOK, Kinds
    <2>2. Cardinality(Rendering(s)) \in Nat
      BY <1>1, FS_CardinalityType DEF IInv, FewJobs
    <2>3. sets[s] + Underway(s) <= Earned(s)
      BY <1>1 DEF IInv, Balanced
    <2> QED
      BY <2>1, <2>2, <2>3 DEF Underway, Earned, One
  <1>2. IInv => SchedulesFollowRenders
    BY <1>1 DEF SchedulesFollowRenders, IInv, TypeOK
  <1> QED
    BY <1>2, Invariance, PTL
=============================================================================
