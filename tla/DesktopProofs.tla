---------------------------- MODULE DesktopProofs ----------------------------
(***************************************************************************)
(* What a failure or the end of the process between two commits of the     *)
(* desktop application cannot do, for any number of vehicles, simulations, *)
(* proposals and faults; and what the lock after wrong PINs keeps, for any *)
(* users, attempts and window.                                             *)
(*                                                                         *)
(* The first two invariants rest on the page: the only way to a proposal   *)
(* is through page.sim, the only way to a booklet through page.proposal,   *)
(* and the page takes neither before the handler's last commit.            *)
(***************************************************************************)
EXTENDS Desktop, TLAPS, FiniteSetTheorems

Simulation == [veiculo: Nat, cliente: BOOLEAN, rows: BOOLEAN]
Proposal == [sim: Nat, pdf: BOOLEAN, carne: BOOLEAN]

Typed ==
    /\ vehicles \in Seq(Vehicle)
    /\ sims \in Seq(Simulation)
    /\ proposals \in Seq(Proposal)
    /\ page \in [vehicle: Nat, sim: Nat, proposal: Nat]
    /\ busy \in [what: {"nothing", "rows", "pdf"}, of: Nat]

\* A simulation that is built on has its rows; the one that run_and_save is
\* about has not.
SimsHold ==
    /\ paid \subseteq DOMAIN sims
    /\ \A p \in DOMAIN proposals : proposals[p].sim \in DOMAIN sims
    /\ HalfSavedIsInert
    /\ page.sim # 0 => page.sim \in DOMAIN sims /\ sims[page.sim].rows
    /\ busy.what = "rows" => busy.of \in DOMAIN sims /\ ~sims[busy.of].rows

\* The proposal that the page has has its PDF; the one that is rendered has
\* not.
ProposalsHold ==
    /\ BookletsFollowPdf
    /\ page.proposal # 0 => /\ page.proposal \in DOMAIN proposals
                            /\ proposals[page.proposal].pdf
    /\ busy.what = "pdf" => /\ busy.of \in DOMAIN proposals
                            /\ ~proposals[busy.of].pdf

IInv == Typed /\ SimsHold /\ ProposalsHold

-----------------------------------------------------------------------------
(* Sequences *)

\* What Append does to a sequence.
LEMMA Appended ==
    ASSUME NEW S, NEW s \in Seq(S), NEW x \in S
    PROVE  /\ Append(s, x) \in Seq(S)
           /\ DOMAIN s = 1..Len(s)
           /\ DOMAIN Append(s, x) = 1..(Len(s) + 1)
           /\ Len(s) \in Nat
           /\ \A i \in DOMAIN s : Append(s, x)[i] = s[i]
           /\ Append(s, x)[Len(s) + 1] = x
  OBVIOUS

\* A sequence stays one when a member of it is replaced.
LEMMA Replaced ==
    ASSUME NEW S, NEW s \in Seq(S), NEW i \in DOMAIN s, NEW x \in S
    PROVE  /\ [s EXCEPT ![i] = x] \in Seq(S)
           /\ DOMAIN [s EXCEPT ![i] = x] = DOMAIN s
  OBVIOUS

-----------------------------------------------------------------------------
(* The steps *)

LEMMA Initially == Init => IInv
  BY DEF Init, LotInit, IInv, Typed, SimsHold, ProposalsHold, HalfSavedIsInert,
         BookletsFollowPdf, Blank, Idle

\* A step that changes no simulation, proposal or payment and starts no
\* handler, and after which the page has what it had or less.
PageForgets ==
    /\ UNCHANGED <<sims, proposals, paid>>
    /\ page' \in [vehicle: Nat, sim: Nat, proposal: Nat]
    /\ page'.sim \in {0, page.sim} /\ page'.proposal \in {0, page.proposal}
    /\ busy' \in {busy, Idle}
    /\ vehicles' \in Seq(Vehicle)

LEMMA Forgetting ==
    ASSUME IInv, PageForgets
    PROVE  IInv'
  <1>1. Typed'
    BY DEF IInv, Typed, PageForgets, Idle
  <1>2. SimsHold'
    BY DEF IInv, SimsHold, HalfSavedIsInert, PageForgets, Idle
  <1>3. ProposalsHold'
    BY DEF IInv, ProposalsHold, BookletsFollowPdf, PageForgets, Idle
  <1> QED
    BY <1>1, <1>2, <1>3 DEF IInv

LEMMA SimulateStep ==
    ASSUME IInv, Simulate
    PROVE  IInv'
  <1> DEFINE makeUp == page.vehicle = 0
             id == IF makeUp THEN Len(vehicles) + 1 ELSE page.vehicle
  <1>1. PICK cliente \in BOOLEAN :
          sims' = Append(sims, [veiculo |-> id, cliente |-> cliente, rows |-> FALSE])
    BY DEF Simulate
  <1> DEFINE new == [veiculo |-> id, cliente |-> cliente, rows |-> FALSE]
  <1>2. /\ busy' = [what |-> "rows", of |-> Len(sims) + 1]
        /\ page' = page
        /\ UNCHANGED <<proposals, paid>>
        /\ busy = Idle
    BY DEF Simulate, Shown, Ready
  <1>3. vehicles' \in Seq(Vehicle) /\ id \in Nat
    <2>1. [fonte |-> "manual", placa |-> NoPlate, status |-> "disponivel"] \in Vehicle
      BY DEF Vehicle, Status
    <2>2. Added("manual", NoPlate) \in Seq(Vehicle)
      BY <2>1 DEF Added, IInv, Typed
    <2> QED
      BY <2>2 DEF Simulate, IInv, Typed
  <1>4. new \in Simulation
    BY <1>3 DEF Simulation
  <1>5. /\ sims' \in Seq(Simulation)
        /\ DOMAIN sims = 1..Len(sims) /\ Len(sims) \in Nat
        /\ DOMAIN sims' = 1..(Len(sims) + 1)
        /\ \A s \in DOMAIN sims : sims'[s] = sims[s]
        /\ sims'[Len(sims) + 1] = new
    <2> HIDE DEF new
    <2>1. sims \in Seq(Simulation)
      BY DEF IInv, Typed
    <2> QED
      BY <1>1, <1>4, <2>1, Appended DEF new
  <1>6. new.rows = FALSE
    OBVIOUS
  <1> HIDE DEF new, id
  <1>7. Typed'
    BY <1>2, <1>3, <1>5 DEF IInv, Typed
  <1>8. SimsHold'
    <2>1. /\ Len(sims) + 1 \in DOMAIN sims' /\ Len(sims) + 1 \notin DOMAIN sims
          /\ \A s \in DOMAIN sims' : s \in DOMAIN sims \/ s = Len(sims) + 1
          /\ DOMAIN sims \subseteq DOMAIN sims'
      BY <1>5
    <2>2. HalfSavedIsInert'
      BY <1>2, <1>5, <2>1 DEF IInv, SimsHold, HalfSavedIsInert
    <2> QED
      BY <1>2, <1>5, <1>6, <2>1, <2>2 DEF IInv, SimsHold
  <1>9. ProposalsHold'
    BY <1>2 DEF IInv, ProposalsHold, BookletsFollowPdf
  <1> QED
    BY <1>7, <1>8, <1>9 DEF IInv

\* The end of run_and_save, whatever of the rows was saved.
LEMMA RowsCommit ==
    ASSUME IInv, busy.what = "rows", busy' = Idle,
           NEW saved \in BOOLEAN, sims' = [sims EXCEPT ![busy.of].rows = saved],
           \/ page' = page
           \/ saved /\ page' = [page EXCEPT !.sim = busy.of],
           UNCHANGED <<vehicles, proposals, paid>>
    PROVE  IInv'
  <1> DEFINE new == [sims[busy.of] EXCEPT !.rows = saved]
  <1>1. busy.of \in DOMAIN sims /\ sims \in Seq(Simulation) /\ ~sims[busy.of].rows
    BY DEF IInv, Typed, SimsHold
  <1>2. sims[busy.of] \in Simulation
    BY <1>1
  <1>3. new \in Simulation /\ new.rows = saved /\ sims' = [sims EXCEPT ![busy.of] = new]
    BY <1>2 DEF Simulation
  <1> HIDE DEF new
  <1>4. /\ sims' \in Seq(Simulation) /\ DOMAIN sims' = DOMAIN sims
        /\ sims'[busy.of] = new
        /\ \A s \in DOMAIN sims \ {busy.of} : sims'[s] = sims[s]
        /\ DOMAIN sims \subseteq Nat
    BY <1>1, <1>3, Replaced
  <1>5. Typed'
    BY <1>1, <1>4 DEF IInv, Typed, Idle
  <1>6. SimsHold'
    <2>1. HalfSavedIsInert'
      BY <1>1, <1>4 DEF IInv, SimsHold, HalfSavedIsInert
    <2>2. (page.sim # 0 => page.sim # busy.of)
      BY <1>1 DEF IInv, SimsHold
    <2>3. (page.sim # 0 => page.sim \in DOMAIN sims /\ sims[page.sim].rows)'
      BY <1>1, <1>3, <1>4, <2>2 DEF IInv, SimsHold, Typed
    <2> QED
      BY <1>4, <2>1, <2>3 DEF IInv, SimsHold, Idle
  <1>7. ProposalsHold'
    BY DEF IInv, Typed, ProposalsHold, BookletsFollowPdf, Idle
  <1> QED
    BY <1>5, <1>6, <1>7 DEF IInv

\* The new proposal is of the simulation that the page shows.
LEMMA ProposeStep ==
    ASSUME IInv, Propose
    PROVE  IInv'
  <1> DEFINE new == [sim |-> page.sim, pdf |-> FALSE, carne |-> FALSE]
  <1>1. /\ page.sim \in DOMAIN sims /\ sims[page.sim].rows
        /\ proposals \in Seq(Proposal) /\ new \in Proposal
        /\ proposals' = Append(proposals, new)
        /\ busy' = [what |-> "pdf", of |-> Len(proposals) + 1]
        /\ UNCHANGED <<vehicles, sims, paid, page>>
    BY DEF Propose, IInv, Typed, SimsHold, Proposal, lotVars
  <1>2. new.sim = page.sim /\ new.pdf = FALSE /\ new.carne = FALSE
    OBVIOUS
  <1> HIDE DEF new
  <1>3. /\ proposals' \in Seq(Proposal)
        /\ DOMAIN proposals = 1..Len(proposals) /\ Len(proposals) \in Nat
        /\ DOMAIN proposals' = 1..(Len(proposals) + 1)
        /\ \A p \in DOMAIN proposals : proposals'[p] = proposals[p]
        /\ proposals'[Len(proposals) + 1] = new
    BY <1>1, Appended
  <1>4. /\ Len(proposals) + 1 \in DOMAIN proposals'
        /\ \A p \in DOMAIN proposals' :
              p \in DOMAIN proposals \/ p = Len(proposals) + 1
        /\ DOMAIN proposals \subseteq DOMAIN proposals'
    BY <1>3
  <1>5. Typed'
    BY <1>1, <1>3 DEF IInv, Typed
  <1>6. SimsHold'
    <2>1. HalfSavedIsInert'
      BY <1>1, <1>2, <1>3, <1>4 DEF IInv, SimsHold, HalfSavedIsInert
    <2> QED
      BY <1>1, <1>2, <1>3, <1>4, <2>1 DEF IInv, SimsHold
  <1>7. ProposalsHold'
    BY <1>1, <1>2, <1>3, <1>4 DEF IInv, ProposalsHold, BookletsFollowPdf
  <1> QED
    BY <1>5, <1>6, <1>7 DEF IInv

\* The end of gerar_pdf, whether the path was saved or not.
LEMMA PdfCommit ==
    ASSUME IInv, busy.what = "pdf", busy' = Idle,
           NEW saved \in BOOLEAN,
           proposals' = [proposals EXCEPT ![busy.of].pdf = saved],
           \/ page' = page
           \/ saved /\ page' = [page EXCEPT !.proposal = busy.of],
           UNCHANGED <<vehicles, sims, paid>>
    PROVE  IInv'
  <1> DEFINE new == [proposals[busy.of] EXCEPT !.pdf = saved]
  <1>1. /\ busy.of \in DOMAIN proposals /\ proposals \in Seq(Proposal)
        /\ ~proposals[busy.of].pdf /\ ~proposals[busy.of].carne
    BY DEF IInv, Typed, ProposalsHold, BookletsFollowPdf
  <1>2. proposals[busy.of] \in Proposal
    BY <1>1
  <1>3. /\ new \in Proposal /\ new.pdf = saved
        /\ new.sim = proposals[busy.of].sim /\ new.carne = proposals[busy.of].carne
        /\ proposals' = [proposals EXCEPT ![busy.of] = new]
    BY <1>2 DEF Proposal
  <1> HIDE DEF new
  <1>4. /\ proposals' \in Seq(Proposal) /\ DOMAIN proposals' = DOMAIN proposals
        /\ proposals'[busy.of] = new
        /\ \A p \in DOMAIN proposals \ {busy.of} : proposals'[p] = proposals[p]
        /\ DOMAIN proposals \subseteq Nat
    BY <1>1, <1>3, Replaced
  <1>5. Typed'
    BY <1>1, <1>4 DEF IInv, Typed, Idle
  <1>6. SimsHold'
    <2>1. \A p \in DOMAIN proposals : proposals'[p].sim = proposals[p].sim
      BY <1>3, <1>4
    <2>2. HalfSavedIsInert'
      BY <1>4, <2>1 DEF IInv, SimsHold, HalfSavedIsInert
    <2> QED
      BY <1>4, <2>1, <2>2 DEF IInv, Typed, SimsHold, Idle
  <1>7. ProposalsHold'
    <2>1. BookletsFollowPdf'
      BY <1>1, <1>3, <1>4 DEF IInv, ProposalsHold, BookletsFollowPdf
    <2>2. (page.proposal # 0 => /\ page.proposal \in DOMAIN proposals
                                /\ proposals[page.proposal].pdf)'
      BY <1>1, <1>3, <1>4 DEF IInv, Typed, ProposalsHold
    <2> QED
      BY <2>1, <2>2 DEF ProposalsHold, Idle
  <1> QED
    BY <1>5, <1>6, <1>7 DEF IInv

\* A booklet is of the proposal that the page has.
LEMMA CarneStep ==
    ASSUME IInv, Carne
    PROVE  IInv'
  <1> DEFINE n == page.proposal
             new == [proposals[n] EXCEPT !.carne = TRUE]
  <1>1. /\ n \in DOMAIN proposals /\ proposals \in Seq(Proposal)
        /\ proposals[n].pdf
        /\ UNCHANGED <<vehicles, sims, paid, page, busy>>
        /\ busy = Idle
        /\ proposals' = [proposals EXCEPT ![n].carne = TRUE]
    BY DEF Carne, Ready, IInv, Typed, ProposalsHold, lotVars
  <1>2. proposals[n] \in Proposal
    BY <1>1
  <1>3. /\ new \in Proposal /\ new.pdf
        /\ new.sim = proposals[n].sim
        /\ proposals' = [proposals EXCEPT ![n] = new]
    BY <1>1, <1>2 DEF Proposal
  <1> HIDE DEF new
  <1>4. /\ proposals' \in Seq(Proposal) /\ DOMAIN proposals' = DOMAIN proposals
        /\ proposals'[n] = new
        /\ \A p \in DOMAIN proposals \ {n} : proposals'[p] = proposals[p]
    BY <1>1, <1>3, Replaced
  <1>5. Typed'
    BY <1>1, <1>4 DEF IInv, Typed
  <1>6. SimsHold'
    <2>1. \A p \in DOMAIN proposals : proposals'[p].sim = proposals[p].sim
      BY <1>3, <1>4
    <2>2. HalfSavedIsInert'
      BY <1>1, <1>4, <2>1 DEF IInv, SimsHold, HalfSavedIsInert
    <2> QED
      BY <1>1, <1>4, <2>1, <2>2 DEF IInv, SimsHold
  <1>7. ProposalsHold'
    BY <1>1, <1>3, <1>4 DEF IInv, ProposalsHold, BookletsFollowPdf, Idle
  <1> QED
    BY <1>5, <1>6, <1>7 DEF IInv

\* A payment is recorded on a simulation that has its rows.
LEMMA AmortizeStep ==
    ASSUME IInv, NEW s \in DOMAIN sims, Amortize(s)
    PROVE  IInv'
  <1>1. Typed'
    BY DEF IInv, Typed, Amortize, Elsewhere, Blank, lotVars
  <1>2. SimsHold'
    BY DEF IInv, SimsHold, HalfSavedIsInert, Amortize, Elsewhere, Blank
  <1>3. ProposalsHold'
    BY DEF IInv, ProposalsHold, BookletsFollowPdf, Amortize, Elsewhere, Blank
  <1> QED
    BY <1>1, <1>2, <1>3 DEF IInv

-----------------------------------------------------------------------------
(* The theorems *)

LEMMA Inductive == IInv /\ [Next]_vars => IInv'
  <1> SUFFICES ASSUME IInv, [Next]_vars
               PROVE  IInv'
    OBVIOUS
  <1> USE DEF IInv, Typed
  <1>1. CASE Simulate
    BY <1>1, SimulateStep
  <1>2. CASE SimulateEnds
    BY <1>2, RowsCommit DEF SimulateEnds, lotVars
  <1>3. CASE SimulateFails
    BY <1>3, RowsCommit DEF SimulateFails, lotVars
  <1>4. CASE Propose
    BY <1>4, ProposeStep
  <1>5. CASE ProposeEnds
    BY <1>5, PdfCommit DEF ProposeEnds, lotVars
  <1>6. CASE ProposeFails
    <2>1. CASE shop # "json" /\ UNCHANGED <<proposals, faults>>
      <3>1. PageForgets
        BY <1>6, <2>1 DEF ProposeFails, ProposalLost, PageForgets, lotVars
      <3> QED
        BY <3>1, Forgetting
    <2>2. ASSUME NEW saved \in BOOLEAN,
                 proposals' = [proposals EXCEPT ![busy.of].pdf = saved]
          PROVE  IInv'
      BY <1>6, <2>2, PdfCommit DEF ProposeFails, ProposalLost, lotVars
    <2> QED
      BY <1>6, <2>1, <2>2 DEF ProposeFails
  <1>7. CASE Carne
    BY <1>7, CarneStep
  <1>8. ASSUME NEW s \in DOMAIN sims, Open(s) \/ Amortize(s)
        PROVE  IInv'
    <2>1. CASE Amortize(s)
      BY <2>1, AmortizeStep
    <2>2. CASE Open(s)
      <3>1. sims[s].veiculo \in Nat
        <4>1. sims \in Seq(Simulation)
          OBVIOUS
        <4>2. sims[s] \in Simulation
          BY <4>1
        <4> QED
          BY <4>2 DEF Simulation
      <3>2. PageForgets
        BY <2>2, <3>1 DEF Open, PageForgets, Blank, lotVars
      <3> QED
        BY <3>2, Forgetting
    <2> QED
      BY <1>8, <2>1, <2>2
  <1>9. ASSUME NEW v \in Offered \cup {0}, Pick(v)
        PROVE  IInv'
    <2>1. v \in Nat
      BY DEF Offered, Listed
    <2>2. PageForgets
      BY <1>9, <2>1 DEF Pick, PageForgets, lotVars
    <2> QED
      BY <2>2, Forgetting
  <1>10. ASSUME NEW v \in DOMAIN vehicles, ChangeVehicle(v)
         PROVE  IInv'
    <2>1. ASSUME NEW x \in Vehicle PROVE [vehicles EXCEPT ![v] = x] \in Seq(Vehicle)
      BY Replaced
    <2>2. vehicles[v] \in Vehicle
      OBVIOUS
    <2>3. ASSUME NEW placa \in Plates \cup {NoPlate}, UpdateVehicle(v, placa)
          PROVE  vehicles' \in Seq(Vehicle)
      <3>1. [vehicles[v] EXCEPT !.placa = placa] \in Vehicle
        BY <2>2 DEF Vehicle
      <3> QED
        BY <2>1, <2>3, <3>1 DEF UpdateVehicle
    <2>4. ASSUME NEW status \in Status, SetStatus(v, status)
          PROVE  vehicles' \in Seq(Vehicle)
      <3>1. [vehicles[v] EXCEPT !.status = status] \in Vehicle
        BY <2>2 DEF Vehicle
      <3> QED
        BY <2>1, <2>4, <3>1 DEF SetStatus
    <2>5. vehicles' \in Seq(Vehicle)
      BY <1>10, <2>3, <2>4 DEF ChangeVehicle
    <2>6. PageForgets
      BY <1>10, <2>5 DEF ChangeVehicle, Elsewhere, Blank, PageForgets
    <2> QED
      BY <2>6, Forgetting
  <1>11. ASSUME NEW fonte \in {"fipe", "manual_cadastro"},
                NEW placa \in Plates \cup {NoPlate}, AddVehicle(fonte, placa)
         PROVE  IInv'
    <2>1. [fonte |-> fonte, placa |-> placa, status |-> "disponivel"] \in Vehicle
      BY DEF Vehicle, Status
    <2>2. vehicles' \in Seq(Vehicle)
      BY <1>11, <2>1 DEF AddVehicle, CreateVehicle, Added
    <2>3. Len(vehicles') \in Nat
      BY <2>2
    <2>4. PageForgets
      BY <1>11, <2>2, <2>3 DEF AddVehicle, Elsewhere, Blank, PageForgets
    <2> QED
      BY <2>4, Forgetting
  <1>12. ASSUME NEW document \in Documents, AddClient(document)
         PROVE  IInv'
    <2>1. PageForgets
      BY <1>12 DEF AddClient, CreateClient, Elsewhere, Blank, PageForgets
    <2> QED
      BY <2>1, Forgetting
  <1>13. ASSUME NEW kind, SaveSettings(kind)
         PROVE  IInv'
    <2>1. PageForgets
      BY <1>13 DEF SaveSettings, Elsewhere, Blank, PageForgets, lotVars
    <2> QED
      BY <2>1, Forgetting
  <1>14. ASSUME NEW u \in Users, SignIn(u)
         PROVE  IInv'
    <2>1. PageForgets
      BY <1>14 DEF SignIn, PageForgets, lotVars, deskVars
    <2> QED
      BY <2>1, Forgetting
  <1>15. CASE SignOut \/ Reload \/ Tick \/ Kill
    <2>1. PageForgets
      BY <1>15 DEF SignOut, Reload, Tick, Kill, Elsewhere, Blank, PageForgets,
                   lotVars, deskVars
    <2> QED
      BY <2>1, Forgetting
  <1>16. CASE UNCHANGED vars
    <2>1. PageForgets
      BY <1>16 DEF vars, PageForgets, lotVars, deskVars
    <2> QED
      BY <2>1, Forgetting
  <1> QED
    BY <1>1, <1>2, <1>3, <1>4, <1>5, <1>6, <1>7, <1>8, <1>9, <1>10, <1>11,
       <1>12, <1>13, <1>14, <1>15, <1>16 DEF Next

\* IInv holds in every state.
LEMMA Invariant == Spec => []IInv
  <1> QED
    BY Initially, Inductive, PTL DEF Spec

\* Whatever fails, and wherever the process ends, nothing is ever built on a
\* simulation that run_and_save left without its rows.
THEOREM HalfSavedStaysInert == Spec => []HalfSavedIsInert
  <1>1. IInv => HalfSavedIsInert
    BY DEF IInv, SimsHold
  <1> QED
    BY <1>1, Invariant, PTL

\* However gerar_pdf fails, no booklet is printed of a proposal without a PDF.
THEOREM BookletsComeLast == Spec => []BookletsFollowPdf
  <1>1. IInv => BookletsFollowPdf
    BY DEF IInv, ProposalsHold
  <1> QED
    BY <1>1, Invariant, PTL

-----------------------------------------------------------------------------
(* The lock *)

\* What has been tried lately is what the process remembers of it, and the
\* places of one minute's failures differ.
TriedHolds(u) ==
    /\ failed[u] \in SUBSET Failure /\ tried[u] \in SUBSET Failure
    /\ tried[u] = Recent(failed[u])
    /\ IsFiniteSet(tried[u])
    /\ Cardinality(tried[u]) <= Attempts
    /\ \A f \in tried[u] : f.age = 0 => f.place <= Cardinality(tried[u])

LockInv ==
    /\ failed \in [Users -> SUBSET Failure] /\ tried \in [Users -> SUBSET Failure]
    /\ \A u \in Users : TriedHolds(u)

\* A failure that is recorded is one more, however many the minute has seen.
LEMMA LatestIsNew ==
    ASSUME NEW u \in Users, TriedHolds(u), NEW f, f = Latest(failed[u])
    PROVE  /\ f \in Failure /\ f \notin tried[u]
           /\ IsFiniteSet(tried[u] \cup {f})
           /\ Cardinality(tried[u] \cup {f}) = Cardinality(tried[u]) + 1
           /\ f.place = Cardinality(tried[u]) + 1
           /\ Recent(tried[u] \cup {f}) = tried[u] \cup {f}
  <1>1. /\ tried[u] = Recent(failed[u]) /\ IsFiniteSet(tried[u])
        /\ \A g \in tried[u] : g.age = 0 => g.place <= Cardinality(tried[u])
    BY DEF TriedHolds
  <1>2. Cardinality(tried[u]) \in Nat
    BY <1>1, FS_CardinalityType
  <1>3. f.age = 0 /\ f.place = Cardinality(tried[u]) + 1 /\ f \in Failure
    BY <1>1, <1>2, PinsAssumption DEF Latest, Failure
  <1>4. f \notin tried[u]
    BY <1>1, <1>2, <1>3
  <1>5. Recent(tried[u] \cup {f}) = tried[u] \cup {f}
    BY <1>1, <1>3, PinsAssumption DEF Recent
  <1> QED
    BY <1>1, <1>3, <1>4, <1>5, FS_AddElement

LEMMA WrongPin ==
    ASSUME LockInv, NEW u \in Users, LoginWrong(u)
    PROVE  TriedHolds(u)'
  <1> DEFINE f == Latest(failed[u])
  <1>1. /\ TriedHolds(u) /\ ~Blocked(failed[u])
        /\ failed'[u] = Recent(failed[u]) \cup {f}
        /\ tried'[u] = tried[u] \cup {f}
    BY DEF LockInv, LoginWrong
  <1> HIDE DEF f
  <1>2. /\ f \in Failure /\ f \notin tried[u]
        /\ IsFiniteSet(tried[u] \cup {f})
        /\ Cardinality(tried[u] \cup {f}) = Cardinality(tried[u]) + 1
        /\ f.place = Cardinality(tried[u]) + 1
        /\ Recent(tried[u] \cup {f}) = tried[u] \cup {f}
    BY <1>1, LatestIsNew DEF f
  <1>3. tried[u] = Recent(failed[u]) /\ tried[u] \subseteq Failure
    BY <1>1 DEF TriedHolds, Recent
  <1>4. Cardinality(tried[u]) \in Nat
    BY <1>1, FS_CardinalityType DEF TriedHolds
  <1>5. Cardinality(tried[u]) < Attempts
    BY <1>1, <1>3, <1>4, PinsAssumption DEF Blocked
  <1>6. \A g \in tried'[u] : g.age = 0 => g.place <= Cardinality(tried'[u])
    <2>1. \A g \in tried[u] :
            g.place \in Nat /\ (g.age = 0 => g.place <= Cardinality(tried[u]))
      BY <1>1, <1>3 DEF TriedHolds, Failure
    <2> QED
      BY <1>1, <1>2, <1>4, <2>1
  <1>7. failed'[u] = tried'[u] /\ tried'[u] \in SUBSET Failure
    BY <1>1, <1>2, <1>3
  <1>8. Cardinality(tried'[u]) <= Attempts
    BY <1>1, <1>2, <1>4, <1>5, PinsAssumption
  <1> QED
    BY <1>1, <1>2, <1>6, <1>7, <1>8 DEF TriedHolds

\* A minute makes none of them one of this minute, and more of them none.
LEMMA MinutePasses ==
    ASSUME NEW u \in Users, TriedHolds(u), Minute
    PROVE  TriedHolds(u)'
  <1> DEFINE old == {Older(f) : f \in tried[u]}
  <1>1. /\ failed'[u] = {Older(f) : f \in failed[u]}
        /\ tried'[u] = Recent(old)
        /\ failed[u] \in SUBSET Failure /\ tried[u] = Recent(failed[u])
        /\ IsFiniteSet(tried[u]) /\ Cardinality(tried[u]) <= Attempts
    BY DEF Minute, TriedHolds
  <1>2. \A f \in Failure :
          /\ Older(f) \in Failure
          /\ Older(f).age # 0
          /\ Older(f).age < Window => f.age < Window
    BY PinsAssumption DEF Older, Failure
  <1>3. /\ tried'[u] = Recent(failed'[u])
        /\ failed'[u] \in SUBSET Failure /\ tried'[u] \in SUBSET Failure
    BY <1>1, <1>2 DEF Recent
  <1>4. \A f \in tried'[u] : f.age # 0
    BY <1>1, <1>2 DEF Recent
  <1>5. IsFiniteSet(old) /\ Cardinality(old) <= Cardinality(tried[u])
    <2>1. [f \in tried[u] |-> Older(f)] \in Surjection(tried[u], old)
      BY DEF Surjection
    <2> QED
      BY <1>1, <2>1, FS_Surjection
  <1>6. IsFiniteSet(tried'[u]) /\ Cardinality(tried'[u]) <= Cardinality(old)
    BY <1>1, <1>5, FS_Subset DEF Recent
  <1>7. /\ Cardinality(tried[u]) \in Nat /\ Cardinality(old) \in Nat
        /\ Cardinality(tried'[u]) \in Nat
    BY <1>1, <1>5, <1>6, FS_CardinalityType
  <1> HIDE DEF old
  <1>8. Cardinality(tried'[u]) <= Attempts
    BY <1>1, <1>5, <1>6, <1>7, PinsAssumption
  <1> QED
    BY <1>3, <1>4, <1>6, <1>8 DEF TriedHolds

LEMMA LockStep == LockInv /\ [Next]_vars => LockInv'
  <1> SUFFICES ASSUME LockInv, [Next]_vars PROVE LockInv'
    OBVIOUS
  <1>1. CASE UNCHANGED <<failed, tried>>
    BY <1>1 DEF LockInv, TriedHolds
  \* Nothing is remembered.
  <1>2. ASSUME NEW u \in Users, failed'[u] = {}, tried'[u] = {}
        PROVE  TriedHolds(u)'
    BY <1>2, FS_EmptySet, PinsAssumption DEF TriedHolds, Recent
  <1>3. ASSUME NEW u \in Users, NEW F, NEW T, TriedHolds(u)',
               failed' = [failed EXCEPT ![u] = F],
               tried' = [tried EXCEPT ![u] = T]
        PROVE  LockInv'
    <2>1. ASSUME NEW v \in Users \ {u} PROVE TriedHolds(v)'
      <3>1. failed'[v] = failed[v] /\ tried'[v] = tried[v] /\ TriedHolds(v)
        BY <1>3, <2>1 DEF LockInv
      <3> QED
        BY <3>1 DEF TriedHolds
    <2>2. F \in SUBSET Failure /\ T \in SUBSET Failure
      BY <1>3 DEF TriedHolds, LockInv
    <2>3. /\ failed' \in [Users -> SUBSET Failure]
          /\ tried' \in [Users -> SUBSET Failure]
      BY <1>3, <2>2 DEF LockInv
    <2> QED
      BY <1>3, <2>1, <2>3 DEF LockInv
  <1>4. ASSUME NEW u \in Users, SignIn(u) PROVE LockInv'
    <2>1. CASE LoginWrong(u)
      <3>1. TriedHolds(u)'
        BY <2>1, WrongPin
      <3> QED
        BY <1>3, <2>1, <3>1 DEF LoginWrong
    <2>2. CASE LoginRefused(u)
      <3>1. /\ failed'[u] = Recent(failed[u]) /\ tried'[u] = tried[u]
            /\ TriedHolds(u)
        BY <2>2 DEF LoginRefused, LockInv
      <3>2. Recent(Recent(failed[u])) = Recent(failed[u])
        BY DEF Recent
      <3>3. Recent(failed[u]) \subseteq failed[u]
        BY DEF Recent
      <3>4. TriedHolds(u)'
        BY <3>1, <3>2, <3>3 DEF TriedHolds
      <3>5. tried' = [tried EXCEPT ![u] = tried[u]]
        BY <2>2 DEF LoginRefused, LockInv
      <3> QED
        BY <1>3, <2>2, <3>4, <3>5 DEF LoginRefused
    <2>3. CASE LoginRight(u)
      <3>1. TriedHolds(u)'
        BY <1>2, <2>3 DEF LoginRight, LockInv
      <3> QED
        BY <1>3, <2>3, <3>1 DEF LoginRight
    <2> QED
      BY <1>4, <2>1, <2>2, <2>3 DEF SignIn
  <1>5. CASE Tick
    <2>1. \A u \in Users : TriedHolds(u)'
      BY <1>5, MinutePasses DEF Tick, LockInv
    <2>2. /\ failed' \in [Users -> SUBSET Failure]
          /\ tried' \in [Users -> SUBSET Failure]
      BY <1>5, <2>1 DEF Tick, Minute, TriedHolds
    <2> QED
      BY <2>1, <2>2 DEF LockInv
  <1>6. CASE Kill
    BY <1>2, <1>6 DEF Kill, PinsRestart, LockInv
  <1>7. CASE ~Tick /\ ~Kill /\ ~\E u \in Users : SignIn(u)
    BY <1>1, <1>7
    DEF Next, vars, pinVars, Simulate, SimulateEnds, SimulateFails, Propose,
        ProposeEnds, ProposeFails, Carne, Open, Amortize, Pick, ChangeVehicle,
        AddVehicle, AddClient, SaveSettings, SignOut, Logout, Reload
  <1> QED
    BY <1>4, <1>5, <1>6, <1>7

\* While the process runs, no more than Attempts wrong PINs of a user are
\* compared within Window minutes between two logins, whenever they are typed.
THEOREM LockHolds == Spec => []LockoutHolds
  <1>1. Init => LockInv
    BY FS_EmptySet, PinsAssumption
    DEF Init, PinsInit, LockInv, TriedHolds, Recent
  <1>2. LockInv => LockoutHolds
    BY DEF LockInv, TriedHolds, LockoutHolds
  <1> QED
    BY <1>1, <1>2, LockStep, PTL DEF Spec
=============================================================================
