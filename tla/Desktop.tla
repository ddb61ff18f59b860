------------------------------- MODULE Desktop -------------------------------
(***************************************************************************)
(* The desktop application (src/app): one window, one process, SQLite.     *)
(*                                                                         *)
(* The handlers are synchronous and run one at a time, so that only the    *)
(* end of the process or a failing commit or render can come between two   *)
(* of their commits.  Two handlers have such a gap: simular commits the    *)
(* simulation before its rows, gerar_pdf the proposal before its PDF.      *)
(* What a simulation comes to is in the module Loans.                      *)
(***************************************************************************)
EXTENDS Pins, Lot

CONSTANTS
    MaxVehicles,  \* bound: vehicles
    MaxRows,      \* bound: vehicles, clients, simulations and proposals
    MaxFaults     \* bound: what may go wrong

ASSUME DesktopAssumption == {MaxVehicles, MaxRows, MaxFaults} \subseteq Nat

VARIABLES
    sims,       \* simulations: [veiculo, cliente, rows]: there is a client,
                \* the rows are saved
    proposals,  \* proposals: [sim, pdf, carne]: the paths are set
    paid,       \* extraordinary_amortizations: the simulations they are for
    shop,       \* how the four rules on the shop are stored
    page,       \* of simulacao.py: [vehicle, sim, proposal], ids or 0
    busy,       \* the handler between two commits: [what, of]
    faults      \* bound on what may go wrong

deskVars == <<sims, proposals, paid, shop, page, busy>>
vars == <<pinVars, lotVars, deskVars, faults>>

Blank == [vehicle |-> 0, sim |-> 0, proposal |-> 0]
Idle == [what |-> "nothing", of |-> 0]

TypeOK ==
    /\ PinsType /\ LotType
    /\ sims \in Seq([veiculo: DOMAIN vehicles, cliente: BOOLEAN,
                     rows: BOOLEAN])
    /\ proposals \in Seq([sim: DOMAIN sims, pdf: BOOLEAN, carne: BOOLEAN])
    /\ paid \subseteq DOMAIN sims
    /\ shop \in {"json", "plain"}
    /\ page \in [vehicle: 0..Len(vehicles), sim: 0..Len(sims),
                 proposal: 0..Len(proposals)]
    /\ \/ busy = Idle
       \/ busy \in [what: {"rows"}, of: DOMAIN sims]
       \/ busy \in [what: {"pdf"}, of: DOMAIN proposals]
    /\ faults \in 0..MaxFaults

\* The migrations store the shop's rules as the JSON text of "".
Init ==
    /\ PinsInit /\ LotInit
    /\ sims = <<>> /\ proposals = <<>> /\ paid = {}
    /\ shop = "json" /\ page = Blank /\ busy = Idle /\ faults = 0

\* A handler of a page can start.
Ready == user # NoUser /\ busy = Idle

\* There is room for new vehicles and other new rows.
Room(new, other) ==
    /\ Len(vehicles) + new <= MaxVehicles
    /\ Len(vehicles) + Len(clients) + Len(sims) + Len(proposals)
         + new + other <= MaxRows

Fault ==
    /\ faults < MaxFaults
    /\ faults' = faults + 1

-----------------------------------------------------------------------------
(* simular *)

\* Defect: the page takes the simulation as soon as it has an id.
ShownAtOnce(p, s) == [p EXCEPT !.sim = s]

\* last_sim_id is set when run_and_save is back.
Shown(p, s) == p

\* run_and_save up to its first commit, which also saves the vehicle that is
\* made up when none is picked.
Simulate ==
    /\ Ready
    /\ LET makeUp == page.vehicle = 0
           s == Len(sims) + 1
       IN
       /\ Room(IF makeUp THEN 1 ELSE 0, 1)
       /\ vehicles' = IF makeUp THEN Added("manual", NoPlate) ELSE vehicles
       /\ \E cliente \in {FALSE, clients # <<>>} :
             sims' = Append(sims,
                       [veiculo |-> IF makeUp THEN Len(vehicles) + 1
                                    ELSE page.vehicle,
                        cliente |-> cliente,
                        rows |-> FALSE])
       /\ busy' = [what |-> "rows", of |-> s]
       /\ page' = Shown(page, s)
    /\ UNCHANGED <<pinVars, clients, proposals, paid, shop, faults>>

SimulateEnds ==
    /\ busy.what = "rows"
    /\ sims' = [sims EXCEPT ![busy.of].rows = TRUE]
    /\ page' = [page EXCEPT !.sim = busy.of]
    /\ busy' = Idle
    /\ UNCHANGED <<pinVars, lotVars, proposals, paid, shop, faults>>

\* The second commit fails, or the one of the audit entry after it.
SimulateFails ==
    /\ busy.what = "rows"
    /\ Fault
    /\ \E saved \in BOOLEAN : sims' = [sims EXCEPT ![busy.of].rows = saved]
    /\ busy' = Idle
    /\ UNCHANGED <<pinVars, lotVars, proposals, paid, shop, page>>

-----------------------------------------------------------------------------
(* gerar_pdf and gerar_carne *)

\* ProposalService.create, of the simulation the page shows.  The table wants
\* a client: without one the insert fails, and nothing has changed.
Propose ==
    /\ Ready
    /\ page.sim # 0
    /\ sims[page.sim].cliente
    /\ Room(0, 1)
    /\ proposals' = Append(proposals,
                      [sim |-> page.sim, pdf |-> FALSE, carne |-> FALSE])
    /\ busy' = [what |-> "pdf", of |-> Len(proposals) + 1]
    /\ UNCHANGED <<pinVars, lotVars, sims, paid, shop, page, faults>>

\* render_pdf: _get_loja reads the shop's rules as JSON.
ProposeEnds ==
    /\ busy.what = "pdf"
    /\ shop = "json"
    /\ proposals' = [proposals EXCEPT ![busy.of].pdf = TRUE]
    /\ page' = [page EXCEPT !.proposal = busy.of]
    /\ busy' = Idle
    /\ UNCHANGED <<pinVars, lotVars, sims, paid, shop, faults>>

\* Defect: the proposal is taken whatever became of it.
ProposalKept(p, n) == [p EXCEPT !.proposal = n]

\* After an exception the page keeps the proposal it had.
ProposalLost(p, n) == p

\* The rules cannot be read; or the render fails, or the opening of the viewer
\* when the path is already saved.
ProposeFails ==
    /\ busy.what = "pdf"
    /\ \/ shop # "json" /\ UNCHANGED <<proposals, faults>>
       \/ /\ Fault
          /\ \E saved \in {FALSE, shop = "json"} :
                proposals' = [proposals EXCEPT ![busy.of].pdf = saved]
    /\ page' = ProposalLost(page, busy.of)
    /\ busy' = Idle
    /\ UNCHANGED <<pinVars, lotVars, sims, paid, shop>>

\* generate_carne, of the last proposal: also when a simulation came after it.
Carne ==
    /\ Ready
    /\ page.proposal # 0
    /\ shop = "json"
    /\ proposals' = [proposals EXCEPT ![page.proposal].carne = TRUE]
    /\ UNCHANGED <<pinVars, lotVars, sims, paid, shop, page, busy, faults>>

-----------------------------------------------------------------------------
(* The page itself, the other pages *)

\* abrir_sim, or the link on the page of the vehicles.  A select does not take
\* a vehicle it does not offer: the handler stops there, with the vehicle
\* changed and nothing else.
Open(s) ==
    /\ Ready
    /\ \/ page' = [Blank EXCEPT !.vehicle = sims[s].veiculo]
       \/ /\ sims[s].veiculo \notin Offered
          /\ page' = [page EXCEPT !.vehicle = sims[s].veiculo]
    /\ UNCHANGED <<pinVars, lotVars, sims, proposals, paid, shop, busy, faults>>

Pick(v) ==
    /\ Ready
    /\ page' = [page EXCEPT !.vehicle = v]
    /\ UNCHANGED <<pinVars, lotVars, sims, proposals, paid, shop, busy, faults>>

\* Another page: the page of the simulations is built anew after it.
Elsewhere == page' = Blank

Reload ==
    /\ Ready
    /\ Elsewhere
    /\ UNCHANGED <<pinVars, lotVars, sims, proposals, paid, shop, busy, faults>>

\* AmortizationService.apply: of a simulation without rows it takes a row that
\* is not there, before anything is recorded.
Amortize(s) ==
    /\ Ready
    /\ sims[s].rows
    /\ paid' = paid \cup {s}
    /\ Elsewhere
    /\ UNCHANGED <<pinVars, lotVars, sims, proposals, shop, busy, faults>>

\* RulesService.set stores the text as it was typed: quoted, or not.
SaveSettings(kind) ==
    /\ Ready
    /\ shop' = kind
    /\ Elsewhere
    /\ UNCHANGED <<pinVars, lotVars, sims, proposals, paid, busy, faults>>

\* The picker of the simulation page selects the vehicle it has created.
AddVehicle(fonte, placa) ==
    /\ Ready
    /\ Room(1, 0)
    /\ CreateVehicle(fonte, placa)
    /\ \/ Elsewhere
       \/ /\ fonte = "fipe"
          /\ page' = [page EXCEPT !.vehicle = Len(vehicles')]
    /\ UNCHANGED <<pinVars, sims, proposals, paid, shop, busy, faults>>

ChangeVehicle(v) ==
    /\ Ready
    /\ \/ \E placa \in Plates \cup {NoPlate} : UpdateVehicle(v, placa)
       \/ \E status \in Status : SetStatus(v, status)
    /\ Elsewhere
    /\ UNCHANGED <<pinVars, sims, proposals, paid, shop, busy, faults>>

AddClient(document) ==
    /\ Ready
    /\ Room(0, 1)
    /\ CreateClient(document)
    /\ Elsewhere
    /\ UNCHANGED <<pinVars, sims, proposals, paid, shop, busy, faults>>

SignIn(u) ==
    /\ busy = Idle
    /\ LoginRefused(u) \/ LoginWrong(u) \/ LoginRight(u)
    /\ UNCHANGED <<lotVars, deskVars, faults>>

SignOut ==
    /\ Ready
    /\ Logout
    /\ page' = Blank
    /\ UNCHANGED <<lotVars, sims, proposals, paid, shop, busy, faults>>

\* Time matters to the lock alone, and a lock to who is not logged in.
Tick ==
    /\ user = NoUser /\ busy = Idle
    /\ Minute
    /\ UNCHANGED <<lotVars, deskVars, faults>>

\* The process ends, at any point, and is started again.
Kill ==
    /\ Fault
    /\ PinsRestart
    /\ page' = Blank /\ busy' = Idle
    /\ UNCHANGED <<lotVars, sims, proposals, paid, shop>>

Next ==
    \/ Simulate \/ SimulateEnds \/ SimulateFails
    \/ Propose \/ ProposeEnds \/ ProposeFails \/ Carne
    \/ \E s \in DOMAIN sims : Open(s) \/ Amortize(s)
    \/ \E v \in Offered \cup {0} : Pick(v)
    \/ \E v \in DOMAIN vehicles : ChangeVehicle(v)
    \/ \E fonte \in {"fipe", "manual_cadastro"}, placa \in Plates \cup {NoPlate} :
          AddVehicle(fonte, placa)
    \/ \E document \in Documents : AddClient(document)
    \/ \E kind \in {"json", "plain"} : SaveSettings(kind)
    \/ \E u \in Users : SignIn(u)
    \/ SignOut \/ Reload \/ Tick \/ Kill

Spec == Init /\ [][Next]_vars

-----------------------------------------------------------------------------
(* Properties *)

\* A simulation whose rows were never saved (the process ended between the two
\* commits of run_and_save, or the second failed) is listed and can be opened,
\* but no proposal is made of it and no payment recorded on it.
HalfSavedIsInert ==
    \A s \in DOMAIN sims :
        ~sims[s].rows =>
            /\ s \notin paid
            /\ \A p \in DOMAIN proposals : proposals[p].sim # s

\* A payment booklet is only printed of a proposal whose PDF was.
BookletsFollowPdf ==
    \A p \in DOMAIN proposals : proposals[p].carne => proposals[p].pdf

\* _check_lockout: while the process runs, no more wrong PINs than Attempts
\* are compared for a user in any Window minutes between two logins.
LockoutHolds == \A u \in Users : Cardinality(tried[u]) <= Attempts
=============================================================================
