---------------------------------- MODULE Lot ----------------------------------
(***************************************************************************)
(* The vehicles and clients of the desktop application:                    *)
(* app/services/vehicle_service.py and client_service.py, as the pages     *)
(* veiculos.py and cadastro.py and the FIPE picker call them.  No page     *)
(* calls refresh_fipe.  The handlers run one after the other.              *)
(***************************************************************************)
EXTENDS Naturals, Sequences

CONSTANTS
    Plates, NoPlate,
    Documents  \* CPF and CNPJ numbers

ASSUME LotAssumption == NoPlate \notin Plates

VARIABLES
    vehicles,  \* table vehicles: [fonte, placa, status], by id
    clients    \* table clients: the documents, by id

lotVars == <<vehicles, clients>>

Status == {"disponivel", "reservado", "vendido"}

\* fonte is "manual" for the vehicle a simulation without one makes up.
Vehicle == [fonte: {"fipe", "manual_cadastro", "manual"},
            placa: Plates \cup {NoPlate}, status: Status]

LotType ==
    /\ vehicles \in Seq(Vehicle)
    /\ clients \in Seq(Documents)

LotInit == vehicles = <<>> /\ clients = <<>>

\* list_all: what the page of the vehicles offers.
Listed == {v \in DOMAIN vehicles : vehicles[v].fonte # "manual"}

\* list_active: what may be picked for a simulation.
Offered == {v \in Listed : vehicles[v].status # "vendido"}

\* uq_vehicles_placa_ativa
IndexAllows(rows) ==
    \A v, w \in DOMAIN rows :
        /\ v # w
        /\ rows[v].placa # NoPlate /\ rows[v].placa = rows[w].placa
        => "vendido" \in {rows[v].status, rows[w].status}

\* _check_placa_unique, for the plate of vehicle v.
PlateIsFree(placa, v) ==
    placa # NoPlate =>
        \A w \in DOMAIN vehicles \ {v} :
            vehicles[w].placa = placa => vehicles[w].status = "vendido"

Added(fonte, placa) ==
    Append(vehicles, [fonte |-> fonte, placa |-> placa,
                      status |-> "disponivel"])

\* create_from_fipe, create_manual
CreateVehicle(fonte, placa) ==
    /\ PlateIsFree(placa, 0)
    /\ vehicles' = Added(fonte, placa)
    /\ IndexAllows(vehicles')
    /\ UNCHANGED clients

\* update, of which only the plate matters here.
UpdateVehicle(v, placa) ==
    /\ v \in Listed
    /\ PlateIsFree(placa, v)
    /\ vehicles' = [vehicles EXCEPT ![v].placa = placa]
    /\ IndexAllows(vehicles')
    /\ UNCHANGED clients

\* set_status: from any status to any other; the index alone looks at the
\* plate of a vehicle that comes back.
SetStatus(v, status) ==
    /\ v \in Listed
    /\ vehicles' = [vehicles EXCEPT ![v].status = status]
    /\ IndexAllows(vehicles')
    /\ UNCHANGED clients

\* create_pf, create_pj
CreateClient(document) ==
    /\ \A c \in DOMAIN clients : clients[c] # document
    /\ clients' = Append(clients, document)
    /\ UNCHANGED vehicles
===============================================================================
