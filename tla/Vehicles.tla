------------------------------ MODULE Vehicles ------------------------------
(***************************************************************************)
(* The vehicles of a tenant: services/vehicle_service.py behind            *)
(* api/vehicles.py.  A vehicle's price, month and snapshot are one column, *)
(* quote; its key is the model it is priced as, which need not be the one  *)
(* its other columns name: a form sends both, and nothing compares them.   *)
(***************************************************************************)
EXTENDS Quotes

CONSTANTS
    Stock,         \* the statuses of the vehicles that are there at first
    MaxVehicles    \* bound: rows of the table

ASSUME VehiclesAssumption == Prices # {} /\ MaxVehicles \in Nat \ {0}

VARIABLE vehicles

Statuses == {"ativo", "reservado", "vendido", "inativo"}

ASSUME StockAssumption == Stock \subseteq Statuses

\* _VALID_TRANSITIONS
Transitions == [ativo |-> {"reservado", "inativo"},
                inativo |-> {"ativo"},
                reservado |-> {"vendido", "ativo"},
                vendido |-> {}]

\* brought and last are history: the quotes of its forms so far, and of the
\* last of them.
Vehicle == [modelo: Prices, fipe: BOOLEAN, quote: Quote \cup {NoQuote},
            status: Statuses,
            brought: SUBSET (Quote \cup {NoQuote}), last: Quote \cup {NoQuote}]

VehiclesTypeOK == vehicles \in Seq(Vehicle) /\ Len(vehicles) <= MaxVehicles

\* A vehicle that is there at first was priced as its model, before the first
\* change.
VehiclesInit ==
    \/ vehicles = <<>>
    \/ \E k \in Prices, status \in Stock :
          LET q == [key |-> k, nth |-> 0] IN
          vehicles = <<[modelo |-> k, fipe |-> TRUE, quote |-> q,
                        status |-> status, brought |-> {q}, last |-> q]>>

\* What a form sends: the columns of a model, and a quote that was given out
\* at some time, of that model or of another, or none; a quote may come with
\* a price that is called typed in, and none with one that is not.
Forms ==
    [modelo: Prices, fipe: BOOLEAN,
     quote: [key: Prices, nth: 0..MaxChanges] \cup {NoQuote}]

Sendable(form) ==
    form.quote # NoQuote => form.quote.nth <= Len(changes[form.quote.key])

\* The history of a vehicle that has just been saved with quote.
Brings(v, quote) == [v EXCEPT !.last = quote, !.brought = @ \cup {quote}]

CreateVehicle(w, form) ==
    /\ Sendable(form)
    /\ Len(vehicles) < MaxVehicles
    /\ Open(w, "create vehicle", {}, form)
    /\ UNCHANGED <<vehicles, quoteVars>>

InsertVehicle(w) ==
    LET form == req[w].arg IN
    /\ Holds(w, "create vehicle")
    /\ Len(vehicles) < MaxVehicles
    /\ vehicles' = Append(vehicles,
                      [modelo |-> form.modelo, fipe |-> form.fipe,
                       quote |-> form.quote, status |-> "ativo",
                       brought |-> {form.quote}, last |-> form.quote])
    /\ Commit(w)
    /\ Log(<<"vehicle", Len(vehicles) + 1>>, "create", [status |-> "ativo"])
    /\ UNCHANGED quoteVars

\* Every column is sent but the status.
UpdateVehicle(w, i, form) ==
    /\ Sendable(form)
    /\ Open(w, "update vehicle", {<<"vehicle", i>>},
            [i |-> i, saw |-> vehicles[i], want |-> form])
    /\ UNCHANGED <<vehicles, quoteVars>>

WriteVehicle(w) ==
    LET a == req[w].arg IN
    /\ Holds(w, "update vehicle")
    /\ vehicles' = [vehicles EXCEPT ![a.i] =
                      Brings(Written(@, a.saw, a.want), a.want.quote)]
    /\ Commit(w)
    /\ Log(<<"vehicle", a.i>>, "update", <<>>)
    /\ UNCHANGED quoteVars

\* Defect: only where the vehicle goes is looked at.
AnyTransition(from, to) == to # from

Transition(from, to) == to \in Transitions[from]

SetStatus(w, i, to) ==
    /\ Transition(vehicles[i].status, to)
    /\ Open(w, "set status", {<<"status", i>>},
            [i |-> i, saw |-> vehicles[i], want |-> [status |-> to]])
    /\ UNCHANGED <<vehicles, quoteVars>>

WriteStatus(w) ==
    LET a == req[w].arg IN
    /\ Holds(w, "set status")
    /\ vehicles' = [vehicles EXCEPT ![a.i] = Written(@, a.saw, a.want)]
    /\ Commit(w)
    /\ Log(<<"vehicle", a.i>>, "set_status", [status |-> a.want.status])
    /\ UNCHANGED quoteVars

\* Defect: the model of the columns is asked for.
ModelOfColumns(v) == v.modelo

\* The ids in the snapshot.
ModelOfSnapshot(v) == v.quote.key

\* refresh_fipe asks for the model the snapshot had when it was loaded (no
\* provider knows what is asked without one); the change of the price is not
\* in the audit trail.
RefreshFipe(w, i) ==
    /\ vehicles[i].fipe /\ vehicles[i].quote # NoQuote
    /\ StartFetch(w, ModelOfSnapshot(vehicles[i]), {<<"vehicle", i>>},
                  [for |-> "vehicle", i |-> i, saw |-> vehicles[i]])
    /\ UNCHANGED <<vehicles, quoteVars>>

WriteQuote(w) ==
    LET a == req[w].arg IN
    /\ Fetching(w, "done") /\ a.want.for = "vehicle"
    /\ vehicles' = [vehicles EXCEPT ![a.want.i] =
                      Written(@, a.want.saw, [quote |-> a.quote])]
    /\ Commit(w)
    /\ UNCHANGED <<audit, quoteVars>>

AskVehicles(w) ==
    \/ \E form \in Forms :
          \/ CreateVehicle(w, form)
          \/ \E i \in DOMAIN vehicles : UpdateVehicle(w, i, form)
    \/ \E i \in DOMAIN vehicles :
          \/ RefreshFipe(w, i)
          \/ \E to \in Statuses : SetStatus(w, i, to)

VehiclesGoOn(w) ==
    \/ InsertVehicle(w)
    \/ WriteVehicle(w)
    \/ WriteStatus(w)
    \/ WriteQuote(w)

-----------------------------------------------------------------------------
\* A vehicle that was sold stays sold, whatever is edited or refreshed
\* meanwhile, unless two changes of its status overlapped.
SoldStaysSold ==
    \A i \in DOMAIN vehicles : <<"status", i>> \notin crossed =>
        \A j \in DOMAIN audit :
            audit[j].on = <<"vehicle", i>> /\ audit[j].acao = "set_status"
                /\ audit[j].after.status = "vendido"
              => vehicles[i].status = "vendido"

\* However edits and refreshes overlap, a vehicle is priced as a model that
\* one of its forms brought.  It is priced as the one its last form brought,
\* and a price that was typed in is the one that form has, unless an edit and
\* a refresh, or two edits, overlapped.
PricedAsBrought ==
    \A i \in DOMAIN vehicles :
        LET v == vehicles[i] IN
        /\ \E q \in v.brought : q.key = v.quote.key
        /\ \/ <<"vehicle", i>> \in crossed
           \/ /\ v.quote.key = v.last.key
              /\ ~v.fipe => v.quote = v.last
=============================================================================
