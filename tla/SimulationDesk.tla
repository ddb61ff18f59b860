--------------------------- MODULE SimulationDesk ---------------------------
(***************************************************************************)
(* Simulations as the request sessions of api/simulations.py keep them:    *)
(* services/simulation_service.py, and the reading half of                 *)
(* proposal_service.create.  A simulation is a row of columns and three    *)
(* child tables that an edit deletes and writes anew.                      *)
(*                                                                         *)
(* Sessions run at READ COMMITTED: each statement sees what was committed  *)
(* when it began, a DELETE waits for the rows another session has deleted, *)
(* and a session's own writes appear to the others at its commit.          *)
(***************************************************************************)
EXTENDS Naturals, Sequences, FiniteSets

CONSTANTS
    Tenants,
    Workers,     \* request sessions open at one time
    Terms,       \* payloads that differ in the columns they give
    Fills,       \* Fills[t]: which of the optional tables payload t fills
    Keys,        \* idempotency keys a caller sends
    NoKey,
    MaxSims      \* bound: simulations created

ASSUME DeskAssumption ==
    /\ Tenants # {} /\ Terms # {}
    /\ Fills \in [Terms -> SUBSET {"fees", "extras"}]
    /\ NoKey \notin Keys
    /\ MaxSims \in Nat

VARIABLES
    sims,        \* the simulations table, in the order of the commits
    next_val,    \* simulation_counters.next_val, by tenant
    proposals,   \* proposals.snapshot_json, by simulation
    req,         \* what each session holds
    late,        \* history: the sessions that read contents an edit replaced
    crossed      \* history: the simulations such a session has written

vars == <<sims, next_val, proposals, req, late, crossed>>

-----------------------------------------------------------------------------
Status == {"rascunho", "confirmado", "arquivado"}
Tables == <<"fees", "extras", "rows">>      \* in the order of the statements
Names == {"fees", "extras", "rows"}

\* The child rows one session wrote for one payload in one table.
Batch == [by: Workers, terms: Terms]
Children == [Names -> SUBSET Batch]
Nothing == [n \in Names |-> {}]

Simulation == [tenant: Tenants, codigo: Nat, status: Status,
               linked: BOOLEAN,             \* has client_id and vehicle_id
               key: Keys \cup {NoKey}, terms: Terms, child: Children]

Snapshot == [terms: Terms, child: Children]

\* The rows that payload t puts in the child tables.
Computed(w, t) ==
    [n \in Names |-> IF n = "rows" \/ n \in Fills[t]
                     THEN {[by |-> w, terms |-> t]} ELSE {}]

Request == [op: {"idle", "create", "clone", "update", "confirm", "archive",
                 "propose"},
            pc: {"code", "insert", "read", "delete", "wait", "flush"},
            tenant: Tenants,
            sim: Nat,                  \* the simulation addressed
            loaded: Status \X Terms,   \* its columns as loaded
            terms: Terms,              \* the payload
            key: Keys \cup {NoKey},
            codigo: Nat,               \* drawn from the counter; 0: none
            table: 1..4,               \* the next statement's
            seen: SUBSET Batch,        \* what a waiting DELETE saw
            child: Children]           \* rows deleted, or rows read

Idle == [op |-> "idle", pc |-> "code", tenant |-> CHOOSE t \in Tenants: TRUE,
         sim |-> 0, loaded |-> <<"rascunho", CHOOSE t \in Terms: TRUE>>,
         terms |-> CHOOSE t \in Terms: TRUE, key |-> NoKey, codigo |-> 0,
         table |-> 1, seen |-> {}, child |-> Nothing]

Init ==
    /\ sims = <<>>
    /\ next_val = [t \in Tenants |-> 1]
    /\ proposals = [s \in 1..MaxSims |-> {}]
    /\ req = [w \in Workers |-> Idle]
    /\ late = {}
    /\ crossed = {}

-----------------------------------------------------------------------------
At(w, op, pc) == req[w].op = op /\ req[w].pc = pc

Open(w, r) ==
    /\ req[w].op = "idle"
    /\ req' = [req EXCEPT ![w] = r]
    /\ UNCHANGED crossed

Finish(w) ==
    /\ req' = [req EXCEPT ![w] = Idle]
    /\ late' = late \ {w}

Room == Len(sims) < MaxSims      \* the bound

\* The session gives up: a payload that fails the validation, a client or a
\* vehicle that is not the tenant's, a caller that went away.  Whatever it
\* wrote is rolled back.
Abort(w) ==
    /\ req[w].op # "idle"
    /\ Finish(w)
    /\ UNCHANGED <<sims, next_val, proposals, crossed>>

(* create *)

\* A keyed retry of a create that is there is answered with it and opens
\* nothing; every other create goes on.
Create(w, t, k, p) ==
    /\ Room
    /\ k # NoKey => \A s \in DOMAIN sims: ~(sims[s].key = k /\ sims[s].tenant = t)
    /\ Open(w, [Idle EXCEPT !.op = "create", !.tenant = t, !.key = k,
                            !.terms = p, !.child = Computed(w, p)])
    /\ UNCHANGED <<sims, next_val, proposals, late>>

\* The counter's row stays locked from a session's upsert to its end.
CounterHeld(w) ==
    \E v \in Workers \ {w}:
        req[v].codigo > 0 /\ req[v].tenant = req[w].tenant

\* Defect: the counter is read, and written back at the commit.
TakeCodeUnlocked(w) ==
    /\ req[w].op \in {"create", "clone"} /\ req[w].pc = "code"
    /\ req' = [req EXCEPT ![w].codigo = next_val[req[w].tenant],
                          ![w].pc = "insert"]
    /\ UNCHANGED <<sims, next_val, proposals, late, crossed>>

TakeCode(w) ==
    /\ req[w].op \in {"create", "clone"} /\ req[w].pc = "code"
    /\ ~CounterHeld(w)
    /\ req' = [req EXCEPT ![w].codigo = next_val[req[w].tenant],
                          ![w].pc = "insert"]
    /\ UNCHANGED <<sims, next_val, proposals, late, crossed>>

\* Defect: the lookup is all there is against a second insert.
KeyUnchecked(k) == TRUE

\* idempotency_key is unique over all tenants.
KeyIsFree(k) == k = NoKey \/ \A s \in DOMAIN sims: sims[s].key # k

\* Defect: a clone takes over the client and the vehicle.
LinkedAlways(op) == TRUE

\* A create stores its client and vehicle, a clone has neither.
Linked(op) == op = "create"

\* A create is confirmed at once, a clone is a draft.
StatusOf(op) == IF op = "create" THEN "confirmado" ELSE "rascunho"

Insert(w) ==
    /\ req[w].pc = "insert"
    /\ Room
    /\ KeyIsFree(req[w].key)
    /\ sims' = Append(sims,
           [tenant |-> req[w].tenant, codigo |-> req[w].codigo,
            status |-> StatusOf(req[w].op), linked |-> Linked(req[w].op),
            key |-> req[w].key, terms |-> req[w].terms,
            child |-> req[w].child])
    /\ next_val' = [next_val EXCEPT ![req[w].tenant] = @ + 1]
    /\ Finish(w)
    /\ crossed' = crossed \cup (IF w \in late THEN {Len(sims) + 1} ELSE {})
    /\ UNCHANGED proposals

InsertRefused(w) ==
    /\ req[w].pc = "insert"
    /\ ~KeyIsFree(req[w].key)
    /\ Finish(w)
    /\ UNCHANGED <<sims, next_val, proposals, crossed>>

(* clone, and the reading half of a proposal's creation *)

\* The columns; the child tables follow one statement at a time.
Load(w, s, op, pc) ==
    Open(w, [Idle EXCEPT !.op = op, !.pc = pc, !.tenant = sims[s].tenant,
                         !.sim = s, !.terms = sims[s].terms,
                         !.loaded = <<sims[s].status, sims[s].terms>>])

Clone(w, s) ==
    /\ Room
    /\ Load(w, s, "clone", "read")
    /\ late' = late \cup (IF s \in crossed THEN {w} ELSE {})
    /\ UNCHANGED <<sims, next_val, proposals>>

Propose(w, s) ==
    /\ sims[s].status = "confirmado"
    /\ sims[s].linked
    /\ proposals[s] = {}
    /\ Load(w, s, "propose", "read")
    /\ UNCHANGED <<sims, next_val, proposals, late>>

ReadTable(w) ==
    /\ req[w].pc = "read"
    /\ LET n == Tables[req[w].table]
           last == req[w].table = Len(Tables)
       IN  req' = [req EXCEPT
               ![w].child[n] = sims[req[w].sim].child[n],
               ![w].table = @ + 1,
               ![w].pc = IF ~last THEN "read"
                         ELSE IF req[w].op = "clone" THEN "code" ELSE "flush"]
    /\ UNCHANGED <<sims, next_val, proposals, late, crossed>>

\* The insert of the proposal; the second one of a simulation is refused.
InsertProposal(w) ==
    /\ At(w, "propose", "flush")
    /\ proposals' = [proposals EXCEPT ![req[w].sim] =
           IF @ = {} THEN {[terms |-> req[w].terms, child |-> req[w].child]}
           ELSE @]
    /\ Finish(w)
    /\ UNCHANGED <<sims, next_val, crossed>>

(* update *)

Update(w, s, p) ==
    /\ sims[s].status = "rascunho"
    /\ Open(w, [Idle EXCEPT !.op = "update", !.pc = "delete",
                            !.tenant = sims[s].tenant, !.sim = s, !.terms = p,
                            !.loaded = <<sims[s].status, sims[s].terms>>])
    /\ UNCHANGED <<sims, next_val, proposals, late>>

\* Defect: the order of the deletes follows the payload.
StatementByPayload(w) ==
    IF Fills[req[w].terms] = {} THEN Tables[4 - req[w].table]
    ELSE Tables[req[w].table]

\* The table whose rows an edit deletes next.
Statement(w) == Tables[req[w].table]

\* A DELETE of one child table begins: it is bound to the rows it sees now.
DeleteBegins(w) ==
    /\ req[w].pc = "delete"
    /\ req' = [req EXCEPT ![w].seen = sims[req[w].sim].child[Statement(w)],
                          ![w].pc = "wait"]
    /\ UNCHANGED <<sims, next_val, proposals, late, crossed>>

\* Another session has deleted one of those rows and has not ended.
RowsHeld(w) ==
    \E v \in Workers \ {w}:
        /\ req[v].op = "update" /\ req[v].sim = req[w].sim
        /\ req[v].child[Statement(w)] \cap req[w].seen # {}

DeleteEnds(w) ==
    /\ req[w].pc = "wait"
    /\ ~RowsHeld(w)
    /\ req' = [req EXCEPT
           ![w].child[Statement(w)] = req[w].seen,
           ![w].table = @ + 1,
           ![w].seen = {},
           ![w].pc = IF req[w].table = Len(Tables) THEN "flush" ELSE "delete"]
    /\ UNCHANGED <<sims, next_val, proposals, late, crossed>>

\* The others' DELETEs that wait pass over the rows this commit has removed.
PassOver(w) ==
    [v \in Workers |->
        IF v = w THEN Idle
        ELSE IF req[v].pc = "wait" /\ req[v].sim = req[w].sim
        THEN [req[v] EXCEPT !.seen = @ \ req[w].child[Statement(v)]]
        ELSE req[v]]

\* The others that have read some of what this commit replaces.
Overtaken(w) ==
    {v \in Workers \ {w}:
        /\ req[v].sim = req[w].sim
        /\ req[v].op = "update" \/ (req[v].op = "clone" /\ req[v].pc = "read")}

\* Defect: the schedule is that of the simulation as it was loaded.
NewRowsAsLoaded(w) == Computed(w, req[w].loaded[2])

\* The child rows of an edit's payload.
NewRows(w) == Computed(w, req[w].terms)

\* The columns that differ from what was loaded, the new child rows, commit.
UpdateCommits(w) ==
    /\ At(w, "update", "flush")
    /\ LET s == req[w].sim
           p == req[w].terms
       IN  /\ sims' = [sims EXCEPT
                  ![s].terms = IF p # req[w].loaded[2] THEN p ELSE @,
                  ![s].child = [n \in Names |->
                      (@[n] \ req[w].child[n]) \cup NewRows(w)[n]]]
           /\ crossed' = crossed \cup (IF w \in late THEN {s} ELSE {})
    /\ req' = PassOver(w)
    /\ late' = (late \cup Overtaken(w)) \ {w}
    /\ UNCHANGED <<next_val, proposals>>

(* confirm and archive *)

\* Defect: whatever is there can be confirmed.
ConfirmAnything(w, s) ==
    /\ Load(w, s, "confirm", "flush")
    /\ UNCHANGED <<sims, next_val, proposals, late>>

Confirm(w, s) ==
    /\ sims[s].status = "rascunho"
    /\ Load(w, s, "confirm", "flush")
    /\ UNCHANGED <<sims, next_val, proposals, late>>

ConfirmCommits(w) ==
    /\ At(w, "confirm", "flush")
    /\ sims' = [sims EXCEPT ![req[w].sim].status = "confirmado"]
    /\ Finish(w)
    /\ UNCHANGED <<next_val, proposals, crossed>>

Archive(w, s) ==
    /\ Load(w, s, "archive", "flush")
    /\ UNCHANGED <<sims, next_val, proposals, late>>

\* The status column is not written when it was loaded as archived.
ArchiveCommits(w) ==
    /\ At(w, "archive", "flush")
    /\ sims' = [sims EXCEPT ![req[w].sim].status =
                    IF req[w].loaded[1] # "arquivado" THEN "arquivado" ELSE @]
    /\ Finish(w)
    /\ UNCHANGED <<next_val, proposals, crossed>>

-----------------------------------------------------------------------------
Begin(w) ==
    \/ \E t \in Tenants, k \in Keys \cup {NoKey}, p \in Terms: Create(w, t, k, p)
    \/ \E s \in DOMAIN sims:
           \/ Clone(w, s)
           \/ Propose(w, s)
           \/ \E p \in Terms: Update(w, s, p)
           \/ Confirm(w, s)
           \/ Archive(w, s)

\* What the service does on its own once the request is in.
Serve(w) ==
    \/ TakeCode(w) \/ Insert(w) \/ InsertRefused(w)
    \/ ReadTable(w) \/ InsertProposal(w)
    \/ DeleteBegins(w) \/ DeleteEnds(w) \/ UpdateCommits(w)
    \/ ConfirmCommits(w) \/ ArchiveCommits(w)

Next == \E w \in Workers: Begin(w) \/ Serve(w) \/ Abort(w)

Spec == Init /\ [][Next]_vars

-----------------------------------------------------------------------------
\* The shape of the state.
TypeOK ==
    /\ sims \in Seq(Simulation) /\ Len(sims) <= MaxSims
    /\ next_val \in [Tenants -> Nat \ {0}]
    /\ proposals \in [1..MaxSims -> SUBSET Snapshot]
    /\ req \in [Workers -> Request]
    /\ late \subseteq Workers /\ crossed \subseteq Nat

\* A tenant's codes number its simulations in the order they were committed,
\* with none skipped by a request that failed and none given twice.
CodesFollowCommits ==
    \A s \in DOMAIN sims:
        sims[s].codigo = Cardinality({r \in 1..s: sims[r].tenant = sims[s].tenant})

\* Two retries of one create that overlap leave one simulation.
KeyedOnce ==
    \A s, r \in DOMAIN sims:
        sims[s].key # NoKey /\ sims[s].key = sims[r].key => s = r

\* What a proposal quotes is what its simulation says, columns and schedule,
\* from then on, whatever edits, confirmations and clones are in flight.
ProposalQuotesSimulation ==
    \A s \in 1..MaxSims: \A q \in proposals[s]:
        /\ s \in DOMAIN sims
        /\ q.terms = sims[s].terms /\ q.child = sims[s].child
        /\ {b.terms: b \in q.child["rows"]} = {q.terms}

\* An edit replaces the whole of a draft: its schedule is one, and it is the
\* schedule of its columns.
FullReplace ==
    \A s \in DOMAIN sims:
        /\ Cardinality(sims[s].child["rows"]) = 1
        /\ \A b \in sims[s].child["rows"]: b.terms = sims[s].terms

\* The same, of the fees and the extras too, until an edit or a clone has
\* written what it read while another edit committed: nothing else that the
\* sessions do leaves a simulation with rows that are not those of its columns.
ReplacedWhole ==
    \A s \in DOMAIN sims \ crossed:
        \E w \in Workers: sims[s].child = Computed(w, sims[s].terms)

\* The sessions never all wait on each other, for a counter or for child
\* rows: of those that are open one can go on.
SomeoneGoesOn ==
    (\E w \in Workers: req[w].op # "idle") =>
        \E w \in Workers:
            /\ req[w].op # "idle"
            /\ ~(req[w].op \in {"create", "clone"} /\ req[w].pc = "code" /\ CounterHeld(w))
            /\ ~(req[w].pc = "wait" /\ RowsHeld(w))

\* What the book's variables are: the table, column by column, and the
\* requests that may change a simulation or quote it and have not ended.
Rows == [s \in DOMAIN sims |->
           [tenant |-> sims[s].tenant, codigo |-> sims[s].codigo,
            linked |-> sims[s].linked]]
Statuses == [s \in DOMAIN sims |-> sims[s].status]
Contents == [s \in DOMAIN sims |->
               [terms |-> sims[s].terms, child |-> sims[s].child]]
Asks == {"update", "confirm", "propose"}
Asked == {<<req[w].op, req[w].sim>> : w \in {v \in Workers: req[v].op \in Asks}}

Book == INSTANCE SimulationBook WITH
    Slots <- 1..MaxSims, rows <- Rows, status <- Statuses,
    content <- Contents, quotes <- proposals, asked <- Asked

\* Reads in several statements, counters and stale status checks implement the
\* book: in particular a proposal quotes all of what its simulation says at
\* the proposal's commit, and an archived simulation is brought back only by
\* a confirmation that was asked for while it was a draft.
ImplementsBook == Book!Spec
=============================================================================
