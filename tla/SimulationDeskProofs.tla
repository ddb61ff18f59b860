------------------------ MODULE SimulationDeskProofs ------------------------
(***************************************************************************)
(* Theorems about SimulationDesk for any number of tenants, sessions and   *)
(* payloads.  No draft has a client (a draft is a clone), only drafts are  *)
(* edited, and only simulations with a client are quoted: so nothing a     *)
(* proposal quotes is ever edited, however stale what the edit loaded is.  *)
(* A session's position says which locks it holds, which is why codes are  *)
(* drawn one at a time and why the sessions never all wait.                *)
(***************************************************************************)
EXTENDS SimulationDesk, TLAPS, SequenceTheorems, FiniteSetTheorems

\* Where a session can be in its operation, and what it then addresses.
WellFormed(r, known) ==
    /\ r.op = "idle" => r.pc = "code"
    /\ r.op = "create" => r.pc \in {"code", "insert"}
    /\ r.op = "clone" => r.pc \in {"read", "code", "insert"}
    /\ r.op = "propose" => r.pc \in {"read", "flush"}
    /\ r.op = "update" => r.pc \in {"delete", "wait", "flush"}
    /\ r.op \in {"confirm", "archive"} => r.pc = "flush"
    /\ r.pc \in {"read", "delete", "wait"} => r.table \in 1..3
    /\ r.op \notin {"idle", "create"} => r.sim \in known
    /\ r.codigo > 0 <=> r.pc = "insert"

Positions == \A w \in Workers: WellFormed(req[w], DOMAIN sims)

\* The simulations of tenant t among the first n.
Of(t, n) == {s \in 1..n: sims[s].tenant = t}

\* The counter stands one past the simulations of its tenant.
Counted == \A t \in Tenants: next_val[t] = Cardinality(Of(t, Len(sims))) + 1

\* A code that is drawn is the counter's, and one session holds it.
Held ==
    /\ \A w \in Workers:
           req[w].codigo > 0 => req[w].codigo = next_val[req[w].tenant]
    /\ \A w, v \in Workers:
           req[w].codigo > 0 /\ req[v].codigo > 0
               /\ req[w].tenant = req[v].tenant => w = v

Coherent(terms, child) == {b.terms: b \in child["rows"]} = {terms}

\* A simulation with a client is no draft, and its schedule is its own.
LinkedAreFirm ==
    \A s \in DOMAIN sims: sims[s].linked =>
        /\ sims[s].status # "rascunho"
        /\ Coherent(sims[s].terms, sims[s].child)

\* What a session carries to its commit.
CarriedBy(r) ==
    /\ r.op = "create" => Coherent(r.terms, r.child)
    /\ r.op = "update" => ~sims[r.sim].linked
    /\ r.op = "propose" =>
         /\ sims[r.sim].linked
         /\ r.terms = sims[r.sim].terms
         /\ r.pc = "flush" => r.table = 4
         /\ \A i \in 1..3: i < r.table =>
                r.child[Tables[i]] = sims[r.sim].child[Tables[i]]

Carried == \A w \in Workers: CarriedBy(req[w])

\* A quoted simulation has a client.
QuotedAreLinked ==
    \A s \in 1..MaxSims: \A q \in proposals[s]:
        s \in DOMAIN sims /\ sims[s].linked

\* An edit holds rows of the tables its statements have passed, no others.
LocksFollowTables ==
    \A w \in Workers: \A i \in 1..3:
        req[w].op = "update" /\ i >= req[w].table
            => req[w].child[Tables[i]] = {}

\* The contents of a simulation are what one session computed for its terms.
Whole(terms, child) == \E v \in Workers: child = Computed(v, terms)

\* What a session carries that no edit has overtaken: an edit has loaded, and
\* is going to delete, what its simulation still has; a clone has read it.
FreshBy(r) ==
    /\ r.op = "create" \/ (r.op = "clone" /\ r.pc # "read") => Whole(r.terms, r.child)
    /\ r.op = "clone" /\ r.pc = "read" =>
         /\ r.sim \notin crossed
         /\ r.terms = sims[r.sim].terms
         /\ \A i \in 1..3: i < r.table =>
                r.child[Tables[i]] = sims[r.sim].child[Tables[i]]
    /\ r.op = "update" =>
         /\ r.loaded[2] = sims[r.sim].terms
         /\ r.pc = "wait" => r.seen = sims[r.sim].child[Tables[r.table]]
         /\ r.pc = "flush" => r.table = 4
         /\ \A i \in 1..3: i < r.table =>
                r.child[Tables[i]] = sims[r.sim].child[Tables[i]]

Fresh == \A w \in Workers \ late: FreshBy(req[w])

IInv ==
    /\ TypeOK /\ Positions
    /\ Counted /\ Held /\ CodesFollowCommits
    /\ KeyedOnce
    /\ LinkedAreFirm /\ Carried /\ QuotedAreLinked /\ ProposalQuotesSimulation
    /\ LocksFollowTables
    /\ Fresh /\ ReplacedWhole

-----------------------------------------------------------------------------
\* A closed session is a request.
LEMMA IdleType == Idle \in Request
<1>1. (CHOOSE t \in Tenants: TRUE) \in Tenants /\ (CHOOSE t \in Terms: TRUE) \in Terms
    BY DeskAssumption
<1>2. Nothing \in Children
    BY DEF Nothing, Children
<1> QED
    BY <1>1, <1>2 DEF Idle, Request, Status

\* What a payload computes is rows of the child tables.
LEMMA ComputedType ==
    ASSUME NEW w \in Workers, NEW p \in Terms
    PROVE  Computed(w, p) \in Children
<1>1. [by |-> w, terms |-> p] \in Batch
    BY DEF Batch
<1> QED
    BY <1>1 DEF Computed, Children

\* What TypeOK says of one session and one simulation.
LEMMA Types ==
    ASSUME TypeOK
    PROVE  /\ Len(sims) \in Nat /\ DOMAIN sims = 1..Len(sims)
           /\ \A s \in DOMAIN sims: sims[s] \in Simulation
           /\ \A w \in Workers: req[w] \in Request
           /\ \A t \in Tenants: next_val[t] \in Nat \ {0}
<1> USE DEF TypeOK
<1>1. Len(sims) \in Nat /\ DOMAIN sims = 1..Len(sims)
    BY LenProperties
<1>2. \A s \in DOMAIN sims: sims[s] \in Simulation
    BY <1>1, ElementOfSeq
<1> QED
    BY <1>1, <1>2

\* One simulation of the table is written.
LEMMA Overwrite ==
    ASSUME TypeOK, NEW s \in DOMAIN sims, NEW e \in Simulation,
           sims' = [sims EXCEPT ![s] = e]
    PROVE  /\ sims' \in Seq(Simulation)
           /\ Len(sims') = Len(sims) /\ DOMAIN sims' = DOMAIN sims
           /\ \A r \in DOMAIN sims: sims'[r] = IF r = s THEN e ELSE sims[r]
<1>1. s \in 1..Len(sims) /\ sims \in Seq(Simulation)
    BY Types DEF TypeOK
<1>2. sims' \in Seq(Simulation) /\ Len(sims') = Len(sims)
    BY <1>1, ExceptSeq
<1> QED
    BY <1>1, <1>2

-----------------------------------------------------------------------------
\* The invariant holds initially.
LEMMA InitIInv == Init => IInv
<1> SUFFICES ASSUME Init PROVE IInv
    OBVIOUS
<1> USE DEF Init
<1>1. sims = <<>> /\ Len(sims) = 0 /\ DOMAIN sims = {}
    OBVIOUS
<1>2. TypeOK
    <2>1. sims \in Seq(Simulation) /\ Len(sims) <= MaxSims
        BY <1>1, DeskAssumption
    <2>2. req \in [Workers -> Request]
        BY IdleType
    <2> QED
        BY <2>1, <2>2 DEF TypeOK
<1>3. \A w \in Workers: req[w].op = "idle" /\ req[w].pc = "code" /\ req[w].codigo = 0
    BY DEF Idle
<1>4. Positions
    BY <1>3 DEF Positions, WellFormed
<1>5. Counted
    <2> SUFFICES ASSUME NEW t \in Tenants PROVE next_val[t] = Cardinality(Of(t, Len(sims))) + 1
        BY DEF Counted
    <2>1. Of(t, Len(sims)) = {}
        BY <1>1 DEF Of
    <2>2. Cardinality(Of(t, Len(sims))) = 0
        BY <2>1, FS_EmptySet
    <2>3. next_val[t] = 1
        OBVIOUS
    <2> QED
        BY <2>2, <2>3
<1>6. Held /\ CodesFollowCommits /\ KeyedOnce
    BY <1>1, <1>3 DEF Held, CodesFollowCommits, KeyedOnce
<1>7. LinkedAreFirm /\ Carried /\ LocksFollowTables
    BY <1>1, <1>3 DEF LinkedAreFirm, Carried, CarriedBy, LocksFollowTables
<1>8. QuotedAreLinked /\ ProposalQuotesSimulation
    BY DEF QuotedAreLinked, ProposalQuotesSimulation
<1>9. Fresh /\ ReplacedWhole
    BY <1>1, <1>3 DEF Fresh, FreshBy, ReplacedWhole
<1> QED
    BY <1>2, <1>4, <1>5, <1>6, <1>7, <1>8, <1>9 DEF IInv

-----------------------------------------------------------------------------
\* What a commit of an edit, a confirmation or an archival changes: never the
\* tenant, the code, the key or the client, never a status back to draft, and
\* the contents only of the simulation that an edit addresses.
Rewrites(w) == UpdateCommits(w) \/ ConfirmCommits(w) \/ ArchiveCommits(w)

LEMMA RewriteEffect ==
    ASSUME TypeOK, Positions, NEW w \in Workers, Rewrites(w)
    PROVE  /\ sims' \in Seq(Simulation)
           /\ Len(sims') = Len(sims) /\ DOMAIN sims' = DOMAIN sims
           /\ req[w].sim \in DOMAIN sims
           /\ \A r \in DOMAIN sims:
                /\ sims'[r].tenant = sims[r].tenant
                /\ sims'[r].codigo = sims[r].codigo
                /\ sims'[r].linked = sims[r].linked
                /\ sims'[r].key = sims[r].key
                /\ sims'[r].status = sims[r].status \/ sims'[r].status # "rascunho"
                /\ req[w].op # "update" \/ r # req[w].sim =>
                     sims'[r].terms = sims[r].terms /\ sims'[r].child = sims[r].child
<1> DEFINE s == req[w].sim
<1>1. req[w] \in Request /\ req[w].op \in {"update", "confirm", "archive"}
    BY Types DEF Rewrites, UpdateCommits, ConfirmCommits, ArchiveCommits, At
<1>2. s \in DOMAIN sims
    BY <1>1 DEF Positions, WellFormed
<1>3. sims[s] \in Simulation
    BY <1>2, Types
<1>4. CASE UpdateCommits(w)
    <2> DEFINE t == IF req[w].terms # req[w].loaded[2] THEN req[w].terms ELSE sims[s].terms
               c == [n \in Names |-> (sims[s].child[n] \ req[w].child[n])
                                         \cup Computed(w, req[w].terms)[n]]
               e == [sims[s] EXCEPT !.terms = t, !.child = c]
    <2>1. t \in Terms
        BY <1>1, <1>3 DEF Request, Simulation
    <2>2. c \in Children
        <3>1. Computed(w, req[w].terms) \in Children /\ sims[s].child \in Children
            BY <1>1, <1>3, ComputedType DEF Request, Simulation
        <3> QED
            BY <3>1 DEF Children
    <2>3. e \in Simulation
        <3> HIDE DEF t, c
        <3> QED
            BY <1>3, <2>1, <2>2 DEF Simulation
    <2>4. sims' = [sims EXCEPT ![s] = e]
        BY <1>4, <1>2 DEF UpdateCommits, NewRows
    <2>5. e.tenant = sims[s].tenant /\ e.codigo = sims[s].codigo /\ e.linked = sims[s].linked
          /\ e.key = sims[s].key /\ e.status = sims[s].status
        <3> HIDE DEF t, c
        <3> QED
            BY <1>3 DEF Simulation
    <2>6. req[w].op = "update"
        BY <1>4 DEF UpdateCommits, At
    <2> HIDE DEF e
    <2>7. /\ sims' \in Seq(Simulation)
          /\ Len(sims') = Len(sims) /\ DOMAIN sims' = DOMAIN sims
          /\ \A r \in DOMAIN sims: sims'[r] = IF r = s THEN e ELSE sims[r]
        BY <1>2, <2>3, <2>4, Overwrite
    <2> QED
        BY <1>2, <2>5, <2>6, <2>7
<1>5. CASE ConfirmCommits(w) \/ ArchiveCommits(w)
    <2> DEFINE st == sims'[s].status
    <2>1. PICK x \in Status: /\ sims' = [sims EXCEPT ![s] = [sims[s] EXCEPT !.status = x]]
                             /\ x = sims[s].status \/ x # "rascunho"
        <3>1. CASE ConfirmCommits(w)
            <4>1. sims' = [sims EXCEPT ![s] = [sims[s] EXCEPT !.status = "confirmado"]]
                BY <1>2, <3>1 DEF ConfirmCommits
            <4> QED
                BY <4>1 DEF Status
        <3>2. CASE ArchiveCommits(w)
            <4> DEFINE x == IF req[w].loaded[1] # "arquivado" THEN "arquivado" ELSE sims[s].status
            <4>1. sims' = [sims EXCEPT ![s] = [sims[s] EXCEPT !.status = x]]
                BY <1>2, <3>2 DEF ArchiveCommits
            <4>2. x \in Status
                BY <1>3 DEF Status, Simulation
            <4>3. x = sims[s].status \/ x # "rascunho"
                OBVIOUS
            <4> QED
                BY <4>1, <4>2, <4>3
        <3> QED
            BY <1>5, <3>1, <3>2
    <2> DEFINE e == [sims[s] EXCEPT !.status = x]
    <2>2. e \in Simulation
        BY <1>3 DEF Simulation
    <2>3. e.tenant = sims[s].tenant /\ e.codigo = sims[s].codigo /\ e.linked = sims[s].linked
          /\ e.key = sims[s].key /\ e.status = x /\ e.terms = sims[s].terms
          /\ e.child = sims[s].child
        BY <1>3 DEF Simulation
    <2>4. sims' = [sims EXCEPT ![s] = e]
        BY <2>1
    <2> HIDE DEF e
    <2>5. /\ sims' \in Seq(Simulation)
          /\ Len(sims') = Len(sims) /\ DOMAIN sims' = DOMAIN sims
          /\ \A r \in DOMAIN sims: sims'[r] = IF r = s THEN e ELSE sims[r]
        BY <1>2, <2>2, <2>4, Overwrite
    <2> QED
        BY <1>2, <2>1, <2>3, <2>5
<1> QED
    BY <1>4, <1>5 DEF Rewrites

\* What the commit of a create or a clone changes: one simulation is added.
LEMMA InsertEffect ==
    ASSUME TypeOK, Positions, NEW w \in Workers, Insert(w)
    PROVE  LET n == Len(sims) + 1
               e == [tenant |-> req[w].tenant, codigo |-> req[w].codigo,
                     status |-> StatusOf(req[w].op), linked |-> Linked(req[w].op),
                     key |-> req[w].key, terms |-> req[w].terms, child |-> req[w].child]
           IN  /\ sims' \in Seq(Simulation)
               /\ Len(sims') = n /\ DOMAIN sims' = 1..n /\ n <= MaxSims
               /\ sims'[n] = e
               /\ \A r \in DOMAIN sims: sims'[r] = sims[r]
<1> DEFINE n == Len(sims) + 1
           e == [tenant |-> req[w].tenant, codigo |-> req[w].codigo,
                 status |-> StatusOf(req[w].op), linked |-> Linked(req[w].op),
                 key |-> req[w].key, terms |-> req[w].terms, child |-> req[w].child]
<1>1. req[w] \in Request
    BY Types
<1>2. e \in Simulation
    BY <1>1 DEF Request, Simulation, StatusOf, Linked, Status
<1>3. sims' = Append(sims, e) /\ Len(sims) < MaxSims
    BY DEF Insert, Room
<1>4. sims \in Seq(Simulation) /\ DOMAIN sims = 1..Len(sims) /\ Len(sims) \in Nat
    BY Types DEF TypeOK
<1> HIDE DEF e
<1>5. sims' \in Seq(Simulation) /\ Len(sims') = n
    BY <1>2, <1>3, <1>4
<1>6. DOMAIN sims' = 1..n
    BY <1>5, LenProperties
<1>7. sims'[n] = e /\ \A r \in 1..Len(sims): sims'[r] = sims[r]
    BY <1>2, <1>3, <1>4
<1>8. n <= MaxSims
    BY <1>3, <1>4, DeskAssumption
<1> QED
    BY <1>4, <1>5, <1>6, <1>7, <1>8 DEF e

-----------------------------------------------------------------------------
\* A session that takes a well-formed next position keeps the shape of req.
LEMMA Moves ==
    ASSUME TypeOK, Positions, NEW w \in Workers, NEW r \in Request,
           WellFormed(r, DOMAIN sims), req' = [req EXCEPT ![w] = r],
           DOMAIN sims \subseteq DOMAIN sims'
    PROVE  req' \in [Workers -> Request] /\ Positions'
<1>1. req \in [Workers -> Request]
    BY DEF TypeOK
<1>2. \A v \in Workers: req'[v] = IF v = w THEN r ELSE req[v]
    BY <1>1
<1>3. \A v \in Workers: WellFormed(req'[v], DOMAIN sims)
    BY <1>2 DEF Positions
<1>4. \A v \in Workers: WellFormed(req'[v], DOMAIN sims')
    BY <1>3 DEF WellFormed
<1> QED
    BY <1>1, <1>2, <1>4 DEF Positions

\* A closed session is well formed, whatever is in the table.
LEMMA IdleWellFormed == \A known: WellFormed(Idle, known)
BY DEF Idle, WellFormed

\* A request that opens.
LEMMA BeginMoves ==
    ASSUME TypeOK, Positions, NEW w \in Workers, Begin(w)
    PROVE  req' \in [Workers -> Request] /\ Positions' /\ sims' = sims
           /\ next_val' = next_val /\ proposals' = proposals
<1> USE IdleType
<1>1. ASSUME NEW t \in Tenants, NEW k \in Keys \cup {NoKey}, NEW p \in Terms, Create(w, t, k, p)
      PROVE  req' \in [Workers -> Request] /\ Positions' /\ sims' = sims
             /\ next_val' = next_val /\ proposals' = proposals
    <2> DEFINE r == [Idle EXCEPT !.op = "create", !.tenant = t, !.key = k,
                                 !.terms = p, !.child = Computed(w, p)]
    <2>1. r \in Request
        BY ComputedType DEF Request
    <2>2. WellFormed(r, DOMAIN sims)
        BY ComputedType DEF Idle, WellFormed
    <2>3. req' = [req EXCEPT ![w] = r] /\ UNCHANGED <<sims, next_val, proposals>>
        BY <1>1 DEF Create, Open
    <2> HIDE DEF r
    <2> QED
        BY <2>1, <2>2, <2>3, Moves
<1>2. ASSUME NEW s \in DOMAIN sims, NEW op \in {"clone", "propose", "confirm", "archive"},
             NEW pc \in {"read", "flush"}, Load(w, s, op, pc),
             op \in {"clone", "propose"} => pc = "read",
             op \in {"confirm", "archive"} => pc = "flush",
             UNCHANGED <<sims, next_val, proposals>>
      PROVE  req' \in [Workers -> Request] /\ Positions' /\ sims' = sims
             /\ next_val' = next_val /\ proposals' = proposals
    <2> DEFINE r == [Idle EXCEPT !.op = op, !.pc = pc, !.tenant = sims[s].tenant,
                                 !.sim = s, !.terms = sims[s].terms,
                                 !.loaded = <<sims[s].status, sims[s].terms>>]
    <2>1. sims[s] \in Simulation /\ s \in Nat
        BY Types
    <2>2. <<sims[s].status, sims[s].terms>> \in Status \X Terms
        BY <2>1 DEF Simulation
    <2>3. r \in Request
        BY <2>1, <2>2 DEF Request, Simulation
    <2>4. WellFormed(r, DOMAIN sims)
        BY <1>2 DEF Idle, WellFormed
    <2>5. req' = [req EXCEPT ![w] = r]
        BY <1>2 DEF Load, Open
    <2> HIDE DEF r
    <2> QED
        BY <1>2, <2>3, <2>4, <2>5, Moves
<1>3. ASSUME NEW s \in DOMAIN sims, NEW p \in Terms, Update(w, s, p)
      PROVE  req' \in [Workers -> Request] /\ Positions' /\ sims' = sims
             /\ next_val' = next_val /\ proposals' = proposals
    <2> DEFINE r == [Idle EXCEPT !.op = "update", !.pc = "delete",
                                 !.tenant = sims[s].tenant, !.sim = s, !.terms = p,
                                 !.loaded = <<sims[s].status, sims[s].terms>>]
    <2>1. sims[s] \in Simulation /\ s \in Nat
        BY Types
    <2>2. <<sims[s].status, sims[s].terms>> \in Status \X Terms
        BY <2>1 DEF Simulation
    <2>3. r \in Request
        BY <2>1, <2>2 DEF Request, Simulation
    <2>4. WellFormed(r, DOMAIN sims)
        BY <1>3 DEF Idle, WellFormed
    <2>5. req' = [req EXCEPT ![w] = r] /\ UNCHANGED <<sims, next_val, proposals>>
        BY <1>3 DEF Update, Open
    <2> HIDE DEF r
    <2> QED
        BY <2>3, <2>4, <2>5, Moves
<1>4. ASSUME NEW s \in DOMAIN sims,
             Clone(w, s) \/ Propose(w, s) \/ Confirm(w, s) \/ Archive(w, s)
      PROVE  req' \in [Workers -> Request] /\ Positions' /\ sims' = sims
             /\ next_val' = next_val /\ proposals' = proposals
    BY <1>2, <1>4 DEF Clone, Propose, Confirm, Archive
<1> QED
    BY <1>1, <1>3, <1>4 DEF Begin

\* What a request that opens holds.
LEMMA Opened ==
    ASSUME TypeOK, NEW w \in Workers, Begin(w)
    PROVE  /\ \A v \in Workers \ {w}: req'[v] = req[v]
           /\ req'[w].codigo = 0 /\ req'[w].table = 1
           /\ \/ /\ req'[w].op = "create"
                 /\ \E p \in Terms: req'[w].terms = p /\ req'[w].child = Computed(w, p)
              \/ req'[w].op \in {"clone", "confirm", "archive"}
              \/ \E s \in DOMAIN sims:
                   /\ req'[w].op = "propose" /\ req'[w].pc = "read" /\ req'[w].sim = s
                   /\ sims[s].linked /\ req'[w].terms = sims[s].terms
              \/ \E s \in DOMAIN sims:
                   /\ req'[w].op = "update" /\ req'[w].sim = s
                   /\ sims[s].status = "rascunho" /\ req'[w].child = Nothing
<1>1. req \in [Workers -> Request] /\ Idle \in Request
    BY IdleType DEF TypeOK
<1>2. Idle.codigo = 0 /\ Idle.table = 1 /\ Idle.child = Nothing
    BY DEF Idle
<1>3. ASSUME NEW t \in Tenants, NEW k \in Keys \cup {NoKey}, NEW p \in Terms, Create(w, t, k, p)
      PROVE  /\ \A v \in Workers \ {w}: req'[v] = req[v]
             /\ req'[w].codigo = 0 /\ req'[w].table = 1 /\ req'[w].op = "create"
             /\ req'[w].terms = p /\ req'[w].child = Computed(w, p)
    BY <1>1, <1>2, <1>3 DEF Create, Open, Request
<1>4. ASSUME NEW s \in DOMAIN sims, NEW op \in {"clone", "propose", "confirm", "archive"},
             NEW pc \in {"read", "flush"}, Load(w, s, op, pc)
      PROVE  /\ \A v \in Workers \ {w}: req'[v] = req[v]
             /\ req'[w].codigo = 0 /\ req'[w].table = 1 /\ req'[w].op = op
             /\ req'[w].pc = pc /\ req'[w].sim = s /\ req'[w].terms = sims[s].terms
    BY <1>1, <1>2, <1>4 DEF Load, Open, Request
<1>5. ASSUME NEW s \in DOMAIN sims, NEW p \in Terms, Update(w, s, p)
      PROVE  /\ \A v \in Workers \ {w}: req'[v] = req[v]
             /\ req'[w].codigo = 0 /\ req'[w].table = 1 /\ req'[w].op = "update"
             /\ req'[w].sim = s /\ sims[s].status = "rascunho" /\ req'[w].child = Nothing
    BY <1>1, <1>2, <1>5 DEF Update, Open, Request
<1>6. ASSUME NEW s \in DOMAIN sims, Clone(w, s) \/ Confirm(w, s) \/ Archive(w, s)
      PROVE  /\ \A v \in Workers \ {w}: req'[v] = req[v]
             /\ req'[w].codigo = 0 /\ req'[w].table = 1
             /\ req'[w].op \in {"clone", "confirm", "archive"}
    BY <1>4, <1>6 DEF Clone, Confirm, Archive
<1>7. ASSUME NEW s \in DOMAIN sims, Propose(w, s)
      PROVE  /\ \A v \in Workers \ {w}: req'[v] = req[v]
             /\ req'[w].codigo = 0 /\ req'[w].table = 1
             /\ req'[w].op = "propose" /\ req'[w].pc = "read" /\ req'[w].sim = s
             /\ sims[s].linked /\ req'[w].terms = sims[s].terms
    BY <1>4, <1>7 DEF Propose
<1>8. CASE \E t \in Tenants, k \in Keys \cup {NoKey}, p \in Terms: Create(w, t, k, p)
    BY <1>3, <1>8
<1>9. CASE \E s \in DOMAIN sims: Clone(w, s) \/ Confirm(w, s) \/ Archive(w, s)
    BY <1>6, <1>9
<1>10. CASE \E s \in DOMAIN sims: Propose(w, s)
    BY <1>7, <1>10
<1>11. CASE \E s \in DOMAIN sims, p \in Terms: Update(w, s, p)
    BY <1>5, <1>11
<1> QED
    BY <1>8, <1>9, <1>10, <1>11 DEF Begin

\* The tables are read and written in the order of their names.
LEMMA TableNames ==
    /\ Len(Tables) = 3
    /\ \A i \in 1..3: Tables[i] \in Names
    /\ \A i, j \in 1..3: Tables[i] = Tables[j] => i = j
    /\ \A n \in Names: \E i \in 1..3: n = Tables[i]
BY DEF Tables, Names

\* A session inside its request: the code drawn, a table read, a DELETE begun
\* or ended.
Inside(w) == TakeCode(w) \/ ReadTable(w) \/ DeleteBegins(w) \/ DeleteEnds(w)

LEMMA InsideMoves ==
    ASSUME TypeOK, Positions, NEW w \in Workers, Inside(w)
    PROVE  req' \in [Workers -> Request] /\ Positions' /\ sims' = sims
           /\ next_val' = next_val /\ proposals' = proposals
<1>1. req[w] \in Request /\ WellFormed(req[w], DOMAIN sims) /\ req \in [Workers -> Request]
    BY Types DEF Positions, TypeOK
<1>2. CASE TakeCode(w)
    <2> DEFINE r == [req[w] EXCEPT !.codigo = next_val[req[w].tenant], !.pc = "insert"]
    <2>1. next_val[req[w].tenant] \in Nat \ {0}
        BY <1>1, Types DEF Request
    <2>2. r \in Request
        BY <1>1, <2>1 DEF Request
    <2>3. r.op = req[w].op /\ r.pc = "insert" /\ r.codigo > 0 /\ r.sim = req[w].sim
        BY <1>1, <2>1 DEF Request
    <2>4. WellFormed(r, DOMAIN sims)
        BY <1>1, <1>2, <2>3 DEF WellFormed, TakeCode
    <2>5. req' = [req EXCEPT ![w] = r] /\ UNCHANGED <<sims, next_val, proposals>>
        BY <1>1, <1>2 DEF TakeCode
    <2> HIDE DEF r
    <2> QED
        BY <2>2, <2>4, <2>5, Moves
<1>3. CASE ReadTable(w)
    <2> DEFINE n == Tables[req[w].table]
               c == [req[w].child EXCEPT ![n] = sims[req[w].sim].child[n]]
               pc == IF req[w].table # Len(Tables) THEN "read"
                     ELSE IF req[w].op = "clone" THEN "code" ELSE "flush"
               r == [req[w] EXCEPT !.child = c, !.table = req[w].table + 1, !.pc = pc]
    <2>1. req[w].table \in 1..3 /\ req[w].op \in {"clone", "propose"} /\ req[w].sim \in DOMAIN sims
        BY <1>1, <1>3 DEF ReadTable, WellFormed, Request
    <2>2. c \in Children
        <3>1. n \in Names /\ sims[req[w].sim] \in Simulation
            BY <2>1, TableNames, Types
        <3> QED
            BY <1>1, <3>1 DEF Children, Request, Simulation
    <2>3. pc \in {"read", "code", "flush"} /\ req[w].table + 1 \in 1..4
        BY <2>1
    <2>4. r \in Request
        <3> HIDE DEF c, pc
        <3> QED
            BY <1>1, <2>2, <2>3 DEF Request
    <2>5. r.op = req[w].op /\ r.pc = pc /\ r.table = req[w].table + 1
          /\ r.sim = req[w].sim /\ r.codigo = req[w].codigo
        <3> HIDE DEF c, pc
        <3> QED
            BY <1>1 DEF Request
    <2>6. WellFormed(r, DOMAIN sims)
        <3> HIDE DEF r
        <3>1. pc = "read" => req[w].table + 1 \in 1..3
            BY <2>1, TableNames
        <3>2. req[w].codigo > 0 <=> FALSE
            BY <1>1, <1>3 DEF WellFormed, ReadTable
        <3> QED
            BY <1>1, <2>1, <2>5, <3>1, <3>2 DEF WellFormed
    <2>7. req' = [req EXCEPT ![w] = r] /\ UNCHANGED <<sims, next_val, proposals>>
        BY <1>1, <1>3 DEF ReadTable
    <2> HIDE DEF r
    <2> QED
        BY <2>4, <2>6, <2>7, Moves
<1>4. CASE DeleteBegins(w)
    <2> DEFINE b == sims[req[w].sim].child[Statement(w)]
               r == [req[w] EXCEPT !.seen = b, !.pc = "wait"]
    <2>1. req[w].table \in 1..3 /\ req[w].op = "update" /\ req[w].sim \in DOMAIN sims
        BY <1>1, <1>4 DEF DeleteBegins, WellFormed, Request
    <2>2. b \in SUBSET Batch
        <3>1. Statement(w) \in Names /\ sims[req[w].sim] \in Simulation
            BY <2>1, TableNames, Types DEF Statement
        <3> QED
            BY <3>1 DEF Simulation, Children
    <2>3. r \in Request
        <3> HIDE DEF b
        <3> QED
            BY <1>1, <2>2 DEF Request
    <2>4. r.op = req[w].op /\ r.pc = "wait" /\ r.table = req[w].table
          /\ r.sim = req[w].sim /\ r.codigo = req[w].codigo
        <3> HIDE DEF b
        <3> QED
            BY <1>1 DEF Request
    <2>5. WellFormed(r, DOMAIN sims)
        <3> HIDE DEF r
        <3> QED
            BY <1>1, <1>4, <2>1, <2>4 DEF WellFormed, DeleteBegins
    <2>6. req' = [req EXCEPT ![w] = r] /\ UNCHANGED <<sims, next_val, proposals>>
        BY <1>1, <1>4 DEF DeleteBegins
    <2> HIDE DEF r
    <2> QED
        BY <2>3, <2>5, <2>6, Moves
<1>5. CASE DeleteEnds(w)
    <2> DEFINE c == [req[w].child EXCEPT ![Statement(w)] = req[w].seen]
               pc == IF req[w].table = Len(Tables) THEN "flush" ELSE "delete"
               r == [req[w] EXCEPT !.child = c, !.table = req[w].table + 1,
                                   !.seen = {}, !.pc = pc]
    <2>1. req[w].table \in 1..3 /\ req[w].op = "update" /\ req[w].sim \in DOMAIN sims
        BY <1>1, <1>5 DEF DeleteEnds, WellFormed, Request
    <2>2. c \in Children
        BY <1>1, <2>1, TableNames DEF Children, Request, Statement
    <2>3. pc \in {"flush", "delete"} /\ req[w].table + 1 \in 1..4
        BY <2>1
    <2>4. r \in Request
        <3> HIDE DEF c, pc
        <3> QED
            BY <1>1, <2>2, <2>3 DEF Request
    <2>5. r.op = req[w].op /\ r.pc = pc /\ r.table = req[w].table + 1
          /\ r.sim = req[w].sim /\ r.codigo = req[w].codigo
        <3> HIDE DEF c, pc
        <3> QED
            BY <1>1 DEF Request
    <2>6. WellFormed(r, DOMAIN sims)
        <3> HIDE DEF r
        <3>1. pc = "delete" => req[w].table + 1 \in 1..3
            BY <2>1, TableNames
        <3>2. req[w].codigo > 0 <=> FALSE
            BY <1>1, <1>5 DEF WellFormed, DeleteEnds
        <3> QED
            BY <1>1, <2>1, <2>3, <2>5, <3>1, <3>2 DEF WellFormed
    <2>7. req' = [req EXCEPT ![w] = r] /\ UNCHANGED <<sims, next_val, proposals>>
        BY <1>1, <1>5 DEF DeleteEnds
    <2> HIDE DEF r
    <2> QED
        BY <2>4, <2>6, <2>7, Moves
<1> QED
    BY <1>2, <1>3, <1>4, <1>5 DEF Inside

\* A request that ends: its session closes, and after the commit of an edit
\* the DELETEs that waited for it pass over what it removed.
Ends(w) == Abort(w) \/ Insert(w) \/ InsertRefused(w) \/ InsertProposal(w) \/ Rewrites(w)

LEMMA EndMoves ==
    ASSUME TypeOK, Positions, NEW w \in Workers, Ends(w)
    PROVE  /\ req' \in [Workers -> Request] /\ Positions'
           /\ DOMAIN sims \subseteq DOMAIN sims'
           /\ req'[w] = Idle
           /\ \A v \in Workers \ {w}: \E b \in SUBSET Batch:
                req'[v] = req[v] \/ req'[v] = [req[v] EXCEPT !.seen = b]
<1>1. req \in [Workers -> Request]
    BY DEF TypeOK
<1>2. DOMAIN sims \subseteq DOMAIN sims'
    <2>1. CASE Insert(w)
        <3>1. DOMAIN sims' = 1..(Len(sims) + 1)
            BY <2>1, InsertEffect
        <3> QED
            BY <3>1, Types
    <2>2. CASE Rewrites(w)
        BY <2>2, RewriteEffect
    <2>3. CASE Abort(w) \/ InsertRefused(w) \/ InsertProposal(w)
        BY <2>3 DEF Abort, InsertRefused, InsertProposal
    <2> QED
        BY <2>1, <2>2, <2>3 DEF Ends
<1>3. CASE Finish(w)
    <2>1. req' = [req EXCEPT ![w] = Idle]
        BY <1>3 DEF Finish
    <2>2. req' \in [Workers -> Request] /\ Positions'
        BY <1>2, <2>1, IdleType, IdleWellFormed, Moves
    <2> QED
        BY <1>1, <1>2, <2>1, <2>2
<1>4. CASE UpdateCommits(w)
    <2>1. req' = PassOver(w)
        BY <1>4 DEF UpdateCommits
    <2>2. req'[w] = Idle
        BY <2>1 DEF PassOver
    <2>3. ASSUME NEW v \in Workers \ {w}
          PROVE  \E b \in SUBSET Batch: req'[v] = req[v] \/ req'[v] = [req[v] EXCEPT !.seen = b]
        <3>1. req[v] \in Request
            BY <1>1
        <3>2. CASE req[v].pc = "wait" /\ req[v].sim = req[w].sim
            <4> DEFINE b == req[v].seen \ req[w].child[Statement(v)]
            <4>1. b \in SUBSET Batch
                BY <3>1 DEF Request
            <4>2. req'[v] = [req[v] EXCEPT !.seen = b]
                BY <2>1, <3>2 DEF PassOver
            <4> QED
                BY <4>1, <4>2
        <3>3. CASE ~(req[v].pc = "wait" /\ req[v].sim = req[w].sim)
            BY <2>1, <3>3 DEF PassOver
        <3> QED
            BY <3>2, <3>3
    <2>4. ASSUME NEW v \in Workers
          PROVE  req'[v] \in Request /\ WellFormed(req'[v], DOMAIN sims')
        <3>1. CASE v = w
            BY <2>2, <3>1, IdleType, IdleWellFormed
        <3>2. CASE v # w
            <4>1. PICK b \in SUBSET Batch: req'[v] = req[v] \/ req'[v] = [req[v] EXCEPT !.seen = b]
                BY <2>3, <3>2
            <4>2. req[v] \in Request /\ WellFormed(req[v], DOMAIN sims)
                BY <1>1 DEF Positions
            <4>3. req'[v] \in Request /\ WellFormed(req'[v], DOMAIN sims)
                BY <4>1, <4>2 DEF Request, WellFormed
            <4> QED
                BY <1>2, <4>3 DEF WellFormed
        <3> QED
            BY <3>1, <3>2
    <2>5. DOMAIN req' = Workers /\ req' = [v \in Workers |-> req'[v]]
        BY <2>1 DEF PassOver
    <2> QED
        BY <1>2, <2>2, <2>3, <2>4, <2>5 DEF Positions
<1> QED
    BY <1>3, <1>4 DEF Ends, Abort, Insert, InsertRefused, InsertProposal, Rewrites,
                      ConfirmCommits, ArchiveCommits

-----------------------------------------------------------------------------
\* Every step opens a request, goes on inside one, or ends one.
LEMMA NextCases ==
    ASSUME Next
    PROVE  \E w \in Workers: Begin(w) \/ Inside(w) \/ Ends(w)
BY DEF Next, Serve, Inside, Ends, Rewrites

\* The history names sessions and simulations.
LEMMA HistoryTyped ==
    ASSUME TypeOK, Positions, NEW w \in Workers, Begin(w) \/ Inside(w) \/ Ends(w)
    PROVE  late' \subseteq Workers /\ crossed' \subseteq Nat
<1>1. late \subseteq Workers /\ crossed \subseteq Nat /\ req[w] \in Request
    BY Types DEF TypeOK
<1>2. CASE Begin(w)
    BY <1>1, <1>2 DEF Begin, Create, Clone, Propose, Update, Confirm, Archive, Load, Open
<1>3. CASE Inside(w)
    BY <1>1, <1>3 DEF Inside, TakeCode, ReadTable, DeleteBegins, DeleteEnds
<1>4. CASE Insert(w)
    <2>1. Len(sims) + 1 \in Nat
        BY Types
    <2> QED
        BY <1>1, <1>4, <2>1 DEF Insert, Finish
<1>5. CASE UpdateCommits(w)
    <2>1. req[w].sim \in Nat
        BY <1>1 DEF Request
    <2> QED
        BY <1>1, <1>5, <2>1 DEF UpdateCommits, Overtaken
<1>6. CASE Abort(w) \/ InsertRefused(w) \/ InsertProposal(w) \/ ConfirmCommits(w) \/ ArchiveCommits(w)
    BY <1>1, <1>6 DEF Abort, InsertRefused, InsertProposal, ConfirmCommits, ArchiveCommits, Finish
<1> QED
    BY <1>2, <1>3, <1>4, <1>5, <1>6 DEF Ends, Rewrites

\* The shape is kept.
LEMMA ShapeInv ==
    ASSUME TypeOK, Positions, Next
    PROVE  TypeOK' /\ Positions'
<1>1. PICK w \in Workers: Begin(w) \/ Inside(w) \/ Ends(w)
    BY NextCases
<1>0. late' \subseteq Workers /\ crossed' \subseteq Nat
    BY <1>1, HistoryTyped
<1>2. CASE Begin(w) \/ Inside(w)
    BY <1>0, <1>2, BeginMoves, InsideMoves DEF TypeOK
<1>3. CASE Ends(w)
    <2>1. req' \in [Workers -> Request] /\ Positions'
        BY <1>3, EndMoves
    <2>3. CASE Insert(w)
        <3>1. sims' \in Seq(Simulation) /\ Len(sims') <= MaxSims
            BY <2>3, InsertEffect
        <3>2. next_val' \in [Tenants -> Nat \ {0}]
            <4>1. req[w].tenant \in Tenants /\ next_val \in [Tenants -> Nat \ {0}]
                BY Types DEF Request, TypeOK
            <4>2. next_val[req[w].tenant] + 1 \in Nat \ {0}
                BY <4>1
            <4>3. next_val' = [next_val EXCEPT ![req[w].tenant] = next_val[req[w].tenant] + 1]
                BY <2>3 DEF Insert
            <4> QED
                BY <4>1, <4>2, <4>3
        <3>3. proposals' = proposals
            BY <2>3 DEF Insert
        <3> QED
            BY <1>0, <2>1, <3>1, <3>2, <3>3 DEF TypeOK
    <2>4. CASE Rewrites(w)
        <3>1. next_val' = next_val /\ proposals' = proposals
            BY <2>4 DEF Rewrites, UpdateCommits, ConfirmCommits, ArchiveCommits
        <3> QED
            BY <1>0, <2>1, <2>4, <3>1, RewriteEffect DEF TypeOK
    <2>5. CASE Abort(w) \/ InsertRefused(w)
        BY <1>0, <2>1, <2>5 DEF TypeOK, Abort, InsertRefused
    <2>6. CASE InsertProposal(w)
        <3> DEFINE q == [terms |-> req[w].terms, child |-> req[w].child]
        <3>1. q \in Snapshot
            BY Types DEF Request, Snapshot
        <3>2. proposals' = [proposals EXCEPT ![req[w].sim] = IF @ = {} THEN {q} ELSE @]
              /\ sims' = sims /\ next_val' = next_val
            BY <2>6 DEF InsertProposal
        <3> HIDE DEF q
        <3>3. proposals' \in [1..MaxSims -> SUBSET Snapshot]
            BY <3>1, <3>2 DEF TypeOK
        <3> QED
            BY <1>0, <2>1, <3>2, <3>3 DEF TypeOK
    <2> QED
        BY <1>3, <2>3, <2>4, <2>5, <2>6 DEF Ends
<1> QED
    BY <1>1, <1>2, <1>3

-----------------------------------------------------------------------------
\* A step that draws no code and adds no simulation keeps what is said of
\* the codes.
LEMMA CodesKept ==
    ASSUME TypeOK, Counted, Held, CodesFollowCommits,
           Len(sims') = Len(sims), DOMAIN sims' = DOMAIN sims, next_val' = next_val,
           \A s \in DOMAIN sims: sims'[s].tenant = sims[s].tenant
                                 /\ sims'[s].codigo = sims[s].codigo,
           \A v \in Workers: req'[v].codigo > 0 =>
               req'[v].codigo = req[v].codigo /\ req'[v].tenant = req[v].tenant
    PROVE  Counted' /\ Held' /\ CodesFollowCommits'
<1>1. DOMAIN sims = 1..Len(sims) /\ Len(sims) \in Nat
    BY Types
<1>2. \A n \in 0..Len(sims), t \in Tenants:
          {s \in 1..n: sims'[s].tenant = t} = {s \in 1..n: sims[s].tenant = t}
    BY <1>1
<1>3. Counted'
    <2>1. \A t \in Tenants: Of(t, Len(sims))' = Of(t, Len(sims))
        BY <1>1, <1>2 DEF Of
    <2> QED
        BY <2>1 DEF Counted
<1>4. Held'
    BY DEF Held
<1>5. CodesFollowCommits'
    <2> SUFFICES ASSUME NEW s \in DOMAIN sims
                 PROVE  sims'[s].codigo = Cardinality({r \in 1..s: sims'[r].tenant = sims'[s].tenant})
        BY DEF CodesFollowCommits
    <2>1. {r \in 1..s: sims'[r].tenant = sims'[s].tenant} = {r \in 1..s: sims[r].tenant = sims[s].tenant}
        BY <1>1
    <2> QED
        BY <2>1 DEF CodesFollowCommits
<1> QED
    BY <1>3, <1>4, <1>5

\* The simulations of a tenant are finitely many, and one more when one of
\* its creates or clones commits.
LEMMA OfFinite ==
    ASSUME TypeOK, NEW t \in Tenants
    PROVE  IsFiniteSet(Of(t, Len(sims))) /\ Cardinality(Of(t, Len(sims))) \in Nat
<1>1. IsFiniteSet(1..Len(sims))
    BY Types, FS_Interval
<1>2. Of(t, Len(sims)) \in SUBSET (1..Len(sims))
    BY DEF Of
<1>3. IsFiniteSet(Of(t, Len(sims)))
    BY <1>1, <1>2, FS_Subset
<1> QED
    BY <1>3, FS_CardinalityType

\* Codes follow the commits, through every step.
LEMMA CodesInv ==
    ASSUME TypeOK, Positions, Counted, Held, CodesFollowCommits, Next
    PROVE  Counted' /\ Held' /\ CodesFollowCommits'
<1>1. PICK w \in Workers: Begin(w) \/ Inside(w) \/ Ends(w)
    BY NextCases
<1>2. req \in [Workers -> Request] /\ req[w] \in Request
    BY Types DEF TypeOK
<1>3. CASE Begin(w)
    <2>1. req'[w].codigo = 0 /\ \A v \in Workers \ {w}: req'[v] = req[v]
        BY <1>3, Opened
    <2>2. sims' = sims /\ next_val' = next_val
        BY <1>3, BeginMoves
    <2> QED
        BY <2>1, <2>2, CodesKept
<1>4. CASE ReadTable(w) \/ DeleteBegins(w) \/ DeleteEnds(w)
    <2>1. sims' = sims /\ next_val' = next_val
        BY <1>4 DEF ReadTable, DeleteBegins, DeleteEnds
    <2>2. req'[w].codigo = req[w].codigo /\ req'[w].tenant = req[w].tenant
        <3>1. CASE ReadTable(w)
            BY <1>2, <3>1 DEF ReadTable, Request
        <3>2. CASE DeleteBegins(w)
            BY <1>2, <3>2 DEF DeleteBegins, Request
        <3>3. CASE DeleteEnds(w)
            BY <1>2, <3>3 DEF DeleteEnds, Request
        <3> QED
            BY <1>4, <3>1, <3>2, <3>3
    <2>3. \A v \in Workers \ {w}: req'[v] = req[v]
        BY <1>2, <1>4 DEF ReadTable, DeleteBegins, DeleteEnds
    <2> QED
        BY <2>1, <2>2, <2>3, CodesKept
<1>5. CASE TakeCode(w)
    <2>1. sims' = sims /\ next_val' = next_val
        BY <1>5 DEF TakeCode
    <2>2. req'[w].codigo = next_val[req[w].tenant] /\ req'[w].tenant = req[w].tenant
          /\ \A v \in Workers \ {w}: req'[v] = req[v]
        BY <1>2, <1>5 DEF TakeCode, Request
    <2>3. \A v \in Workers \ {w}: req[v].codigo > 0 => req[v].tenant # req[w].tenant
        BY <1>5 DEF TakeCode, CounterHeld
    <2>4. Held'
        BY <2>1, <2>2, <2>3 DEF Held
    <2>5. Counted' /\ CodesFollowCommits'
        BY <2>1 DEF Counted, CodesFollowCommits, Of
    <2> QED
        BY <2>4, <2>5
<1>6. CASE Ends(w) /\ ~Insert(w)
    <2>1. /\ Len(sims') = Len(sims) /\ DOMAIN sims' = DOMAIN sims /\ next_val' = next_val
          /\ \A s \in DOMAIN sims: sims'[s].tenant = sims[s].tenant
                                   /\ sims'[s].codigo = sims[s].codigo
        <3>1. CASE Rewrites(w)
            BY <3>1, RewriteEffect DEF Rewrites, UpdateCommits, ConfirmCommits, ArchiveCommits
        <3>2. CASE ~Rewrites(w)
            BY <1>6, <3>2 DEF Ends, Abort, InsertRefused, InsertProposal
        <3> QED
            BY <3>1, <3>2
    <2>2. \A v \in Workers: req'[v].codigo > 0 =>
              req'[v].codigo = req[v].codigo /\ req'[v].tenant = req[v].tenant
        <3>0. req'[w].codigo = 0
            <4>1. req'[w] = Idle
                BY <1>6, EndMoves
            <4> QED
                BY <4>1 DEF Idle
        <3> SUFFICES ASSUME NEW v \in Workers, v # w
                     PROVE  req'[v].codigo = req[v].codigo /\ req'[v].tenant = req[v].tenant
            BY <3>0
        <3>1. PICK b \in SUBSET Batch: req'[v] = req[v] \/ req'[v] = [req[v] EXCEPT !.seen = b]
            BY <1>6, EndMoves
        <3> QED
            BY <1>2, <3>1 DEF Request
    <2> QED
        BY <2>1, <2>2, CodesKept
<1>7. CASE Insert(w)
    <2> DEFINE n == Len(sims) + 1
               t == req[w].tenant
    <2>0. /\ Len(sims') = n /\ DOMAIN sims' = 1..n
          /\ \A r \in DOMAIN sims: sims'[r] = sims[r]
          /\ sims'[n] = [tenant |-> req[w].tenant, codigo |-> req[w].codigo,
                 status |-> StatusOf(req[w].op), linked |-> Linked(req[w].op),
                 key |-> req[w].key, terms |-> req[w].terms, child |-> req[w].child]
        BY <1>7, InsertEffect
    <2>1. /\ Len(sims') = n /\ DOMAIN sims' = 1..n
          /\ sims'[n].tenant = t /\ sims'[n].codigo = req[w].codigo
          /\ \A r \in DOMAIN sims: sims'[r] = sims[r]
        BY <2>0
    <2>2. DOMAIN sims = 1..Len(sims) /\ Len(sims) \in Nat /\ t \in Tenants
        BY <1>2, Types DEF Request
    <2>3. req[w].codigo > 0 /\ req[w].codigo = next_val[t]
        BY <1>7 DEF Insert, Positions, WellFormed, Held
    <2>4. next_val' = [next_val EXCEPT ![t] = @ + 1] /\ next_val \in [Tenants -> Nat \ {0}]
        BY <1>7 DEF Insert, TypeOK
    <2>5. req'[w].codigo = 0 /\ \A v \in Workers \ {w}: req'[v] = req[v]
        BY <1>2, <1>7 DEF Insert, Finish, Idle
    <2>6. \A v \in Workers \ {w}: req[v].codigo > 0 => req[v].tenant # t
        BY <2>3 DEF Held
    <2>7. Held'
        <3>1. \A v \in Workers: req'[v].codigo > 0 => req'[v].codigo = next_val'[req'[v].tenant]
            <4> SUFFICES ASSUME NEW v \in Workers, req'[v].codigo > 0
                         PROVE  req'[v].codigo = next_val'[req'[v].tenant]
                OBVIOUS
            <4>1. v # w /\ req'[v] = req[v]
                BY <2>5
            <4>2. req[v].tenant # t /\ req[v].tenant \in Tenants /\ req[v].codigo = next_val[req[v].tenant]
                BY <1>2, <2>6, <4>1 DEF Held, Request
            <4> QED
                BY <2>4, <4>1, <4>2
        <3>2. \A v, u \in Workers: req'[v].codigo > 0 /\ req'[u].codigo > 0
                                   /\ req'[v].tenant = req'[u].tenant => v = u
            BY <2>5 DEF Held
        <3> QED
            BY <3>1, <3>2 DEF Held
    <2> HIDE DEF n
    <2>8. \A s \in 1..Len(sims), u \in Tenants:
              {r \in 1..s: sims'[r].tenant = u} = {r \in 1..s: sims[r].tenant = u}
        BY <2>1, <2>2
    <2>9. \A u \in Tenants:
              {r \in 1..n: sims'[r].tenant = u} = IF u = t THEN Of(u, Len(sims)) \cup {n}
                                                  ELSE Of(u, Len(sims))
        BY <2>1, <2>2 DEF n, Of
    <2>10. n \notin Of(t, Len(sims))
        BY <2>2 DEF n, Of
    <2>11. Cardinality({r \in 1..n: sims'[r].tenant = t}) = Cardinality(Of(t, Len(sims))) + 1
        <3> DEFINE S == Of(t, Len(sims))
        <3>1. IsFiniteSet(S) /\ n \notin S /\ {r \in 1..n: sims'[r].tenant = t} = S \cup {n}
            BY <2>2, <2>9, <2>10, OfFinite
        <3> HIDE DEF S
        <3>2. Cardinality(S \cup {n}) = Cardinality(S) + 1
            BY <3>1, FS_AddElement
        <3> QED
            BY <3>1, <3>2 DEF S
    <2>12. Counted'
        <3> SUFFICES ASSUME NEW u \in Tenants
                     PROVE  next_val'[u] = Cardinality({r \in 1..n: sims'[r].tenant = u}) + 1
            BY <2>1 DEF Counted, Of
        <3>1. next_val[u] = Cardinality(Of(u, Len(sims))) + 1 /\ Cardinality(Of(u, Len(sims))) \in Nat
            BY OfFinite DEF Counted
        <3>2. CASE u = t
            BY <2>4, <2>11, <3>1, <3>2
        <3>3. CASE u # t
            BY <2>4, <2>9, <3>1, <3>3
        <3> QED
            BY <3>2, <3>3
    <2>13. CodesFollowCommits'
        <3> SUFFICES ASSUME NEW s \in 1..n
                     PROVE  sims'[s].codigo = Cardinality({r \in 1..s: sims'[r].tenant = sims'[s].tenant})
            BY <2>1 DEF CodesFollowCommits
        <3>1. CASE s = n
            <4>1. next_val[t] = Cardinality(Of(t, Len(sims))) + 1
                BY <2>2 DEF Counted
            <4> QED
                BY <2>1, <2>3, <2>11, <3>1, <4>1
        <3>2. CASE s # n
            <4>1. s \in 1..Len(sims)
                BY <2>2, <3>2 DEF n
            <4>2. sims'[s] = sims[s] /\ sims[s].tenant \in Tenants
                BY <2>1, <2>2, <4>1, Types DEF Simulation
            <4>3. {r \in 1..s: sims'[r].tenant = sims'[s].tenant} = {r \in 1..s: sims[r].tenant = sims[s].tenant}
                BY <2>8, <4>1, <4>2
            <4> QED
                BY <2>2, <4>1, <4>2, <4>3 DEF CodesFollowCommits
        <3> QED
            BY <3>1, <3>2
    <2> QED
        BY <2>7, <2>12, <2>13
<1> QED
    BY <1>1, <1>3, <1>4, <1>5, <1>6, <1>7 DEF Inside

-----------------------------------------------------------------------------
\* A key that is stored twice is stored in one place.
LEMMA KeyedInv ==
    ASSUME TypeOK, Positions, KeyedOnce, Next
    PROVE  KeyedOnce'
<1>1. PICK w \in Workers: Begin(w) \/ Inside(w) \/ Ends(w)
    BY NextCases
<1>2. CASE Insert(w)
    <2> DEFINE n == Len(sims) + 1
    <2>1. DOMAIN sims' = 1..n /\ \A r \in DOMAIN sims: sims'[r] = sims[r]
        BY <1>2, InsertEffect
    <2>2. sims'[n].key = req[w].key
        <3>1. sims'[n] = [tenant |-> req[w].tenant, codigo |-> req[w].codigo,
                  status |-> StatusOf(req[w].op), linked |-> Linked(req[w].op),
                  key |-> req[w].key, terms |-> req[w].terms, child |-> req[w].child]
            BY <1>2, InsertEffect
        <3> QED
            BY <3>1
    <2>3. req[w].key = NoKey \/ \A r \in DOMAIN sims: sims[r].key # req[w].key
        BY <1>2 DEF Insert, KeyIsFree
    <2>4. \A r \in 1..n: r # n => r \in DOMAIN sims
        BY Types
    <2> QED
        BY <2>1, <2>2, <2>3, <2>4 DEF KeyedOnce
<1>3. CASE Rewrites(w)
    BY <1>3, RewriteEffect DEF KeyedOnce
<1>4. CASE Begin(w) \/ Inside(w) \/ (Ends(w) /\ ~Insert(w) /\ ~Rewrites(w))
    <2>1. sims' = sims
        BY <1>4, BeginMoves, InsideMoves DEF Ends, Abort, InsertRefused, InsertProposal
    <2> QED
        BY <2>1 DEF KeyedOnce
<1> QED
    BY <1>1, <1>2, <1>3, <1>4

-----------------------------------------------------------------------------
\* No step changes the contents of a simulation that has a client.
LEMMA LinkedKept ==
    ASSUME TypeOK, Positions, Carried, Next
    PROVE  /\ DOMAIN sims \subseteq DOMAIN sims'
           /\ \A s \in DOMAIN sims:
                /\ sims'[s].linked = sims[s].linked
                /\ sims'[s].status = sims[s].status \/ sims'[s].status # "rascunho"
                /\ sims[s].linked => sims'[s].terms = sims[s].terms
                                     /\ sims'[s].child = sims[s].child
<1>1. PICK w \in Workers: Begin(w) \/ Inside(w) \/ Ends(w)
    BY NextCases
<1>2. CASE Insert(w)
    <2>1. DOMAIN sims \subseteq DOMAIN sims'
        BY <1>2, EndMoves DEF Ends
    <2>2. \A r \in DOMAIN sims: sims'[r] = sims[r]
        BY <1>2, InsertEffect
    <2> QED
        BY <2>1, <2>2
<1>3. CASE Rewrites(w)
    <2>1. req[w].op = "update" => ~sims[req[w].sim].linked
        BY DEF Carried, CarriedBy
    <2> QED
        BY <1>3, <2>1, RewriteEffect
<1>4. CASE Begin(w) \/ Inside(w) \/ (Ends(w) /\ ~Insert(w) /\ ~Rewrites(w))
    BY <1>4, BeginMoves, InsideMoves DEF Ends, Abort, InsertRefused, InsertProposal
<1> QED
    BY <1>1, <1>2, <1>3, <1>4

\* A simulation with a client is confirmed from its first day, with its own
\* schedule.
LEMMA FirmInv ==
    ASSUME TypeOK, Positions, Carried, LinkedAreFirm, Next
    PROVE  LinkedAreFirm'
<1>1. PICK w \in Workers: Begin(w) \/ Inside(w) \/ Ends(w)
    BY NextCases
<1>2. ASSUME NEW s \in DOMAIN sims, sims'[s].linked
      PROVE  sims'[s].status # "rascunho" /\ Coherent(sims'[s].terms, sims'[s].child)
    <2>1. sims[s].linked
        BY <1>2, LinkedKept
    <2>2. sims[s].status # "rascunho" /\ Coherent(sims[s].terms, sims[s].child)
        BY <2>1 DEF LinkedAreFirm
    <2>3. sims'[s].terms = sims[s].terms /\ sims'[s].child = sims[s].child
          /\ (sims'[s].status = sims[s].status \/ sims'[s].status # "rascunho")
        BY <2>1, LinkedKept
    <2> QED
        BY <2>2, <2>3
<1>3. CASE Insert(w)
    <2> DEFINE n == Len(sims) + 1
    <2>1. DOMAIN sims' = 1..n /\ DOMAIN sims = 1..Len(sims) /\ Len(sims) \in Nat
        BY <1>3, InsertEffect, Types
    <2>2. sims'[n] = [tenant |-> req[w].tenant, codigo |-> req[w].codigo,
              status |-> StatusOf(req[w].op), linked |-> Linked(req[w].op),
              key |-> req[w].key, terms |-> req[w].terms, child |-> req[w].child]
        BY <1>3, InsertEffect
    <2>3. sims'[n].linked => sims'[n].status # "rascunho" /\ Coherent(sims'[n].terms, sims'[n].child)
        <3>1. req[w].op = "create" => Coherent(req[w].terms, req[w].child)
            BY DEF Carried, CarriedBy
        <3>2. sims'[n].linked => req[w].op = "create"
            <4> DEFINE b == Linked(req[w].op)
            <4>1. b => req[w].op = "create"
                BY DEF Linked
            <4>2. sims'[n] = [tenant |-> req[w].tenant, codigo |-> req[w].codigo,
                      status |-> StatusOf(req[w].op), linked |-> b,
                      key |-> req[w].key, terms |-> req[w].terms, child |-> req[w].child]
                BY <2>2
            <4> HIDE DEF b
            <4>3. sims'[n].linked = b
                BY <4>2
            <4> QED
                BY <4>1, <4>3
        <3>3. sims'[n].terms = req[w].terms /\ sims'[n].child = req[w].child
            BY <2>2
        <3>4. sims'[n].status = StatusOf(req[w].op)
            BY <2>2
        <3> QED
            BY <3>1, <3>2, <3>3, <3>4 DEF StatusOf
    <2>4. \A s \in 1..n: s = n \/ s \in DOMAIN sims
        BY <2>1
    <2> QED
        BY <1>2, <2>1, <2>3, <2>4 DEF LinkedAreFirm
<1>4. CASE ~Insert(w)
    <2>1. DOMAIN sims' = DOMAIN sims
        <3>1. CASE Rewrites(w)
            BY <3>1, RewriteEffect
        <3>2. CASE ~Rewrites(w)
            BY <1>1, <1>4, <3>2, BeginMoves, InsideMoves
               DEF Ends, Abort, InsertRefused, InsertProposal
        <3> QED
            BY <3>1, <3>2
    <2> QED
        BY <1>2, <2>1 DEF LinkedAreFirm
<1> QED
    BY <1>3, <1>4

\* The rows of a new simulation are those of its columns.
LEMMA ComputedCoherent ==
    ASSUME NEW w \in Workers, NEW p \in Terms
    PROVE  Coherent(p, Computed(w, p))
<1>1. Computed(w, p)["rows"] = {[by |-> w, terms |-> p]}
    BY DEF Computed, Names
<1> QED
    BY <1>1 DEF Coherent

\* What a session carries to its commit stays right.
LEMMA CarriedInv ==
    ASSUME TypeOK, Positions, Carried, LinkedAreFirm, Next
    PROVE  Carried'
<1>1. PICK w \in Workers: Begin(w) \/ Inside(w) \/ Ends(w)
    BY NextCases
<1>2. req \in [Workers -> Request] /\ \A v \in Workers: req[v] \in Request
    BY Types DEF TypeOK
<1> DEFINE Right(r) ==
        /\ r.op = "create" => Coherent(r.terms, r.child)
        /\ r.op = "update" => ~sims'[r.sim].linked
        /\ r.op = "propose" =>
             /\ sims'[r.sim].linked
             /\ r.terms = sims'[r.sim].terms
             /\ r.pc = "flush" => r.table = 4
             /\ \A i \in 1..3: i < r.table =>
                    r.child[Tables[i]] = sims'[r.sim].child[Tables[i]]
<1>3. ASSUME NEW v \in Workers
      PROVE  Right(req[v])
    <2>1. CarriedBy(req[v]) /\ WellFormed(req[v], DOMAIN sims)
        BY DEF Carried, Positions
    <2>2. req[v].op \in {"update", "propose"} => req[v].sim \in DOMAIN sims
        BY <2>1 DEF WellFormed
    <2> QED
        BY <2>1, <2>2, LinkedKept DEF CarriedBy
<1>4. ASSUME NEW v \in Workers \ {w}
      PROVE  Right(req'[v])
    <2>1. CASE Begin(w)
        BY <1>3, <2>1, Opened
    <2>2. CASE Inside(w)
        <3>1. req'[v] = req[v]
            BY <1>2, <2>2 DEF Inside, TakeCode, ReadTable, DeleteBegins, DeleteEnds
        <3> QED
            BY <1>3, <3>1
    <2>3. CASE Ends(w)
        <3>1. PICK b \in SUBSET Batch: req'[v] = req[v] \/ req'[v] = [req[v] EXCEPT !.seen = b]
            BY <2>3, EndMoves
        <3> DEFINE r == req[v]
                   q == req'[v]
        <3>2. q.op = r.op /\ q.pc = r.pc /\ q.sim = r.sim /\ q.terms = r.terms
              /\ q.table = r.table /\ q.child = r.child
            BY <1>2, <3>1 DEF Request
        <3>3. Right(r)
            BY <1>3
        <3> QED
            BY <3>2, <3>3
    <2> QED
        BY <1>1, <2>1, <2>2, <2>3
<1>5. Right(req'[w])
    <2>1. CASE Begin(w)
        <3>1. sims' = sims
            BY <2>1, BeginMoves
        <3>2. CASE req'[w].op = "create"
            BY <2>1, <3>2, Opened, ComputedCoherent
        <3>3. CASE req'[w].op \in {"clone", "confirm", "archive"}
            BY <3>3
        <3>4. CASE req'[w].op = "propose"
            BY <2>1, <3>1, <3>4, Opened
        <3>5. CASE req'[w].op = "update"
            <4>1. PICK s \in DOMAIN sims: req'[w].sim = s /\ sims[s].status = "rascunho"
                BY <2>1, <3>5, Opened
            <4>2. ~sims[s].linked
                BY <4>1 DEF LinkedAreFirm
            <4> QED
                BY <3>1, <3>5, <4>1, <4>2
        <3> QED
            BY <2>1, <3>2, <3>3, <3>4, <3>5, Opened
    <2>2. CASE TakeCode(w)
        <3>1. req'[w].op = req[w].op /\ req'[w].op \in {"create", "clone"}
              /\ req'[w].terms = req[w].terms /\ req'[w].child = req[w].child
            BY <1>2, <2>2 DEF TakeCode, Request
        <3> QED
            BY <1>3, <3>1
    <2>3. CASE ReadTable(w)
        <3> DEFINE n == Tables[req[w].table]
                   s == req[w].sim
                   r == req'[w]
        <3>1. req[w].op \in {"clone", "propose"} /\ req[w].table \in 1..3 /\ n \in Names
            BY <1>2, <2>3, TableNames DEF Positions, WellFormed, ReadTable, Request
        <3>2. r.op = req[w].op /\ r.sim = s /\ r.terms = req[w].terms
              /\ r.table = req[w].table + 1
              /\ r.child = [req[w].child EXCEPT ![n] = sims[s].child[n]]
              /\ (r.pc = "flush" => req[w].table = Len(Tables))
            BY <1>2, <2>3 DEF ReadTable, Request
        <3>3. sims' = sims
            BY <2>3 DEF ReadTable
        <3>4. Right(req[w])
            BY <1>3
        <3>5. req[w].child \in Children
            BY <1>2 DEF Request
        <3>6. \A i \in 1..3: i < r.table => r.child[Tables[i]] = IF i = req[w].table THEN sims[s].child[n] ELSE req[w].child[Tables[i]]
            BY <3>1, <3>2, <3>5, TableNames DEF Children
        <3>7. r.pc = "flush" => r.table = 4
            BY <3>2, TableNames
        <3>8. \A i \in 1..3: i < r.table /\ i # req[w].table => i < req[w].table
            BY <3>1, <3>2
        <3>9. r.op \in {"clone", "propose"}
            BY <3>1, <3>2
        <3>10. CASE r.op = "propose"
            <4>1. req[w].op = "propose"
                BY <3>2, <3>10
            <4>2. /\ sims'[s].linked /\ req[w].terms = sims'[s].terms
                  /\ \A i \in 1..3: i < req[w].table =>
                        req[w].child[Tables[i]] = sims'[s].child[Tables[i]]
                BY <3>4, <4>1
            <4>3. \A i \in 1..3: i < r.table => r.child[Tables[i]] = sims'[s].child[Tables[i]]
                <5> SUFFICES ASSUME NEW i \in 1..3, i < r.table
                             PROVE  r.child[Tables[i]] = sims'[s].child[Tables[i]]
                    OBVIOUS
                <5>1. CASE i = req[w].table
                    BY <3>3, <3>6, <5>1
                <5>2. CASE i # req[w].table
                    BY <3>6, <3>8, <4>2, <5>2
                <5> QED
                    BY <5>1, <5>2
            <4>4. r.sim = s /\ r.terms = req[w].terms
                BY <3>2
            <4> QED
                BY <3>7, <3>10, <4>2, <4>3, <4>4
        <3> QED
            BY <3>9, <3>10
    <2>4. CASE DeleteBegins(w) \/ DeleteEnds(w)
        <3>1. req[w].op = "update"
            BY <1>2, <2>4 DEF Positions, WellFormed, DeleteBegins, DeleteEnds, Request
        <3>2. req'[w].op = "update" /\ req'[w].sim = req[w].sim
            <4>1. CASE DeleteBegins(w)
                BY <1>2, <3>1, <4>1 DEF DeleteBegins, Request
            <4>2. CASE DeleteEnds(w)
                BY <1>2, <3>1, <4>2 DEF DeleteEnds, Request
            <4> QED
                BY <2>4, <4>1, <4>2
        <3> QED
            BY <1>3, <3>1, <3>2
    <2>5. CASE Ends(w)
        <3>1. req'[w].op = "idle"
            <4>1. req'[w] = Idle
                BY <2>5, EndMoves
            <4> QED
                BY <4>1 DEF Idle
        <3> QED
            BY <3>1
    <2> QED
        BY <1>1, <2>1, <2>2, <2>3, <2>4, <2>5 DEF Inside
<1>6. \A v \in Workers: Right(req'[v])
    BY <1>4, <1>5
<1> QED
    BY <1>6 DEF Carried, CarriedBy

-----------------------------------------------------------------------------
\* What a proposal quotes is a simulation with a client, read table by table,
\* and stays what that simulation says.
LEMMA QuotedInv ==
    ASSUME TypeOK, Positions, Carried, LinkedAreFirm,
           QuotedAreLinked, ProposalQuotesSimulation, Next
    PROVE  QuotedAreLinked' /\ ProposalQuotesSimulation'
<1> DEFINE Fits(s, q) ==
        /\ s \in DOMAIN sims' /\ sims'[s].linked
        /\ q.terms = sims'[s].terms /\ q.child = sims'[s].child
        /\ {b.terms: b \in q.child["rows"]} = {q.terms}
<1>1. PICK w \in Workers: Begin(w) \/ Inside(w) \/ Ends(w)
    BY NextCases
<1>2. ASSUME NEW s \in 1..MaxSims, NEW q \in proposals[s]
      PROVE  Fits(s, q)
    <2>1. s \in DOMAIN sims /\ sims[s].linked
        BY DEF QuotedAreLinked
    <2>2. q.terms = sims[s].terms /\ q.child = sims[s].child
          /\ {b.terms: b \in q.child["rows"]} = {q.terms}
        BY DEF ProposalQuotesSimulation
    <2>3. s \in DOMAIN sims' /\ sims'[s].linked
          /\ sims'[s].terms = sims[s].terms /\ sims'[s].child = sims[s].child
        BY <2>1, LinkedKept
    <2> QED
        BY <2>2, <2>3
<1>3. CASE InsertProposal(w)
    <2> DEFINE s == req[w].sim
               q == [terms |-> req[w].terms, child |-> req[w].child]
    <2>1. req[w] \in Request /\ req[w].op = "propose" /\ req[w].pc = "flush"
        BY <1>3, Types DEF InsertProposal, At
    <2>2. s \in DOMAIN sims /\ sims[s] \in Simulation
        BY <2>1, Types DEF Positions, WellFormed
    <2>3. /\ sims[s].linked /\ req[w].terms = sims[s].terms /\ req[w].table = 4
          /\ \A i \in 1..3: i < req[w].table =>
                req[w].child[Tables[i]] = sims[s].child[Tables[i]]
        BY <2>1 DEF Carried, CarriedBy
    <2>4. \A i \in 1..3: req[w].child[Tables[i]] = sims[s].child[Tables[i]]
        BY <2>3
    <2>5. req[w].child = sims[s].child
        <3>1. req[w].child \in Children /\ sims[s].child \in Children
            BY <2>1, <2>2 DEF Request, Simulation
        <3>2. \A n \in Names: req[w].child[n] = sims[s].child[n]
            BY <2>4, TableNames
        <3> QED
            BY <3>1, <3>2 DEF Children
    <2>6. {b.terms: b \in sims[s].child["rows"]} = {sims[s].terms}
        BY <2>2, <2>3 DEF LinkedAreFirm, Coherent
    <2>7. sims' = sims
        BY <1>3 DEF InsertProposal
    <2>8. q.terms = sims[s].terms /\ q.child = sims[s].child
        BY <2>3, <2>5
    <2> HIDE DEF q
    <2>9. Fits(s, q)
        BY <2>2, <2>3, <2>6, <2>7, <2>8
    <2>10. ASSUME NEW r \in 1..MaxSims, NEW p \in proposals'[r]
           PROVE  p \in proposals[r] \/ (r = s /\ p = q)
        <3>1. proposals' = [proposals EXCEPT ![s] = IF @ = {} THEN {q} ELSE @]
            BY <1>3 DEF InsertProposal, q
        <3> QED
            BY <3>1 DEF TypeOK
    <2>11. \A r \in 1..MaxSims: \A p \in proposals'[r]: Fits(r, p)
        BY <1>2, <2>9, <2>10
    <2> QED
        BY <2>11 DEF QuotedAreLinked, ProposalQuotesSimulation
<1>4. CASE ~InsertProposal(w)
    <2>1. proposals' = proposals
        BY <1>1, <1>4, BeginMoves, InsideMoves
           DEF Ends, Abort, Insert, InsertRefused, Rewrites,
               UpdateCommits, ConfirmCommits, ArchiveCommits
    <2>2. \A r \in 1..MaxSims: \A p \in proposals'[r]: Fits(r, p)
        BY <1>2, <2>1
    <2> QED
        BY <2>2 DEF QuotedAreLinked, ProposalQuotesSimulation
<1> QED
    BY <1>3, <1>4

\* The rows an edit holds are of the tables before its next statement's.
LEMMA LocksInv ==
    ASSUME TypeOK, Positions, LocksFollowTables, Next
    PROVE  LocksFollowTables'
<1> DEFINE Behind(r) == \A i \in 1..3:
        r.op = "update" /\ i >= r.table => r.child[Tables[i]] = {}
<1>1. PICK w \in Workers: Begin(w) \/ Inside(w) \/ Ends(w)
    BY NextCases
<1>2. req \in [Workers -> Request] /\ \A v \in Workers: req[v] \in Request /\ Behind(req[v])
    BY Types DEF TypeOK, LocksFollowTables
<1>3. CASE Begin(w)
    <2>1. \A v \in Workers \ {w}: Behind(req'[v])
        BY <1>2, <1>3, Opened
    <2>2. CASE req'[w].op = "update"
        <3>1. req'[w].child = Nothing
            BY <1>3, <2>2, Opened
        <3>2. \A i \in 1..3: Nothing[Tables[i]] = {}
            BY TableNames DEF Nothing
        <3> QED
            BY <2>1, <3>1, <3>2 DEF LocksFollowTables
    <2> QED
        BY <2>1, <2>2 DEF LocksFollowTables
<1>4. CASE Inside(w)
    <2>1. \A v \in Workers \ {w}: req'[v] = req[v]
        BY <1>2, <1>4 DEF Inside, TakeCode, ReadTable, DeleteBegins, DeleteEnds
    <2>2. Behind(req'[w])
        <3>1. CASE TakeCode(w)
            <4>1. req'[w].op = req[w].op /\ req[w].op # "update"
                BY <1>2, <3>1 DEF TakeCode, Request
            <4> QED
                BY <4>1
        <3>2. CASE ReadTable(w)
            <4>1. req'[w].op = req[w].op /\ req[w].op # "update"
                BY <1>2, <3>2 DEF ReadTable, Request, Positions, WellFormed
            <4> QED
                BY <4>1
        <3>3. CASE DeleteBegins(w)
            <4>1. req'[w].op = req[w].op /\ req'[w].table = req[w].table
                  /\ req'[w].child = req[w].child
                BY <1>2, <3>3 DEF DeleteBegins, Request
            <4> QED
                BY <1>2, <4>1
        <3>4. CASE DeleteEnds(w)
            <4> DEFINE n == Tables[req[w].table]
            <4>1. req[w].table \in 1..3 /\ n \in Names
                BY <3>4, TableNames DEF DeleteEnds, Positions, WellFormed
            <4>2. req'[w].op = req[w].op /\ req'[w].table = req[w].table + 1
                  /\ req'[w].child = [req[w].child EXCEPT ![n] = req[w].seen]
                BY <1>2, <3>4 DEF DeleteEnds, Statement, Request
            <4>3. req[w].child \in Children
                BY <1>2 DEF Request
            <4>4. ASSUME NEW i \in 1..3, req[w].op = "update", i >= req'[w].table
                  PROVE  req'[w].child[Tables[i]] = {}
                <5>1. i # req[w].table /\ i >= req[w].table
                    BY <4>1, <4>2, <4>4
                <5>2. Tables[i] # n /\ Tables[i] \in Names
                    BY <4>1, <5>1, TableNames
                <5>3. req[w].child[Tables[i]] = {}
                    BY <1>2, <4>4, <5>1
                <5> QED
                    BY <4>2, <4>3, <5>2, <5>3 DEF Children
            <4> QED
                BY <4>2, <4>4
        <3> QED
            BY <1>4, <3>1, <3>2, <3>3, <3>4 DEF Inside
    <2> QED
        BY <1>2, <2>1, <2>2 DEF LocksFollowTables
<1>5. CASE Ends(w)
    <2>1. ASSUME NEW v \in Workers \ {w}
          PROVE  Behind(req'[v])
        <3>1. PICK b \in SUBSET Batch: req'[v] = req[v] \/ req'[v] = [req[v] EXCEPT !.seen = b]
            BY <1>5, EndMoves
        <3>2. req'[v].op = req[v].op /\ req'[v].table = req[v].table
              /\ req'[v].child = req[v].child
            BY <1>2, <3>1 DEF Request
        <3> QED
            BY <1>2, <3>2
    <2>2. req'[w].op # "update"
        <3>1. req'[w] = Idle
            BY <1>5, EndMoves
        <3> QED
            BY <3>1 DEF Idle
    <2> QED
        BY <2>1, <2>2 DEF LocksFollowTables
<1> QED
    BY <1>1, <1>3, <1>4, <1>5

-----------------------------------------------------------------------------
\* A session that opens has read nothing yet but the columns.
LEMMA FreshBegins ==
    ASSUME TypeOK, Positions, ReplacedWhole, Fresh, NEW w \in Workers, Begin(w)
    PROVE  Fresh' /\ ReplacedWhole'
<1>1. sims' = sims /\ crossed' = crossed /\ late \subseteq late' /\ late' \subseteq late \cup {w}
      /\ req \in [Workers -> Request] /\ Idle \in Request
    BY IdleType DEF TypeOK, Begin, Create, Clone, Propose, Update, Confirm, Archive, Load, Open
<1>2. \A v \in Workers \ {w}: req'[v] = req[v]
    BY Opened
<1>3. ASSUME NEW v \in Workers \ {w}, v \notin late'
      PROVE  FreshBy(req[v])'
    <2>1. FreshBy(req[v])
        BY <1>1, <1>3 DEF Fresh
    <2>2. req'[v] = req[v]
        BY <1>2
    <2> QED
        BY <1>1, <2>1, <2>2 DEF FreshBy
<1>4. ASSUME w \notin late' PROVE FreshBy(req[w])'
    <2>1. ASSUME NEW t \in Tenants, NEW k \in Keys \cup {NoKey}, NEW p \in Terms, Create(w, t, k, p)
          PROVE  FreshBy(req[w])'
        <3> DEFINE c == Computed(w, p)
        <3>1. Whole(p, c)
            BY DEF Whole
        <3>2. req'[w].op = "create" /\ req'[w].terms = p /\ req'[w].child = c
            <4>1. req' = [req EXCEPT ![w] = [Idle EXCEPT !.op = "create", !.tenant = t, !.key = k,
                                                         !.terms = p, !.child = c]]
                BY <2>1 DEF Create, Open
            <4> HIDE DEF c
            <4> QED
                BY <1>1, <4>1 DEF Request
        <3> HIDE DEF c
        <3>3. Whole(req'[w].terms, req'[w].child)
            BY <3>1, <3>2
        <3> QED
            BY <3>2, <3>3 DEF FreshBy, Whole
    <2>2. ASSUME NEW s \in DOMAIN sims, Clone(w, s)
          PROVE  FreshBy(req[w])'
        <3>1. req'[w].op = "clone" /\ req'[w].pc = "read" /\ req'[w].sim = s /\ req'[w].table = 1
              /\ req'[w].terms = sims[s].terms
            BY <1>1, <2>2 DEF Clone, Load, Open, Idle, Request
        <3>2. s \notin crossed
            BY <1>4, <2>2 DEF Clone
        <3> QED
            BY <1>1, <3>1, <3>2 DEF FreshBy
    <2>3. ASSUME NEW s \in DOMAIN sims, Propose(w, s) \/ Confirm(w, s) \/ Archive(w, s)
          PROVE  FreshBy(req[w])'
        <3>1. req'[w].op \in {"propose", "confirm", "archive"}
            <4>1. CASE Propose(w, s)
                BY <1>1, <4>1 DEF Propose, Load, Open, Idle, Request
            <4>2. CASE Confirm(w, s)
                BY <1>1, <4>2 DEF Confirm, Load, Open, Idle, Request
            <4>3. CASE Archive(w, s)
                BY <1>1, <4>3 DEF Archive, Load, Open, Idle, Request
            <4> QED
                BY <2>3, <4>1, <4>2, <4>3
        <3> QED
            BY <3>1 DEF FreshBy
    <2>4. ASSUME NEW s \in DOMAIN sims, NEW p \in Terms, Update(w, s, p)
          PROVE  FreshBy(req[w])'
        <3>1. req'[w].op = "update" /\ req'[w].pc = "delete" /\ req'[w].sim = s /\ req'[w].table = 1
              /\ req'[w].loaded = <<sims[s].status, sims[s].terms>>
            BY <1>1, <2>4 DEF Update, Open, Idle, Request
        <3> QED
            BY <1>1, <3>1 DEF FreshBy
    <2> QED
        BY <2>1, <2>2, <2>3, <2>4 DEF Begin
<1>5. Fresh'
    BY <1>3, <1>4 DEF Fresh
<1>6. ReplacedWhole'
    BY <1>1 DEF ReplacedWhole
<1> QED
    BY <1>5, <1>6

\* A clone that has read all three tables has the whole of what it read.
LEMMA ReadWhole ==
    ASSUME NEW terms, NEW c \in Children, NEW d \in Children, Whole(terms, d),
           \A i \in 1..3: c[Tables[i]] = d[Tables[i]]
    PROVE  Whole(terms, c)
<1>1. \A n \in Names: c[n] = d[n]
    BY TableNames
<1>2. c = d
    BY <1>1 DEF Children
<1> QED
    BY <1>2

\* A session goes on inside its request.
LEMMA FreshInside ==
    ASSUME TypeOK, Positions, ReplacedWhole, Fresh, NEW w \in Workers, Inside(w)
    PROVE  Fresh' /\ ReplacedWhole'
<1>1. sims' = sims /\ crossed' = crossed /\ late' = late
    BY DEF Inside, TakeCode, ReadTable, DeleteBegins, DeleteEnds
<1>2. req \in [Workers -> Request] /\ req[w] \in Request /\ WellFormed(req[w], DOMAIN sims)
      /\ \A v \in Workers \ {w}: req'[v] = req[v]
    BY Types DEF TypeOK, Positions, Inside, TakeCode, ReadTable, DeleteBegins, DeleteEnds
<1>3. ASSUME NEW v \in Workers \ {w}, v \notin late'
      PROVE  FreshBy(req[v])'
    BY <1>1, <1>2, <1>3 DEF Fresh, FreshBy
<1>4. ASSUME w \notin late' PROVE FreshBy(req[w])'
    <2> DEFINE r == req[w]
               q == req'[w]
               n == Tables[r.table]
    <2>1. FreshBy(r)
        BY <1>1, <1>4 DEF Fresh
    <2>2. CASE TakeCode(w)
        <3>1. q.op = r.op /\ r.op \in {"create", "clone"} /\ r.pc = "code" /\ q.pc = "insert"
              /\ q.terms = r.terms /\ q.child = r.child
            BY <1>2, <2>2 DEF TakeCode, Request
        <3>2. Whole(q.terms, q.child)
            BY <2>1, <3>1 DEF FreshBy
        <3> QED
            BY <3>1, <3>2 DEF FreshBy, Whole
    <2>3. CASE ReadTable(w)
        <3> DEFINE d == sims[r.sim].child
        <3>1. r.op \in {"clone", "propose"} /\ r.table \in 1..3 /\ n \in Names /\ r.pc = "read"
              /\ r.sim \in DOMAIN sims
            <4>1. r.pc = "read"
                BY <2>3 DEF ReadTable
            <4>2. r.op \in {"clone", "propose"} /\ r.table \in 1..3 /\ r.sim \in DOMAIN sims
                BY <1>2, <4>1 DEF WellFormed, Request
            <4> QED
                BY <4>1, <4>2, TableNames
        <3>2. q.op = r.op /\ q.sim = r.sim /\ q.terms = r.terms /\ q.table = r.table + 1
              /\ q.child = [r.child EXCEPT ![n] = d[n]]
              /\ (q.pc = "read" <=> r.table # Len(Tables))
            BY <1>2, <2>3 DEF ReadTable, Request
        <3>3. r.child \in Children /\ sims[r.sim] \in Simulation
            BY <1>2, <3>1, Types DEF Request
        <3>4. CASE r.op = "propose"
            BY <3>2, <3>4 DEF FreshBy
        <3>5. CASE r.op = "clone"
            <4>1. r.sim \notin crossed /\ r.terms = sims[r.sim].terms
                  /\ \A i \in 1..3: i < r.table => r.child[Tables[i]] = d[Tables[i]]
                BY <2>1, <3>1, <3>5 DEF FreshBy
            <4>2. \A i \in 1..3: i < q.table => q.child[Tables[i]] = d[Tables[i]]
                <5> SUFFICES ASSUME NEW i \in 1..3, i < r.table + 1
                             PROVE  q.child[Tables[i]] = d[Tables[i]]
                    BY <3>2
                <5>1. CASE i = r.table
                    BY <3>1, <3>2, <3>3, <5>1 DEF Children
                <5>2. CASE i # r.table
                    <6>1. Tables[i] # n /\ Tables[i] \in Names /\ i < r.table
                        BY <3>1, <5>2, TableNames
                    <6> QED
                        BY <3>2, <3>3, <4>1, <6>1 DEF Children
                <5> QED
                    BY <5>1, <5>2
            <4>3. CASE q.pc = "read"
                BY <1>1, <3>2, <3>5, <4>1, <4>2, <4>3 DEF FreshBy
            <4>4. CASE q.pc # "read"
                <5>1. r.table = 3 /\ q.table = 4
                    BY <3>1, <3>2, <4>4, TableNames
                <5>2. \A i \in 1..3: q.child[Tables[i]] = d[Tables[i]]
                    BY <4>2, <5>1
                <5>3. Whole(r.terms, d)
                    BY <3>1, <4>1 DEF ReplacedWhole, Whole
                <5>4. q.child \in Children /\ d \in Children
                    <6>1. d \in Children /\ d[n] \in SUBSET Batch
                        BY <3>1, <3>3 DEF Simulation, Children
                    <6> QED
                        BY <3>1, <3>2, <3>3, <6>1 DEF Children
                <5>5. Whole(q.terms, q.child)
                    BY <3>2, <5>2, <5>3, <5>4, ReadWhole
                <5> QED
                    BY <3>2, <3>5, <4>4, <5>5 DEF FreshBy, Whole
            <4> QED
                BY <4>3, <4>4
        <3> QED
            BY <3>1, <3>4, <3>5
    <2>4. CASE DeleteBegins(w)
        <3>1. r.op = "update"
            BY <1>2, <2>4 DEF WellFormed, DeleteBegins, Request
        <3>2. q.op = r.op /\ q.sim = r.sim /\ q.loaded = r.loaded /\ q.table = r.table
              /\ q.child = r.child /\ q.pc = "wait" /\ q.seen = sims[r.sim].child[n]
            BY <1>2, <2>4 DEF DeleteBegins, Statement, Request
        <3> QED
            BY <1>1, <2>1, <3>1, <3>2 DEF FreshBy
    <2>5. CASE DeleteEnds(w)
        <3>1. r.op = "update" /\ r.table \in 1..3 /\ n \in Names /\ r.pc = "wait"
            BY <1>2, <2>5, TableNames DEF WellFormed, DeleteEnds, Request
        <3>2. q.op = r.op /\ q.sim = r.sim /\ q.loaded = r.loaded /\ q.table = r.table + 1
              /\ q.child = [r.child EXCEPT ![n] = r.seen]
              /\ q.pc = IF r.table = Len(Tables) THEN "flush" ELSE "delete"
            BY <1>2, <2>5 DEF DeleteEnds, Statement, Request
        <3>3. r.child \in Children
            BY <1>2 DEF Request
        <3>4. r.loaded[2] = sims[r.sim].terms /\ r.seen = sims[r.sim].child[n]
              /\ \A i \in 1..3: i < r.table => r.child[Tables[i]] = sims[r.sim].child[Tables[i]]
            BY <2>1, <3>1 DEF FreshBy
        <3>5. \A i \in 1..3: i < q.table => q.child[Tables[i]] = sims[r.sim].child[Tables[i]]
            <4> SUFFICES ASSUME NEW i \in 1..3, i < r.table + 1
                         PROVE  q.child[Tables[i]] = sims[r.sim].child[Tables[i]]
                BY <3>2
            <4>1. CASE i = r.table
                BY <3>1, <3>2, <3>3, <3>4, <4>1 DEF Children
            <4>2. CASE i # r.table
                <5>1. Tables[i] # n /\ Tables[i] \in Names /\ i < r.table
                    BY <3>1, <4>2, TableNames
                <5> QED
                    BY <3>2, <3>3, <3>4, <5>1 DEF Children
            <4> QED
                BY <4>1, <4>2
        <3>6. q.pc # "wait" /\ (q.pc = "flush" => q.table = 4)
            BY <3>1, <3>2, TableNames
        <3> QED
            BY <1>1, <3>1, <3>2, <3>4, <3>5, <3>6 DEF FreshBy
    <2> QED
        BY <2>2, <2>3, <2>4, <2>5 DEF Inside
<1>5. Fresh'
    BY <1>3, <1>4 DEF Fresh
<1>6. ReplacedWhole'
    BY <1>1 DEF ReplacedWhole
<1> QED
    BY <1>5, <1>6

\* A session ends: only the commit of an edit replaces contents, and whoever
\* has read them is late from then on.
LEMMA FreshEnds ==
    ASSUME TypeOK, Positions, ReplacedWhole, Fresh, NEW w \in Workers, Ends(w)
    PROVE  Fresh' /\ ReplacedWhole'
<1> DEFINE s == req[w].sim
<1>1. req \in [Workers -> Request] /\ \A v \in Workers: req[v] \in Request /\ WellFormed(req[v], DOMAIN sims)
    BY Types DEF TypeOK, Positions
<1>2. FreshBy(req[w])'
    <2>1. req'[w].op = "idle"
        <3>1. req'[w] = Idle
            BY EndMoves
        <3> QED
            BY <3>1 DEF Idle
    <2> QED
        BY <2>1 DEF FreshBy
<1>3. CASE UpdateCommits(w)
    <2>1. /\ s \in DOMAIN sims /\ DOMAIN sims' = DOMAIN sims
          /\ \A r \in DOMAIN sims: r # s =>
                 sims'[r].terms = sims[r].terms /\ sims'[r].child = sims[r].child
        BY <1>3, RewriteEffect DEF Rewrites
    <2>2. req[w].op = "update" /\ req[w].pc = "flush" /\ late' = (late \cup Overtaken(w)) \ {w}
          /\ crossed' = crossed \cup (IF w \in late THEN {s} ELSE {})
        BY <1>3 DEF UpdateCommits, At
    <2>3. ASSUME NEW v \in Workers \ {w}, v \notin late'
          PROVE  FreshBy(req[v])'
        <3>1. v \notin late /\ v \notin Overtaken(w)
            BY <2>2, <2>3
        <3>2. FreshBy(req[v])
            BY <3>1 DEF Fresh
        <3>3. req[v].op = "update" \/ (req[v].op = "clone" /\ req[v].pc = "read") => req[v].sim # s
            BY <3>1 DEF Overtaken
        <3>4. req'[v] = req[v]
            <4>1. req[v].pc = "wait" => req[v].op = "update"
                BY <1>1 DEF WellFormed, Request
            <4> QED
                BY <1>3, <3>3, <4>1 DEF UpdateCommits, PassOver
        <3>5. req[v].op \in {"clone", "update"} => req[v].sim \in DOMAIN sims
            BY <1>1 DEF WellFormed
        <3>6. CASE req[v].op = "update" \/ (req[v].op = "clone" /\ req[v].pc = "read")
            <4>1. sims'[req[v].sim].terms = sims[req[v].sim].terms
                  /\ sims'[req[v].sim].child = sims[req[v].sim].child
                BY <2>1, <3>3, <3>5, <3>6
            <4>2. req[v].sim \in crossed' => req[v].sim \in crossed
                BY <2>2, <3>3, <3>6
            <4> QED
                BY <3>2, <3>4, <3>6, <4>1, <4>2 DEF FreshBy
        <3>7. CASE ~(req[v].op = "update" \/ (req[v].op = "clone" /\ req[v].pc = "read"))
            BY <3>2, <3>4, <3>7 DEF FreshBy
        <3> QED
            BY <3>6, <3>7
    <2>4. ReplacedWhole'
        <3> SUFFICES ASSUME NEW r \in DOMAIN sims, r \notin crossed'
                     PROVE  Whole(sims'[r].terms, sims'[r].child)
            BY <2>1 DEF ReplacedWhole, Whole
        <3>1. CASE r # s
            BY <2>1, <2>2, <3>1 DEF ReplacedWhole, Whole
        <3>2. CASE r = s
            <4> DEFINE p == req[w].terms
                       d == sims[s].child
                       t == IF p # req[w].loaded[2] THEN p ELSE sims[s].terms
                       c == [n \in Names |-> (d[n] \ req[w].child[n]) \cup Computed(w, p)[n]]
            <4>1. w \notin late
                BY <2>2, <3>2
            <4>2. req[w].loaded[2] = sims[s].terms /\ req[w].table = 4
                  /\ \A i \in 1..3: i < req[w].table => req[w].child[Tables[i]] = d[Tables[i]]
                BY <2>2, <4>1 DEF Fresh, FreshBy
            <4>3. \A n \in Names: req[w].child[n] = d[n]
                BY <4>2, TableNames
            <4>4. \A n \in Names: c[n] = Computed(w, p)[n]
                BY <4>3
            <4>5. c = Computed(w, p)
                <5>1. Computed(w, p) = [n \in Names |-> Computed(w, p)[n]]
                    BY DEF Computed
                <5> QED
                    BY <4>4, <5>1
            <4>6. t = p
                BY <4>2
            <4>7. sims'[s].terms = t /\ sims'[s].child = c
                <5>1. sims[s] \in Simulation /\ s \in 1..Len(sims) /\ sims \in Seq(Simulation)
                    BY <2>1, Types DEF TypeOK
                <5>2. sims' = [sims EXCEPT ![s] = [sims[s] EXCEPT !.terms = t, !.child = c]]
                    BY <1>3, <2>1 DEF UpdateCommits, NewRows
                <5> HIDE DEF t, c
                <5>3. sims'[s] = [sims[s] EXCEPT !.terms = t, !.child = c]
                    BY <2>1, <5>2
                <5> QED
                    BY <5>1, <5>3 DEF Simulation
            <4> HIDE DEF t, c
            <4> QED
                BY <3>2, <4>5, <4>6, <4>7 DEF Whole
        <3> QED
            BY <3>1, <3>2
    <2> QED
        BY <1>2, <2>3, <2>4 DEF Fresh
<1>4. CASE ~UpdateCommits(w)
    <2>1. req' = [req EXCEPT ![w] = Idle] /\ late' = late \ {w}
        BY <1>4 DEF Ends, Abort, Insert, InsertRefused, InsertProposal, Rewrites,
                    ConfirmCommits, ArchiveCommits, Finish
    <2>2. /\ DOMAIN sims \subseteq DOMAIN sims'
          /\ \A r \in DOMAIN sims: /\ sims'[r].terms = sims[r].terms /\ sims'[r].child = sims[r].child
                                   /\ r \in crossed' <=> r \in crossed
          /\ \A r \in DOMAIN sims' \ DOMAIN sims: r \notin crossed' =>
                 Whole(sims'[r].terms, sims'[r].child)
        <3>1. CASE Insert(w)
            <4> DEFINE n == Len(sims) + 1
            <4>1. /\ DOMAIN sims' = 1..n /\ DOMAIN sims = 1..Len(sims) /\ Len(sims) \in Nat
                  /\ \A r \in DOMAIN sims: sims'[r] = sims[r]
                BY <3>1, InsertEffect, Types
            <4>2. sims'[n] = [tenant |-> req[w].tenant, codigo |-> req[w].codigo,
                      status |-> StatusOf(req[w].op), linked |-> Linked(req[w].op),
                      key |-> req[w].key, terms |-> req[w].terms, child |-> req[w].child]
                BY <3>1, InsertEffect
            <4>3. sims'[n].terms = req[w].terms /\ sims'[n].child = req[w].child
                BY <4>2
            <4>4. crossed' = crossed \cup (IF w \in late THEN {n} ELSE {}) /\ req[w].pc = "insert"
                BY <3>1 DEF Insert
            <4>5. w \notin late => Whole(req[w].terms, req[w].child)
                <5>1. req[w].op \in {"create", "clone"}
                    BY <1>1, <4>4 DEF WellFormed, Request
                <5> QED
                    BY <4>4, <5>1 DEF Fresh, FreshBy
            <4>6. \A r \in DOMAIN sims' \ DOMAIN sims: r = n
                BY <4>1
            <4>7. n \notin DOMAIN sims /\ n \in 1..n
                BY <4>1
            <4> HIDE DEF n
            <4>8. \A r \in DOMAIN sims: sims'[r].terms = sims[r].terms /\ sims'[r].child = sims[r].child
                                         /\ (r \in crossed' <=> r \in crossed)
                BY <4>1, <4>4, <4>7
            <4>9. \A r \in DOMAIN sims' \ DOMAIN sims: r \notin crossed' =>
                      Whole(sims'[r].terms, sims'[r].child)
                BY <4>3, <4>4, <4>5, <4>6
            <4>10. DOMAIN sims \subseteq DOMAIN sims'
                BY <3>1, EndMoves DEF Ends
            <4> QED
                BY <4>8, <4>9, <4>10
        <3>2. CASE ConfirmCommits(w) \/ ArchiveCommits(w)
            <4>1. req[w].op # "update" /\ crossed' = crossed
                BY <3>2 DEF ConfirmCommits, ArchiveCommits, At
            <4> QED
                BY <3>2, <4>1, RewriteEffect DEF Rewrites
        <3>3. CASE Abort(w) \/ InsertRefused(w) \/ InsertProposal(w)
            BY <3>3 DEF Abort, InsertRefused, InsertProposal
        <3> QED
            BY <1>4, <3>1, <3>2, <3>3 DEF Ends, Rewrites
    <2>3. ASSUME NEW v \in Workers \ {w}, v \notin late'
          PROVE  FreshBy(req[v])'
        <3>1. v \notin late /\ req'[v] = req[v]
            BY <1>1, <2>1, <2>3
        <3>2. FreshBy(req[v])
            BY <3>1 DEF Fresh
        <3>3. req[v].op \in {"clone", "update"} => req[v].sim \in DOMAIN sims
            BY <1>1 DEF WellFormed
        <3> QED
            BY <2>2, <3>1, <3>2, <3>3 DEF FreshBy, Whole
    <2>4. ReplacedWhole'
        <3> SUFFICES ASSUME NEW r \in DOMAIN sims', r \notin crossed'
                     PROVE  Whole(sims'[r].terms, sims'[r].child)
            BY DEF ReplacedWhole, Whole
        <3>1. CASE r \in DOMAIN sims
            <4>1. Whole(sims[r].terms, sims[r].child)
                BY <2>2, <3>1 DEF ReplacedWhole, Whole
            <4> QED
                BY <2>2, <3>1, <4>1
        <3>2. CASE r \notin DOMAIN sims
            BY <2>2, <3>2
        <3> QED
            BY <3>1, <3>2
    <2> QED
        BY <1>2, <2>3, <2>4 DEF Fresh
<1> QED
    BY <1>3, <1>4

\* Contents that no overtaken session wrote are whole, through every step.
LEMMA FreshInv ==
    ASSUME TypeOK, Positions, ReplacedWhole, Fresh, Next
    PROVE  Fresh' /\ ReplacedWhole'
<1>1. PICK w \in Workers: Begin(w) \/ Inside(w) \/ Ends(w)
    BY NextCases
<1> QED
    BY <1>1, FreshBegins, FreshInside, FreshEnds

-----------------------------------------------------------------------------
\* The invariant is inductive.
LEMMA Inductive == IInv /\ [Next]_vars => IInv'
<1>1. ASSUME IInv, Next PROVE IInv'
    BY <1>1, ShapeInv, CodesInv, KeyedInv, FirmInv, CarriedInv, QuotedInv, LocksInv, FreshInv DEF IInv
<1>2. ASSUME IInv, UNCHANGED vars PROVE IInv'
    <2> USE <1>2 DEF vars
    <2>1. TypeOK' /\ Positions' /\ LocksFollowTables'
        BY DEF IInv, TypeOK, Positions, LocksFollowTables
    <2>2. Counted' /\ Held' /\ CodesFollowCommits' /\ KeyedOnce'
        BY DEF IInv, Counted, Of, Held, CodesFollowCommits, KeyedOnce
    <2>3. LinkedAreFirm' /\ Carried' /\ QuotedAreLinked' /\ ProposalQuotesSimulation'
        BY DEF IInv, LinkedAreFirm, Carried, CarriedBy, QuotedAreLinked, ProposalQuotesSimulation
    <2>4. Fresh' /\ ReplacedWhole'
        BY DEF IInv, Fresh, FreshBy, Whole, ReplacedWhole
    <2> QED
        BY <2>1, <2>2, <2>3, <2>4 DEF IInv
<1> QED
    BY <1>1, <1>2

LEMMA Always == Spec => []IInv
BY InitIInv, Inductive, PTL DEF Spec

-----------------------------------------------------------------------------
\* An open session that cannot take its next step.
Stuck(w) ==
    \/ req[w].op \in {"create", "clone"} /\ req[w].pc = "code" /\ CounterHeld(w)
    \/ req[w].pc = "wait" /\ RowsHeld(w)

\* A session stuck at one child table waits for an edit that is past it, and
\* one that waits for the counter waits for a session that is not stuck.
LEMMA StuckBehind ==
    ASSUME IInv, NEW w \in Workers, Stuck(w)
    PROVE  \E v \in Workers:
               /\ req[v].op # "idle"
               /\ ~Stuck(v) \/ (req[w].table \in 1..3 /\ req[v].table \in 1..3
                                /\ req[v].table > req[w].table)
<1>1. TypeOK /\ Positions /\ LocksFollowTables
    BY DEF IInv
<1>2. \A v \in Workers: req[v] \in Request /\ WellFormed(req[v], DOMAIN sims)
    BY <1>1, Types DEF Positions
<1>3. CASE CounterHeld(w)
    <2>1. PICK v \in Workers: req[v].codigo > 0
        BY <1>3 DEF CounterHeld
    <2>2. req[v].pc = "insert"
        BY <1>2, <2>1 DEF WellFormed
    <2>3. req[v].op # "idle" /\ ~Stuck(v)
        BY <1>2, <2>2 DEF WellFormed, Stuck
    <2> QED
        BY <2>3
<1>4. CASE req[w].pc = "wait" /\ RowsHeld(w)
    <2>1. req[w].table \in 1..3
        BY <1>2, <1>4 DEF WellFormed
    <2>2. PICK v \in Workers: /\ req[v].op = "update"
                              /\ req[v].child[Tables[req[w].table]] \cap req[w].seen # {}
        BY <1>4 DEF RowsHeld, Statement
    <2>3. req[v].table \in Nat /\ ~(req[w].table >= req[v].table)
        <3>1. req[v].child[Tables[req[w].table]] # {}
            BY <2>2
        <3>2. req[v].table \in Nat
            BY <1>2 DEF Request
        <3> QED
            BY <1>1, <2>1, <2>2, <3>1, <3>2 DEF LocksFollowTables
    <2>4. req[v].table > req[w].table
        BY <2>1, <2>3
    <2>5. CASE Stuck(v)
        <3>1. req[v].pc = "wait"
            BY <2>2, <2>5 DEF Stuck
        <3>2. req[v].table \in 1..3
            BY <1>2, <3>1 DEF WellFormed
        <3> QED
            BY <2>1, <2>2, <2>4, <3>2
    <2>6. CASE ~Stuck(v)
        BY <2>2, <2>6
    <2> QED
        BY <2>5, <2>6
<1> QED
    BY <1>3, <1>4 DEF Stuck

\* There are three child tables, so the chain of waits ends.
LEMMA NotAllStuck == IInv => SomeoneGoesOn
<1> SUFFICES ASSUME IInv, NEW w \in Workers, req[w].op # "idle"
             PROVE  \E v \in Workers: req[v].op # "idle" /\ ~Stuck(v)
    BY DEF SomeoneGoesOn, Stuck
<1> SUFFICES ASSUME \A v \in Workers: req[v].op # "idle" => Stuck(v)
             PROVE  FALSE
    OBVIOUS
<1>1. PICK v1 \in Workers: req[v1].op # "idle" /\ req[v1].table \in 1..3
                           /\ req[w].table \in 1..3 /\ req[v1].table > req[w].table
    BY StuckBehind
<1>2. PICK v2 \in Workers: req[v2].op # "idle" /\ req[v2].table \in 1..3
                           /\ req[v2].table > req[v1].table
    BY <1>1, StuckBehind
<1>3. PICK v3 \in Workers: req[v3].op # "idle" /\ req[v3].table \in 1..3
                           /\ req[v3].table > req[v2].table
    BY <1>2, StuckBehind
<1> QED
    BY <1>1, <1>2, <1>3

-----------------------------------------------------------------------------
\* The book: its variables are functions of the table and of the sessions.

\* A function on 1..n that grows by one value is the sequence appended to.
LEMMA Appended ==
    ASSUME NEW S, NEW n \in Nat, NEW f \in [1..n -> S], NEW g \in [1..(n + 1) -> S],
           \A i \in 1..n: g[i] = f[i]
    PROVE  Len(f) = n /\ g = Append(f, g[n + 1])
<1>1. f \in Seq(S) /\ g \in Seq(S)
    OBVIOUS
<1>2. Len(f) = n /\ Len(g) = n + 1
    BY <1>1, LenProperties
<1>3. g[n + 1] \in S
    OBVIOUS
<1> DEFINE h == Append(f, g[n + 1])
<1>4. h \in Seq(S) /\ Len(h) = n + 1 /\ \A i \in 1..(n + 1): h[i] = g[i]
    BY <1>1, <1>2, <1>3
<1> HIDE DEF h
<1>5. g = h
    BY <1>1, <1>2, <1>4, SeqEqual
<1> QED
    BY <1>2, <1>5 DEF h

\* What a request that has not ended is asking, if it is one the book counts.
LEMMA AskedBy ==
    \A a: a \in Asked <=> \E v \in Workers: req[v].op \in Asks /\ a = <<req[v].op, req[v].sim>>
BY DEF Asked

LEMMA AskedByNext ==
    \A a: a \in Asked' <=> \E v \in Workers: req'[v].op \in Asks /\ a = <<req'[v].op, req'[v].sim>>
BY DEF Asked

\* Session v asks after a step what it asked before it.
Steady(v) == (req'[v].op \in Asks \/ req[v].op \in Asks) =>
                 req'[v].op = req[v].op /\ req'[v].sim = req[v].sim

LEMMA AskedSame ==
    ASSUME \A v \in Workers: Steady(v)
    PROVE  Asked' = Asked
<1>1. \A a: a \in Asked' <=> a \in Asked
    BY AskedBy, AskedByNext DEF Steady
<1> QED
    BY <1>1

LEMMA AskedMore ==
    ASSUME NEW w \in Workers, \A v \in Workers \ {w}: Steady(v),
           req[w].op \notin Asks, req'[w].op \in Asks
    PROVE  Asked' = Asked \cup {<<req'[w].op, req'[w].sim>>}
<1>1. \A a: a \in Asked' <=> a \in Asked \/ a = <<req'[w].op, req'[w].sim>>
    BY AskedBy, AskedByNext DEF Steady
<1> QED
    BY <1>1

LEMMA AskedDone ==
    ASSUME NEW w \in Workers, \A v \in Workers \ {w}: Steady(v),
           req[w].op \in Asks, req'[w].op \notin Asks
    PROVE  Book!Done(req[w].op, req[w].sim)
<1> DEFINE b == <<req[w].op, req[w].sim>>
<1>1. b \in Asked
    BY AskedBy
<1>2. \A a: a # b => (a \in Asked' <=> a \in Asked)
    BY AskedBy, AskedByNext DEF Steady
<1> HIDE DEF b
<1>3. Asked' = Asked \/ Asked' = Asked \ {b}
    BY <1>1, <1>2
<1> QED
    BY <1>1, <1>3 DEF Book!Done, b

\* A session that opens or goes on leaves the others alone, one that ends
\* leaves what they ask.
LEMMA OthersSteady ==
    ASSUME TypeOK, Positions, NEW w \in Workers, Begin(w) \/ Inside(w) \/ Ends(w)
    PROVE  \A v \in Workers \ {w}: Steady(v)
<1>1. CASE Begin(w)
    BY <1>1, Opened DEF Steady
<1>2. CASE Inside(w)
    <2>1. req \in [Workers -> Request]
        BY DEF TypeOK
    <2>2. \A v \in Workers \ {w}: req'[v] = req[v]
        BY <1>2, <2>1 DEF Inside, TakeCode, ReadTable, DeleteBegins, DeleteEnds
    <2> QED
        BY <2>2 DEF Steady
<1>3. CASE Ends(w)
    <2> SUFFICES ASSUME NEW v \in Workers \ {w} PROVE Steady(v)
        OBVIOUS
    <2>1. req[v] \in Request
        BY Types
    <2>2. PICK b \in SUBSET Batch: req'[v] = req[v] \/ req'[v] = [req[v] EXCEPT !.seen = b]
        BY <1>3, EndMoves
    <2>3. req'[v].op = req[v].op /\ req'[v].sim = req[v].sim
        BY <2>1, <2>2 DEF Request
    <2> QED
        BY <2>3 DEF Steady
<1> QED
    BY <1>1, <1>2, <1>3

BookVars == <<Rows, Statuses, Contents, proposals, Asked>>

\* The table as it was is the book's as it was.
LEMMA TableSame ==
    ASSUME sims' = sims
    PROVE  Rows' = Rows /\ Statuses' = Statuses /\ Contents' = Contents
BY DEF Rows, Statuses, Contents

LEMMA RefineInit == Init => Book!Init
<1> SUFFICES ASSUME Init PROVE Book!Init
    OBVIOUS
<1>1. sims = <<>> /\ DOMAIN sims = {}
    BY DEF Init
<1>2. Rows = <<>> /\ Statuses = <<>> /\ Contents = <<>>
    BY <1>1 DEF Rows, Statuses, Contents
<1>3. Asked = {}
    <2>1. \A w \in Workers: req[w].op = "idle"
        BY DEF Init, Idle
    <2> QED
        BY <2>1 DEF Asked, Asks
<1>4. proposals = [s \in 1..MaxSims |-> {}]
    BY DEF Init
<1> QED
    BY <1>2, <1>3, <1>4 DEF Book!Init

\* The columns as functions, before and after a step.
LEMMA Columns ==
    ASSUME TypeOK, TypeOK'
    PROVE  LET R == [tenant: Tenants, codigo: Nat, linked: BOOLEAN]
               n == Len(sims)
               m == Len(sims')
           IN  /\ Rows \in [1..n -> R] /\ Rows' \in [1..m -> R]
               /\ Statuses \in [1..n -> Status] /\ Statuses' \in [1..m -> Status]
               /\ Contents \in [1..n -> Snapshot] /\ Contents' \in [1..m -> Snapshot]
<1>1. sims \in Seq(Simulation) /\ sims' \in Seq(Simulation)
    BY DEF TypeOK
<1>2. DOMAIN sims = 1..Len(sims) /\ DOMAIN sims' = 1..Len(sims')
    BY <1>1, LenProperties
<1>3. (\A s \in DOMAIN sims: sims[s] \in Simulation) /\ (\A s \in DOMAIN sims': sims'[s] \in Simulation)
    BY <1>1, <1>2, ElementOfSeq
<1> QED
    BY <1>2, <1>3 DEF Rows, Statuses, Contents, Simulation, Snapshot

\* The commit of a create or a clone is one addition, with the next code.
LEMMA RefineInsert ==
    ASSUME IInv, TypeOK', NEW w \in Workers, Insert(w)
    PROVE  Book!Next
<1> DEFINE n == Len(sims)
           t == req[w].tenant
           linked == Linked(req[w].op)
           new == n + 1
<1>1. TypeOK /\ Positions /\ Counted /\ Held
    BY DEF IInv
<1>2. req[w] \in Request /\ req[w].op \in {"create", "clone"} /\ req[w].codigo > 0
    BY <1>1, Types DEF Insert, Positions, WellFormed, Request
<1>3. t \in Tenants /\ linked \in BOOLEAN
    BY <1>2 DEF Request, Linked
<1>4. n \in Nat /\ DOMAIN sims = 1..n /\ \A s \in 1..n: sims[s] \in Simulation
    BY <1>1, Types
<1>5. /\ Len(sims') = new /\ DOMAIN sims' = 1..new
      /\ sims'[new] = [tenant |-> t, codigo |-> req[w].codigo,
                       status |-> StatusOf(req[w].op), linked |-> linked,
                       key |-> req[w].key, terms |-> req[w].terms, child |-> req[w].child]
      /\ \A s \in 1..n: sims'[s] = sims[s]
    BY <1>1, <1>4, InsertEffect
<1>6. req[w].codigo = Book!Numbered(t) + 1
    <2>1. req[w].codigo = Cardinality(Of(t, n)) + 1
        BY <1>1, <1>2, <1>3 DEF Counted, Held
    <2>2. Of(t, n) = {s \in DOMAIN Rows: Rows[s].tenant = t}
        BY <1>4 DEF Of, Rows
    <2> QED
        BY <2>1, <2>2 DEF Book!Numbered, Book!Cardinality, Cardinality
<1>7. /\ \A s \in 1..n: Rows'[s] = Rows[s] /\ Statuses'[s] = Statuses[s]
                        /\ Contents'[s] = Contents[s]
      /\ Rows'[new] = [tenant |-> t, codigo |-> Book!Numbered(t) + 1, linked |-> linked]
      /\ Statuses'[new] = IF linked THEN "confirmado" ELSE "rascunho"
    <2>1. sims'[new].tenant = t /\ sims'[new].codigo = req[w].codigo
          /\ sims'[new].linked = linked /\ sims'[new].status = StatusOf(req[w].op)
        BY <1>5
    <2>2. StatusOf(req[w].op) = IF linked THEN "confirmado" ELSE "rascunho"
        BY <1>2 DEF StatusOf, Linked
    <2>3. new \in DOMAIN sims' /\ \A s \in 1..n: s \in DOMAIN sims /\ s \in DOMAIN sims'
        BY <1>4, <1>5
    <2> QED
        BY <1>5, <1>6, <2>1, <2>2, <2>3 DEF Rows, Statuses, Contents
<1>8. /\ Len(Rows) = n
      /\ Rows' = Append(Rows, Rows'[new])
      /\ Statuses' = Append(Statuses, Statuses'[new])
      /\ Contents' = Append(Contents, Contents'[new])
    BY <1>1, <1>4, <1>5, <1>7, Columns, Appended
<1>9. Asked' = Asked
    <2>1. Ends(w)
        BY DEF Ends
    <2>2. \A v \in Workers \ {w}: Steady(v)
        BY <1>1, <2>1, OthersSteady
    <2>3. Steady(w)
        <3>1. req'[w] = Idle
            BY <1>1, <2>1, EndMoves
        <3> QED
            BY <1>2, <3>1 DEF Steady, Asks, Idle
    <2> QED
        BY <2>2, <2>3, AskedSame
<1>10. proposals' = proposals
    BY DEF Insert
<1> HIDE DEF linked, t, new
<1>11. Book!Add(t, linked)
    BY <1>7, <1>8, <1>9, <1>10 DEF Book!Add, new
<1> QED
    BY <1>3, <1>11 DEF Book!Next

\* The commit of an edit, a confirmation or an archival is one step of the
\* book, also when what it was asked of has changed in between.
LEMMA RefineRewrite ==
    ASSUME IInv, TypeOK', NEW w \in Workers, Rewrites(w)
    PROVE  [Book!Next]_BookVars
<1> DEFINE s == req[w].sim
           op == req[w].op
<1>1. TypeOK /\ Positions /\ Ends(w)
    BY DEF IInv, Ends
<1>2. req[w] \in Request /\ op \in {"update", "confirm", "archive"} /\ s \in DOMAIN sims
    BY <1>1, Types DEF Rewrites, UpdateCommits, ConfirmCommits, ArchiveCommits, At,
                       Positions, WellFormed
<1>3. DOMAIN sims' = DOMAIN sims /\ sims[s] \in Simulation
      /\ \A r \in DOMAIN sims:
            /\ sims'[r].tenant = sims[r].tenant
            /\ sims'[r].codigo = sims[r].codigo
            /\ sims'[r].linked = sims[r].linked
            /\ op # "update" \/ r # s =>
                  sims'[r].terms = sims[r].terms /\ sims'[r].child = sims[r].child
    BY <1>1, <1>2, RewriteEffect, Types
<1>4. Rows' = Rows /\ s \in DOMAIN Rows
    BY <1>2, <1>3 DEF Rows
<1>5. \A v \in Workers \ {w}: Steady(v)
    BY <1>1, OthersSteady
<1>6. req'[w].op = "idle"
    <2>1. req'[w] = Idle
        BY <1>1, EndMoves
    <2> QED
        BY <2>1 DEF Idle
<1>7. proposals' = proposals
    BY DEF Rewrites, UpdateCommits, ConfirmCommits, ArchiveCommits
<1>8. op \in Asks => Book!Done(op, s)
    BY <1>5, <1>6, AskedDone DEF Asks
<1>9. CASE UpdateCommits(w)
    <2>1. op = "update" /\ Book!Done("update", s)
        BY <1>8, <1>9 DEF UpdateCommits, At, Asks
    <2>2. \A r \in DOMAIN sims: sims'[r].status = sims[r].status
        <3> DEFINE t == IF req[w].terms # req[w].loaded[2] THEN req[w].terms ELSE sims[s].terms
                   c == [n \in Names |-> (sims[s].child[n] \ req[w].child[n])
                                             \cup NewRows(w)[n]]
        <3>1. sims' = [sims EXCEPT ![s] = [sims[s] EXCEPT !.terms = t, !.child = c]]
            BY <1>9, <1>2 DEF UpdateCommits
        <3> HIDE DEF t, c
        <3>2. [sims[s] EXCEPT !.terms = t, !.child = c].status = sims[s].status
            BY <1>3 DEF Simulation
        <3> QED
            BY <1>2, <3>1, <3>2
    <2>3. Statuses' = Statuses
        BY <1>3, <2>2 DEF Statuses
    <2>4. Contents' = [Contents EXCEPT ![s] = Contents'[s]]
        BY <1>2, <1>3 DEF Contents
    <2>5. Book!Revise(s)
        BY <1>4, <1>7, <2>1, <2>3, <2>4 DEF Book!Revise
    <2> QED
        BY <1>4, <2>5 DEF Book!Next
<1>10. CASE ConfirmCommits(w)
    <2>1. op = "confirm" /\ Book!Done("confirm", s)
        BY <1>8, <1>10 DEF ConfirmCommits, At, Asks
    <2>2. Contents' = Contents
        BY <1>3, <2>1 DEF Contents
    <2>3. sims' = [sims EXCEPT ![s] = [sims[s] EXCEPT !.status = "confirmado"]]
        BY <1>2, <1>10 DEF ConfirmCommits
    <2>4. \A r \in DOMAIN sims:
              sims'[r].status = IF r = s THEN "confirmado" ELSE sims[r].status
        BY <1>2, <1>3, <2>3 DEF Simulation
    <2>5. Statuses' = [Statuses EXCEPT ![s] = "confirmado"]
        BY <1>2, <1>3, <2>4 DEF Statuses
    <2>6. Book!Confirm(s)
        BY <1>4, <1>7, <2>1, <2>2, <2>5 DEF Book!Confirm
    <2> QED
        BY <1>4, <2>6 DEF Book!Next
<1>11. CASE ArchiveCommits(w)
    <2> DEFINE x == IF req[w].loaded[1] # "arquivado" THEN "arquivado" ELSE sims[s].status
    <2>1. op = "archive"
        BY <1>11 DEF ArchiveCommits, At
    <2>2. Contents' = Contents
        BY <1>3, <2>1 DEF Contents
    <2>3. sims' = [sims EXCEPT ![s] = [sims[s] EXCEPT !.status = x]]
        BY <1>2, <1>11 DEF ArchiveCommits
    <2> HIDE DEF x
    <2>4. \A r \in DOMAIN sims: sims'[r].status = IF r = s THEN x ELSE sims[r].status
        BY <1>2, <1>3, <2>3 DEF Simulation
    <2>5. Statuses' = [Statuses EXCEPT ![s] = x]
        BY <1>2, <1>3, <2>4 DEF Statuses
    <2>6. Asked' = Asked
        BY <1>5, <1>6, <2>1, AskedSame DEF Steady, Asks
    <2>7. CASE req[w].loaded[1] # "arquivado"
        <3>1. Book!Archive(s)
            BY <1>4, <1>7, <2>2, <2>5, <2>6, <2>7 DEF Book!Archive, x
        <3> QED
            BY <1>4, <3>1 DEF Book!Next
    <2>8. CASE req[w].loaded[1] = "arquivado"
        <3>1. \A r \in DOMAIN sims: sims'[r].status = sims[r].status
            BY <1>2, <2>4, <2>8 DEF x
        <3>2. Statuses' = Statuses
            BY <1>3, <3>1 DEF Statuses
        <3> QED
            BY <1>4, <1>7, <2>2, <2>6, <3>2 DEF BookVars
    <2> QED
        BY <2>7, <2>8
<1> QED
    BY <1>9, <1>10, <1>11 DEF Rewrites

\* The commit of a proposal quotes all of what its simulation says then.
LEMMA RefineProposal ==
    ASSUME IInv, NEW w \in Workers, InsertProposal(w)
    PROVE  Book!Next
<1> DEFINE s == req[w].sim
           q == [terms |-> req[w].terms, child |-> req[w].child]
<1>1. TypeOK /\ Positions /\ Carried /\ Ends(w)
    BY DEF IInv, Ends
<1>2. req[w] \in Request /\ req[w].op = "propose" /\ req[w].pc = "flush"
      /\ s \in DOMAIN sims /\ sims[s] \in Simulation
    BY <1>1, Types DEF InsertProposal, At, Positions, WellFormed
<1>3. sims' = sims /\ s \in DOMAIN Rows
    BY <1>2 DEF InsertProposal, Rows
<1>4. Book!Done("propose", s)
    <2>1. req'[w] = Idle
        BY <1>1, EndMoves
    <2>2. req'[w].op \notin Asks /\ req[w].op \in Asks
        BY <1>2, <2>1 DEF Idle, Asks
    <2> QED
        BY <1>1, <1>2, <2>2, OthersSteady, AskedDone
<1>5. Contents[s] = q
    <2>1. req[w].terms = sims[s].terms /\ req[w].table = 4
          /\ \A i \in 1..3: i < req[w].table =>
                 req[w].child[Tables[i]] = sims[s].child[Tables[i]]
        BY <1>1, <1>2 DEF Carried, CarriedBy
    <2>2. \A n \in Names: req[w].child[n] = sims[s].child[n]
        BY <2>1, TableNames
    <2>3. req[w].child = sims[s].child
        BY <1>2, <2>2 DEF Request, Simulation, Children
    <2> QED
        BY <1>2, <2>1, <2>3 DEF Contents
<1> HIDE DEF q
<1>6. proposals' = [proposals EXCEPT ![s] = IF @ = {} THEN {q} ELSE @]
    BY DEF InsertProposal, q
<1>7. CASE proposals[s] = {}
    <2>1. proposals' = [proposals EXCEPT ![s] = {Contents[s]}]
        BY <1>5, <1>6, <1>7
    <2>2. Book!Quote(s)
        BY <1>3, <1>4, <1>7, <2>1, TableSame DEF Book!Quote
    <2> QED
        BY <1>3, <2>2 DEF Book!Next
<1>8. CASE proposals[s] # {}
    <2>1. proposals' = proposals
        BY <1>1, <1>6, <1>8 DEF TypeOK
    <2>2. Book!GiveUp("propose", s)
        BY <1>3, <1>4, <2>1, TableSame DEF Book!GiveUp
    <2> QED
        BY <1>3, <2>2 DEF Book!Next, Book!Before
<1> QED
    BY <1>7, <1>8

\* A request that opens asks, or is not counted; it is not done anything to.
LEMMA RefineBegin ==
    ASSUME IInv, NEW w \in Workers, Begin(w)
    PROVE  [Book!Next]_BookVars
<1>1. TypeOK /\ Positions /\ req \in [Workers -> Request] /\ Idle \in Request
    BY IdleType DEF IInv, TypeOK
<1>2. UNCHANGED <<Rows, Statuses, Contents, proposals>>
    BY <1>1, BeginMoves, TableSame
<1>3. \A v \in Workers \ {w}: Steady(v)
    BY <1>1, OthersSteady
<1>4. req[w].op \notin Asks
    <2>1. req[w].op = "idle"
        BY DEF Begin, Create, Clone, Propose, Update, Confirm, Archive, Load, Open
    <2> QED
        BY <2>1 DEF Asks
<1>5. ASSUME NEW op \in Asks, NEW s \in DOMAIN sims, req'[w].op = op, req'[w].sim = s,
             sims[s].status = Book!Before[op], op = "propose" => sims[s].linked
      PROVE  Book!Next
    <2>1. Asked' = Asked \cup {<<op, s>>}
        BY <1>3, <1>4, <1>5, AskedMore
    <2>2. Book!Ask(op, s) /\ s \in DOMAIN Rows /\ op \in DOMAIN Book!Before
        BY <1>2, <1>5, <2>1 DEF Book!Ask, Book!Before, Asks, Rows, Statuses
    <2> QED
        BY <2>2 DEF Book!Next
<1>6. ASSUME req'[w].op \notin Asks PROVE UNCHANGED BookVars
    BY <1>2, <1>3, <1>4, <1>6, AskedSame DEF Steady, BookVars
<1>7. ASSUME NEW s \in DOMAIN sims, Propose(w, s) PROVE Book!Next
    <2>1. req'[w].op = "propose" /\ req'[w].sim = s
        BY <1>1, <1>7 DEF Propose, Load, Open, Idle, Request
    <2>2. sims[s].status = Book!Before["propose"] /\ sims[s].linked
        BY <1>7 DEF Propose, Book!Before
    <2> QED
        BY <1>5, <2>1, <2>2 DEF Asks
<1>8. ASSUME NEW s \in DOMAIN sims, Confirm(w, s) PROVE Book!Next
    <2>1. req'[w].op = "confirm" /\ req'[w].sim = s
        BY <1>1, <1>8 DEF Confirm, Load, Open, Idle, Request
    <2>2. sims[s].status = Book!Before["confirm"]
        BY <1>8 DEF Confirm, Book!Before
    <2> QED
        BY <1>5, <2>1, <2>2 DEF Asks
<1>9. ASSUME NEW s \in DOMAIN sims, NEW p \in Terms, Update(w, s, p) PROVE Book!Next
    <2>1. req'[w].op = "update" /\ req'[w].sim = s
        BY <1>1, <1>9 DEF Update, Open, Idle, Request
    <2>2. sims[s].status = Book!Before["update"]
        BY <1>9 DEF Update, Book!Before
    <2> QED
        BY <1>5, <2>1, <2>2 DEF Asks
<1>10. ASSUME NEW s \in DOMAIN sims, Clone(w, s) \/ Archive(w, s) PROVE UNCHANGED BookVars
    <2>1. CASE Clone(w, s)
        BY <1>1, <1>6, <2>1 DEF Clone, Load, Open, Idle, Request, Asks
    <2>2. CASE Archive(w, s)
        BY <1>1, <1>6, <2>2 DEF Archive, Load, Open, Idle, Request, Asks
    <2> QED
        BY <1>10, <2>1, <2>2
<1>11. ASSUME NEW t \in Tenants, NEW k \in Keys \cup {NoKey}, NEW p \in Terms, Create(w, t, k, p)
       PROVE  UNCHANGED BookVars
    <2>1. req'[w].op = "create"
        BY <1>1, <1>11 DEF Create, Open, Idle, Request
    <2> QED
        BY <1>6, <2>1 DEF Asks
<1> QED
    BY <1>7, <1>8, <1>9, <1>10, <1>11 DEF Begin

\* Statements inside a request, and requests that end with nothing written.
LEMMA RefineRest ==
    ASSUME IInv, NEW w \in Workers, Inside(w) \/ Abort(w) \/ InsertRefused(w)
    PROVE  [Book!Next]_BookVars
<1>1. TypeOK /\ Positions /\ req[w] \in Request /\ req \in [Workers -> Request]
    BY Types DEF IInv, TypeOK
<1>2. UNCHANGED <<Rows, Statuses, Contents, proposals>>
    BY <1>1, InsideMoves, TableSame DEF Abort, InsertRefused
<1>3. \A v \in Workers \ {w}: Steady(v)
    BY <1>1, OthersSteady DEF Ends
<1>4. CASE Inside(w)
    <2>1. req'[w].op = req[w].op /\ req'[w].sim = req[w].sim
        <3>1. CASE TakeCode(w)
            BY <1>1, <3>1 DEF TakeCode, Request
        <3>2. CASE ReadTable(w)
            BY <1>1, <3>2 DEF ReadTable, Request
        <3>3. CASE DeleteBegins(w)
            BY <1>1, <3>3 DEF DeleteBegins, Request
        <3>4. CASE DeleteEnds(w)
            BY <1>1, <3>4 DEF DeleteEnds, Request
        <3> QED
            BY <1>4, <3>1, <3>2, <3>3, <3>4 DEF Inside
    <2>2. Asked' = Asked
        BY <1>3, <2>1, AskedSame DEF Steady
    <2> QED
        BY <1>2, <2>2 DEF BookVars
<1>5. CASE Abort(w) \/ InsertRefused(w)
    <2>1. req'[w].op = "idle"
        <3>1. req'[w] = Idle
            BY <1>1, <1>5 DEF Abort, InsertRefused, Finish
        <3> QED
            BY <3>1 DEF Idle
    <2>2. CASE req[w].op \in Asks
        <3>1. Book!Done(req[w].op, req[w].sim)
            BY <1>3, <2>1, <2>2, AskedDone DEF Asks
        <3>2. req[w].sim \in DOMAIN Rows /\ req[w].op \in DOMAIN Book!Before
            BY <1>1, <2>2 DEF Positions, WellFormed, Asks, Rows, Book!Before
        <3>3. Book!GiveUp(req[w].op, req[w].sim)
            BY <1>2, <3>1 DEF Book!GiveUp
        <3> QED
            BY <3>2, <3>3 DEF Book!Next
    <2>3. CASE req[w].op \notin Asks
        <3>1. Asked' = Asked
            BY <1>3, <2>1, <2>3, AskedSame DEF Steady, Asks
        <3> QED
            BY <1>2, <3>1 DEF BookVars
    <2> QED
        BY <2>2, <2>3
<1> QED
    BY <1>4, <1>5

\* Every step is a step of the book or a stutter.
LEMMA RefineStep == IInv /\ IInv' /\ [Next]_vars => [Book!Next]_BookVars
<1>1. ASSUME IInv, IInv', Next PROVE [Book!Next]_BookVars
    <2>1. PICK w \in Workers: Begin(w) \/ Inside(w) \/ Ends(w)
        BY <1>1, NextCases
    <2>2. TypeOK'
        BY <1>1 DEF IInv
    <2> QED
        BY <1>1, <2>1, <2>2, RefineBegin, RefineRest, RefineInsert, RefineRewrite, RefineProposal
        DEF Ends
<1>2. ASSUME UNCHANGED vars PROVE UNCHANGED BookVars
    BY <1>2 DEF vars, BookVars, Rows, Statuses, Contents, Asked
<1> QED
    BY <1>1, <1>2

-----------------------------------------------------------------------------
\* Every reachable state is well shaped: whatever a request loads, reads and
\* writes is a simulation, a snapshot and a set of rows of the tables.
THEOREM TypeCorrect == Spec => []TypeOK
<1>1. IInv => TypeOK
    BY DEF IInv
<1> QED
    BY <1>1, Always, PTL

\* Codes number a tenant's simulations in the order of the commits, without a
\* gap and without a repeat, for any number of overlapping creates and clones
\* and whichever of them fail (simulation_service._next_codigo).
THEOREM CodesInOrder == Spec => []CodesFollowCommits
<1>1. IInv => CodesFollowCommits
    BY DEF IInv
<1> QED
    BY <1>1, Always, PTL

\* No key is stored twice, however many retries of a create pass the lookup
\* before one of them commits (create's idempotency_key).
THEOREM KeysAreUnique == Spec => []KeyedOnce
<1>1. IInv => KeyedOnce
    BY DEF IInv
<1> QED
    BY <1>1, Always, PTL

\* A proposal's snapshot is read table by table at READ COMMITTED and is
\* coherent all the same, and stays what the simulation says: an edit in
\* flight never addresses a simulation that can be quoted.
THEOREM ProposalsQuote == Spec => []ProposalQuotesSimulation
<1>1. IInv => ProposalQuotesSimulation
    BY DEF IInv
<1> QED
    BY <1>1, Always, PTL

\* An edit that no other edit has overtaken leaves columns, fees, extras and
\* schedule of one payload, whatever is in flight: it deletes all the rows
\* that its simulation has at its commit (update's _replace_children).
THEOREM EditsReplaceWhole == Spec => []ReplacedWhole
<1>1. IInv => ReplacedWhole
    BY DEF IInv
<1> QED
    BY <1>1, Always, PTL

\* Any number of sessions never deadlocks: the statements of an edit visit the
\* child tables in one order, and who holds a counter waits for nobody.
THEOREM SessionsGoOn == Spec => []SomeoneGoesOn
BY NotAllStuck, Always, PTL

\* A simulation is read and written in several statements and commits, and its
\* status is looked at only when a request opens; all the same the simulations
\* are the book: one code per addition, whole revisions of what was asked for
\* while a draft, one quotation of all that was there at the quotation
\* (simulation_service.py, proposal_service.create).
THEOREM DeskImplementsBook == Spec => ImplementsBook
<1>1. IInv /\ IInv' /\ [Next]_vars
        => [Book!Next]_<<Rows, Statuses, Contents, proposals, Asked>>
    BY RefineStep DEF BookVars
<1> QED
    BY <1>1, RefineInit, Always, PTL DEF Spec, ImplementsBook, Book!Spec
=============================================================================
