------------------------------ MODULE Requests ------------------------------
(***************************************************************************)
(* Request sessions on the shared database, and the audit trail.           *)
(*                                                                         *)
(* A request opens a session (auth/deps.py, get_db_session), loads rows,   *)
(* and commits once, at its end.  What it loaded is what was committed     *)
(* when it asked; nothing is read again before the commit.  A row that was *)
(* changed is written column by column: only the columns whose value       *)
(* differs from the loaded one are in the UPDATE.                          *)
(***************************************************************************)
EXTENDS Naturals, Sequences, FiniteSets

CONSTANTS
    Workers,       \* sessions that may be open at one time
    MaxRequests    \* bound: requests over a behaviour

ASSUME RequestsAssumption == Workers # {} /\ MaxRequests \in Nat

VARIABLES
    req,           \* what each session holds
    asked,         \* requests opened so far
    crossed,       \* history: the things two overlapping requests both wrote
    audit          \* the audit_log table, in the order of the commits

requestVars == <<req, asked, crossed, audit>>

Idle == [op |-> "idle", on |-> {}, late |-> {}, arg |-> <<>>]

RequestsInit ==
    /\ req = [w \in Workers |-> Idle]
    /\ asked = 0
    /\ crossed = {}
    /\ audit = <<>>

\* A session for one request: on names the things it is going to write, arg
\* what it was sent and what it has loaded.
Open(w, op, on, arg) ==
    /\ req[w] = Idle
    /\ asked < MaxRequests
    /\ asked' = asked + 1
    /\ req' = [req EXCEPT ![w] = [op |-> op, on |-> on, late |-> {},
                                  arg |-> arg]]
    /\ UNCHANGED <<crossed, audit>>

Holds(w, op) == req[w].op = op

\* The commit of w; whoever holds one of its things now holds an old copy.
Commit(w) ==
    /\ req' = [v \in Workers |->
                 IF v = w THEN Idle
                 ELSE [req[v] EXCEPT !.late = @ \cup (req[v].on \cap req[w].on)]]
    /\ crossed' = crossed \cup req[w].late
    /\ UNCHANGED asked

\* The session is closed without a commit: a check failed, a unique index
\* refused a row, the caller or the server went away.
Abort(w) ==
    /\ req[w] # Idle
    /\ req' = [req EXCEPT ![w] = Idle]
    /\ UNCHANGED <<asked, crossed, audit>>

\* The row after a flush of the changed columns.
Written(row, saw, want) ==
    [k \in DOMAIN row |->
        IF k \in DOMAIN want /\ want[k] # saw[k] THEN want[k] ELSE row[k]]

\* Defect: the entry is added to the session after its commit.
LogAfterCommit(on, acao, after) == UNCHANGED audit

\* AuditService.log adds the entry to the session: it is there with the
\* change, or not at all.  after holds the columns the entry names.
Log(on, acao, after) ==
    audit' = Append(audit, [on |-> on, acao |-> acao, after |-> after])

-----------------------------------------------------------------------------
\* The entries about e that name its column k.
Entries(e, k) == {i \in DOMAIN audit : audit[i].on = e /\ k \in DOMAIN audit[i].after}

\* Who reads the trail to its end, and knows what column k of e was at first,
\* knows what its row has.
TrailTells(e, k, first, value) ==
    IF Entries(e, k) = {} THEN value = first
    ELSE \E i \in Entries(e, k) :
            /\ \A j \in Entries(e, k) : j <= i
            /\ audit[i].after[k] = value
=============================================================================
