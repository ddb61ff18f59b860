------------------------------- MODULE Market -------------------------------
(***************************************************************************)
(* Market data: the quotes and vehicles, the economic indicators           *)
(* (workers/tasks.py, services/indicators_service.py, integrations/bacen)  *)
(* and the checks of the providers' health.                                *)
(*                                                                         *)
(* A moment is half a day.  The daily job takes a lock for the day, asks   *)
(* for each indicator's points of the last year and commits them one       *)
(* indicator at a time; whoever starts it again on that day is refused by  *)
(* the lock, however the first run ended.                                  *)
(***************************************************************************)
EXTENDS Vehicles

CONSTANTS
    Codes,          \* the indicators, in the order of the job
    FallbackCodes,  \* the ones the second provider has
    MaxAge,         \* MaxAge[c]: moments until c is called stale
    KeptChecks      \* rows of provider_health kept for each provider

ASSUME MarketAssumption ==
    /\ Codes \in Seq({Codes[i] : i \in DOMAIN Codes}) /\ Len(Codes) > 0
    /\ MaxAge \in [{Codes[i] : i \in DOMAIN Codes} -> Nat]
    /\ KeptChecks \in Nat

VARIABLES
    history,        \* indicators_history, by code and data_referencia
    locks,          \* the days whose lock is in Redis
    lastOk,         \* history: when points of a code were last committed
    checks          \* rows of provider_health, for each provider

indicatorVars == <<history, locks, lastOk, checks>>
vars == <<requestVars, quoteVars, vehicles, indicatorVars>>

Code == {Codes[i] : i \in DOMAIN Codes}
DayOf(moment) == moment \div 2
Days == 0..DayOf(MaxNow)
Never == [at |-> 0, fonte |-> "none"]
Point == [at: 0..MaxNow, fonte: {"bacen_sgs", "bacen_brasilapi"}]

TypeOK ==
    /\ QuotesTypeOK
    /\ VehiclesTypeOK
    /\ asked \in 0..MaxRequests
    /\ history \in [Code -> [Days -> Point \cup {Never}]]
    /\ locks \subseteq Days
    /\ checks \in 0..KeptChecks

Init ==
    /\ RequestsInit /\ QuotesInit /\ VehiclesInit
    /\ history = [c \in Code |-> [d \in Days |-> Never]]
    /\ locks = {}
    /\ lastOk = [c \in Code |-> 0]
    /\ checks = 0

\* The queue ends a job after a minute.
JobsPrompt == \A w \in Workers : Holds(w, "collect") => req[w].arg.since = now

\* The other requests read no clock: where in their course it ticks is all
\* the same, so it does not.
Tick ==
    /\ now < MaxNow
    /\ Prompt /\ JobsPrompt
    /\ \A w \in Workers : req[w].op \in {"idle", "fetch", "collect"}
    /\ now' = now + 1
    /\ UNCHANGED <<requestVars, changes, cache, vehicles, indicatorVars>>

-----------------------------------------------------------------------------
(* update_bacen_indicators in session w *)

Today == DayOf(now)

StartJob(w) ==
    /\ Today \notin locks
    /\ Open(w, "collect", {},
            [turn |-> 1, points |-> {}, fonte |-> "none", since |-> now])
    /\ locks' = locks \cup {Today}
    /\ UNCHANGED <<quoteVars, vehicles, history, lastOk, checks>>

\* "already ran today, skipping"
SkipRetrigger ==
    /\ Today \in locks
    /\ asked < MaxRequests
    /\ asked' = asked + 1
    /\ UNCHANGED <<req, crossed, audit, quoteVars, vehicles, history, locks,
                   lastOk, checks>>

Collecting(w) == Holds(w, "collect") /\ req[w].arg.points = {}
InHand(w) == Holds(w, "collect") /\ req[w].arg.points # {}

Take(w, points, fonte) ==
    req' = [req EXCEPT ![w].arg.points = points, ![w].arg.fonte = fonte]

\* SGS has the points up to the day it has published last, today's or the
\* one before; it takes none back.
SgsAnswers(w) ==
    LET c == Codes[req[w].arg.turn] IN
    /\ Collecting(w)
    /\ \E last \in Days :
          /\ last <= DayOf(req[w].arg.since)
          /\ last + 1 >= DayOf(req[w].arg.since)
          /\ \A d \in Days : history[c][d].fonte = "bacen_sgs" => d <= last
          /\ Take(w, 0..last, "bacen_sgs")
    /\ UNCHANGED <<asked, crossed, audit, quoteVars, vehicles, indicatorVars>>

\* BrasilAPI has one value for the codes it knows, and dates it today.
BrasilApiAnswers(w) ==
    /\ Collecting(w)
    /\ Codes[req[w].arg.turn] \in FallbackCodes
    /\ Take(w, {Today}, "bacen_brasilapi")
    /\ UNCHANGED <<asked, crossed, audit, quoteVars, vehicles, indicatorVars>>

\* The run after the code in hand: the next code, or its end.
NextCode(w) ==
    LET a == req[w].arg IN
    req' = IF a.turn < Len(Codes)
           THEN [req EXCEPT ![w].arg = [a EXCEPT !.turn = @ + 1, !.points = {},
                                                 !.fonte = "none"]]
           ELSE [req EXCEPT ![w] = Idle]

BothFail(w) ==
    /\ Collecting(w)
    /\ NextCode(w)
    /\ UNCHANGED <<asked, crossed, audit, quoteVars, vehicles, history, locks,
                   lastOk, checks>>

\* Defect: ON CONFLICT DO NOTHING.
InsertedOnly(row, point) == IF row = Never THEN point ELSE row

Upsert(row, point) == point

CommitCode(w) ==
    LET a == req[w].arg
        c == Codes[a.turn]
        point == [at |-> now, fonte |-> a.fonte]
    IN
    /\ InHand(w)
    /\ history' = [history EXCEPT ![c] =
                     [d \in Days |-> IF d \in a.points THEN Upsert(@[d], point)
                                     ELSE @[d]]]
    /\ lastOk' = [lastOk EXCEPT ![c] = now]
    /\ NextCode(w)
    /\ UNCHANGED <<asked, crossed, audit, quoteVars, vehicles, locks, checks>>

\* latest: the row with the newest data_referencia.
Latest(c) ==
    LET dated == {d \in Days : history[c][d] # Never} IN
    IF dated = {} THEN Never
    ELSE history[c][CHOOSE d \in dated : \A e \in dated : e <= d]

Stale(c) == now - Latest(c).at > MaxAge[c]

-----------------------------------------------------------------------------
Kept(n) == IF n < KeptChecks THEN n + 1 ELSE KeptChecks

\* verify_provider_health: a row for each provider, the oldest deleted, one
\* commit at the end.
VerifyHealth ==
    /\ asked < MaxRequests
    /\ asked' = asked + 1
    /\ checks' = Kept(checks)
    /\ UNCHANGED <<req, crossed, audit, quoteVars, vehicles, history, locks,
                   lastOk>>

Next ==
    \/ Tick
    \/ VerifyHealth
    \/ SkipRetrigger
    \/ Prune /\ UNCHANGED <<vehicles, indicatorVars>>
    \/ \E k \in Keys : Change(k) /\ UNCHANGED <<vehicles, indicatorVars>>
    \/ \E w \in Workers :
          \/ \E k \in Keys : AskQuote(w, k) /\ UNCHANGED <<vehicles, indicatorVars>>
          \/ AskVehicles(w) /\ UNCHANGED indicatorVars
          \/ QuotesGoOn(w) /\ UNCHANGED <<vehicles, indicatorVars>>
          \/ VehiclesGoOn(w) /\ UNCHANGED indicatorVars
          \/ Abort(w) /\ UNCHANGED <<quoteVars, vehicles, indicatorVars>>
          \/ StartJob(w)
          \/ SgsAnswers(w)
          \/ BrasilApiAnswers(w)
          \/ BothFail(w)
          \/ CommitCode(w)

Spec == Init /\ [][Next]_vars

-----------------------------------------------------------------------------
\* An indicator that is shown as current was collected within its age, and
\* one that was is not shown as stale, whichever runs failed or overlapped;
\* except while the newest row is the second provider's, which is dated with
\* the day it was asked for and hides older dates that are collected again.
StaleIsTold ==
    \A c \in Code :
        LET last == Latest(c) IN
        last # Never =>
            /\ ~Stale(c) => now - lastOk[c] <= MaxAge[c]
            /\ Stale(c) /\ last.fonte = "bacen_sgs" =>
                  now - lastOk[c] > MaxAge[c]
=============================================================================
