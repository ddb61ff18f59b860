---------------------------- MODULE MarketProofs ----------------------------
(***************************************************************************)
(* The age of quotes and of indicators, and what overlapping sessions do   *)
(* to vehicles, for any number of sessions, keys, providers, indicators    *)
(* and vehicles, and for any times to live.                                *)
(*                                                                         *)
(* The invariant has a part for each table and what the sessions about it  *)
(* hold.  QuotesHold: since when a quote in the cache, or in hand, is one  *)
(* that the providers no longer give.  VehiclesHold: a session that is not *)
(* late knows the vehicle it is going to write.  IndicatorsHold: the rows  *)
(* of an indicator against the newest commit, which the day's lock keeps   *)
(* in order.  A step of one part frames the others.                        *)
(***************************************************************************)
EXTENDS Market, TLAPS, WellFoundedInduction

\* The newest date of a table that has one.
LEMMA NewestDate ==
    ASSUME NEW n \in Nat, NEW dates \in SUBSET (0..n), dates # {}
    PROVE  \E d \in dates : \A e \in dates : e <= d
  <1> DEFINE less == OpToRel(<, Nat)
             ages == {n - d : d \in dates}
  <1>1. IsWellFoundedOn(less, Nat)
    BY NatLessThanWellFounded
  <1>2. \A a, b \in Nat : a < b => <<a, b>> \in less
    BY Zenon DEF OpToRel
  <1> HIDE DEF less
  <1>3. ages \subseteq Nat /\ ages # {}
    <2>1. \A d \in dates : d \in 0..n /\ n - d \in Nat
      OBVIOUS
    <2>2. PICK d \in dates : TRUE
      OBVIOUS
    <2>3. n - d \in ages
      OBVIOUS
    <2> QED
      BY <2>1, <2>3
  <1>4. PICK x \in ages : \A y \in ages : ~ (<<y, x>> \in less)
    <2> HIDE DEF ages
    <2> QED
      BY <1>1, <1>3, WFMin
  <1>5. ASSUME NEW y \in ages
        PROVE  x <= y
    <2> HIDE DEF ages
    <2>1. x \in Nat /\ y \in Nat
      BY <1>3
    <2>2. ~ (<<y, x>> \in less)
      BY <1>4
    <2>3. ~ (y < x)
      BY <1>2, <2>1, <2>2
    <2> QED
      BY <2>1, <2>3
  <1>6. PICK d \in dates : x = n - d
    OBVIOUS
  <1>7. \A e \in dates : n - e \in ages /\ e \in 0..n
    OBVIOUS
  <1> HIDE DEF ages
  <1> QED
    BY <1>5, <1>6, <1>7
-----------------------------------------------------------------------------
(* What the sessions hold *)

Things == {"vehicle", "status"} \X Nat
Form == [modelo: Prices, fipe: BOOLEAN, quote: Quote \cup {NoQuote}]

FetchArg == [pc: {"read", "ask", "store", "done"}, key: Keys,
             turn: DOMAIN Providers, quote: Quote \cup {NoQuote},
             since: 0..MaxNow,
             want: [for: {"caller"}]
                   \cup [for: {"vehicle"}, i: Nat, saw: Vehicle]]
EditArg == [i: Nat, saw: Vehicle, want: Form]
StatusArg == [i: Nat, saw: Vehicle, want: [status: Statuses]]
CollectArg == [turn: DOMAIN Codes, points: SUBSET Days,
               fonte: {"none", "bacen_sgs", "bacen_brasilapi"},
               since: 0..MaxNow]

RequestOf(op, args) ==
    [op: {op}, on: SUBSET Things, late: SUBSET Things, arg: args]

Request ==
    {Idle} \cup RequestOf("fetch", FetchArg)
           \cup RequestOf("create vehicle", Form)
           \cup RequestOf("update vehicle", EditArg)
           \cup RequestOf("set status", StatusArg)
           \cup RequestOf("collect", CollectArg)

Entry == [on: {"vehicle"} \X Nat, acao: {"create", "update", "set_status"},
          after: {<<>>} \cup [status: Statuses]]

Typed ==
    /\ TypeOK
    /\ req \in [Workers -> Request]
    /\ audit \in Seq(Entry)
    /\ lastOk \in [Code -> 0..MaxNow]

-----------------------------------------------------------------------------
(* Quotes *)

Ttl(k) == IF k \in Prices THEN PriceTtl ELSE ListTtl

\* q is what a provider said of k at some time.
Said(q, k) == q \in Quote /\ q.key = k /\ q.nth <= Len(changes[k])

\* The provider did not change q earlier than slack moments before t.
HeldUntil(q, t, slack) ==
    q.nth < Len(changes[q.key]) => t <= changes[q.key][q.nth + 1] + slack

ChangesHold ==
    \A k \in Keys : /\ Len(changes[k]) <= MaxChanges
                    /\ \A n \in DOMAIN changes[k] : changes[k][n] <= now

\* A row was stored by a request that lasted to the next moment at most.
CacheHolds ==
    \A k \in Keys : cache[k] # NoRow =>
        /\ Said(cache[k].quote, k)
        /\ cache[k].ttl = Ttl(k)
        /\ cache[k].at <= now
        /\ HeldUntil(cache[k].quote, cache[k].at, 1)

FetchHolds(r) ==
    r.op = "fetch" =>
        LET a == r.arg IN
        /\ a.since <= now /\ now <= a.since + 1
        /\ a.pc \in {"store", "done"} => Said(a.quote, a.key)
        /\ a.pc = "store" => HeldUntil(a.quote, a.since, 0)
        /\ a.pc = "done" => HeldUntil(a.quote, a.since, Ttl(a.key))

QuotesHold == ChangesHold /\ CacheHolds /\ \A w \in Workers : FetchHolds(req[w])

-----------------------------------------------------------------------------
(* Vehicles *)

Priced(v) == <<v.modelo, v.fipe, v.quote, v.last>>

\* One of the forms of v brought a quote of k.
Brought(v, k) == \E q \in v.brought : q.key = k

Fits(v) ==
    /\ v.quote.key = v.last.key
    /\ ~v.fipe => v.quote = v.last

\* A session about the price of vehicle i knows the price it has, unless
\* somebody committed it meanwhile.
KnowsPrice(r, i, saw) ==
    /\ i \in DOMAIN vehicles
    /\ r.on = {<<"vehicle", i>>}
    /\ <<"vehicle", i>> \notin r.late => Priced(saw) = Priced(vehicles[i])

KnowsStatus(r, i, saw) ==
    /\ i \in DOMAIN vehicles
    /\ r.on = {<<"status", i>>}
    /\ <<"status", i>> \notin r.late => saw.status = vehicles[i].status

VehicleRequestHolds(r) ==
    /\ r.op = "update vehicle" => KnowsPrice(r, r.arg.i, r.arg.saw)
    /\ r.op = "set status" =>
          /\ r.arg.want.status \in Transitions[r.arg.saw.status]
          /\ KnowsStatus(r, r.arg.i, r.arg.saw)
    /\ r.op = "fetch" /\ r.arg.want.for = "vehicle" =>
          /\ r.arg.want.saw.fipe /\ r.arg.want.saw.quote.key = r.arg.key
          /\ KnowsPrice(r, r.arg.want.i, r.arg.want.saw)
          /\ Brought(vehicles[r.arg.want.i], r.arg.key)

TrailHolds == \A j \in DOMAIN audit : audit[j].on[2] \in DOMAIN vehicles

VehiclesHold ==
    /\ \A w \in Workers : VehicleRequestHolds(req[w])
    /\ TrailHolds
    /\ SoldStaysSold
    /\ PricedAsBrought

-----------------------------------------------------------------------------
(* Indicators *)

Dated(c) == {d \in Days : history[c][d] # Never}

\* The rows of c: none is of a later day than its commit, and none was
\* committed later than the newest commit.
RowsHold(c) ==
    /\ lastOk[c] <= now
    /\ \A d \in Dated(c) : /\ d <= DayOf(history[c][d].at)
                           /\ history[c][d].at <= lastOk[c]

\* A newest row of SGS was in every commit since.
NewestHolds(c) ==
    \A d \in Dated(c) :
        (\A e \in Dated(c) : e <= d) /\ history[c][d].fonte = "bacen_sgs"
          => history[c][d].at = lastOk[c]

\* The points of a session: of SGS all up to a day, and a later one is there
\* only if it was committed after the session's moment; of BrasilAPI one.
CollectHolds(r) ==
    r.op = "collect" =>
        LET a == r.arg
            c == Codes[a.turn]
        IN
        /\ a.since <= now /\ now <= a.since + 1
        /\ DayOf(a.since) \in locks
        /\ a.points # {} /\ a.fonte = "bacen_sgs" =>
              \E last \in Days :
                 /\ a.points = 0..last
                 /\ last <= DayOf(a.since) /\ DayOf(a.since) <= last + 1
                 /\ \A d \in Days : history[c][d].fonte = "bacen_sgs" =>
                       d <= last \/ history[c][d].at > a.since
        /\ a.points # {} /\ a.fonte # "bacen_sgs" =>
              /\ a.fonte = "bacen_brasilapi"
              /\ \E today \in Days :
                 /\ a.points = {today}
                 /\ DayOf(a.since) <= today /\ today <= DayOf(now)

\* The lock admits one session a day.
OneADay ==
    \A v, w \in Workers :
        /\ req[v].op = "collect" /\ req[w].op = "collect"
        /\ DayOf(req[v].arg.since) = DayOf(req[w].arg.since)
        => v = w

IndicatorsHold ==
    /\ \A c \in Code : RowsHold(c) /\ NewestHolds(c)
    /\ \A w \in Workers : CollectHolds(req[w])
    /\ OneADay

IInv == Typed /\ QuotesHold /\ VehiclesHold /\ IndicatorsHold

-----------------------------------------------------------------------------
(* Sessions *)

\* What a request that is open has.
LEMMA RequestIs ==
    ASSUME NEW r \in Request
    PROVE  /\ r.op = "fetch" => r \in RequestOf("fetch", FetchArg)
           /\ r.op = "create vehicle" => r \in RequestOf("create vehicle", Form)
           /\ r.op = "update vehicle" => r \in RequestOf("update vehicle", EditArg)
           /\ r.op = "set status" => r \in RequestOf("set status", StatusArg)
           /\ r.op = "collect" => r \in RequestOf("collect", CollectArg)
           /\ r.on \subseteq Things /\ r.late \subseteq Things
           /\ r = Idle => r.on = {} /\ r.late = {} /\ r.op = "idle"
  <1>1. r = Idle => r.on = {} /\ r.late = {} /\ r.op = "idle"
    BY DEF Idle
  <1>2. ASSUME NEW op, NEW args, r \in RequestOf(op, args)
        PROVE  r.op = op /\ r.on \subseteq Things /\ r.late \subseteq Things
    BY <1>2 DEF RequestOf
  <1> DEFINE Named(op) == r.op = op /\ r.on \subseteq Things /\ r.late \subseteq Things
  <1>3. \/ r = Idle \/ r \in RequestOf("fetch", FetchArg)
        \/ r \in RequestOf("create vehicle", Form)
        \/ r \in RequestOf("update vehicle", EditArg)
        \/ r \in RequestOf("set status", StatusArg)
        \/ r \in RequestOf("collect", CollectArg)
    BY DEF Request
  <1>4. /\ r \in RequestOf("fetch", FetchArg) => Named("fetch")
        /\ r \in RequestOf("create vehicle", Form) => Named("create vehicle")
        /\ r \in RequestOf("update vehicle", EditArg) => Named("update vehicle")
        /\ r \in RequestOf("set status", StatusArg) => Named("set status")
        /\ r \in RequestOf("collect", CollectArg) => Named("collect")
    BY <1>2
  <1> QED
    BY <1>1, <1>3, <1>4

\* No session but w changes, but that it may become late.
Beside(w) ==
    \A v \in Workers \ {w} :
        /\ req'[v].op = req[v].op /\ req'[v].on = req[v].on
        /\ req'[v].arg = req[v].arg
        /\ req[v].late \subseteq req'[v].late

\* A request that is opened in session w.
Asks(w) ==
    /\ req' \in [Workers -> Request] /\ Beside(w)
    /\ asked < MaxRequests /\ asked' = asked + 1
    /\ UNCHANGED <<crossed, audit>>

LEMMA Opened ==
    ASSUME req \in [Workers -> Request], NEW w \in Workers,
           NEW op, NEW on, NEW args, NEW arg \in args, Open(w, op, on, arg),
           on \subseteq Things, RequestOf(op, args) \subseteq Request
    PROVE  /\ Asks(w)
           /\ req'[w].op = op /\ req'[w].on = on
           /\ req'[w].late = {} /\ req'[w].arg = arg
  <1> DEFINE new == [op |-> op, on |-> on, late |-> {}, arg |-> arg]
  <1>1. /\ new \in RequestOf(op, args) /\ new.op = op /\ new.on = on
        /\ new.late = {} /\ new.arg = arg
    BY DEF RequestOf
  <1>2. /\ req' = [req EXCEPT ![w] = new] /\ req[w] = Idle
        /\ asked < MaxRequests /\ asked' = asked + 1 /\ UNCHANGED <<crossed, audit>>
    BY DEF Open
  <1> HIDE DEF new
  <1>3. req'[w] = new /\ new \in Request
    BY <1>1, <1>2
  <1> QED
    BY <1>1, <1>2, <1>3 DEF Beside, Asks

LEMMA Closed ==
    ASSUME req \in [Workers -> Request], NEW w \in Workers,
           req' = [req EXCEPT ![w] = Idle]
    PROVE  /\ req' \in [Workers -> Request]
           /\ req'[w] = Idle
           /\ Beside(w)
  BY DEF Beside, Request

LEMMA Committed ==
    ASSUME req \in [Workers -> Request], NEW w \in Workers, Commit(w)
    PROVE  /\ req' \in [Workers -> Request]
           /\ req'[w] = Idle
           /\ Beside(w)
           /\ \A v \in Workers \ {w} : req[v].on \cap req[w].on \subseteq req'[v].late
           /\ crossed' = crossed \cup req[w].late
           /\ UNCHANGED asked
  <1>1. \A v \in Workers \ {w} :
            req'[v] = [req[v] EXCEPT !.late = @ \cup (req[v].on \cap req[w].on)]
    BY DEF Commit
  <1>2. ASSUME NEW v \in Workers \ {w}
        PROVE  /\ req'[v] \in Request
               /\ req'[v].op = req[v].op /\ req'[v].on = req[v].on
               /\ req'[v].arg = req[v].arg
               /\ req'[v].late = req[v].late \cup (req[v].on \cap req[w].on)
    <2> DEFINE more == req[v].on \cap req[w].on
    <2>1. req[v] \in Request /\ req'[v] = [req[v] EXCEPT !.late = @ \cup more]
      BY <1>1
    <2>2. more \subseteq Things /\ (req[v] = Idle => more = {})
      BY <2>1, RequestIs
    <2> HIDE DEF more
    <2>3. ASSUME req[v] = Idle
          PROVE  req'[v] = Idle
      <3>1. req'[v] = [Idle EXCEPT !.late = Idle.late \cup {}]
        BY <2>1, <2>2, <2>3 DEF Idle
      <3>2. [Idle EXCEPT !.late = Idle.late \cup {}] = Idle
        BY DEF Idle
      <3> QED
        BY <3>1, <3>2
    <2>4. ASSUME NEW op, NEW args, req[v] \in RequestOf(op, args)
          PROVE  req'[v] \in RequestOf(op, args)
      BY <2>1, <2>2, <2>4 DEF RequestOf
    <2>5. req'[v] \in Request
      BY <2>1, <2>3, <2>4 DEF Request
    <2>6. req[v] = [op |-> req[v].op, on |-> req[v].on, late |-> req[v].late,
                    arg |-> req[v].arg]
      BY <2>1 DEF Request, RequestOf, Idle
    <2>7. req'[v].late = req[v].late \cup more
      BY <2>1, <2>6
    <2> QED
      BY <2>1, <2>5, <2>6, <2>7 DEF more
  <1>3. req'[w] = Idle /\ DOMAIN req' = Workers /\ req' = [v \in Workers |-> req'[v]]
    BY DEF Commit
  <1> QED
    BY <1>2, <1>3 DEF Beside, Commit, Request

LEMMA Continued ==
    ASSUME req \in [Workers -> Request], NEW w \in Workers, req[w].op = "fetch",
           NEW pc \in {"read", "ask", "store", "done"}, NEW turn \in DOMAIN Providers,
           NEW quote \in Quote \cup {NoQuote}, Continue(w, pc, turn, quote)
    PROVE  /\ req' \in [Workers -> Request]
           /\ Beside(w)
           /\ req'[w].op = "fetch" /\ req'[w].on = req[w].on
           /\ req'[w].late = req[w].late
           /\ req'[w].arg.pc = pc /\ req'[w].arg.turn = turn
           /\ req'[w].arg.quote = quote
           /\ req'[w].arg.key = req[w].arg.key
           /\ req'[w].arg.since = req[w].arg.since
           /\ req'[w].arg.want = req[w].arg.want
  <1> DEFINE arg == [req[w].arg EXCEPT !.pc = pc, !.turn = turn, !.quote = quote]
             new == [req[w] EXCEPT !.arg = arg]
  <1>1. req[w] \in RequestOf("fetch", FetchArg)
    BY RequestIs
  <1>2. req[w].arg \in FetchArg
    BY <1>1 DEF RequestOf
  <1>3. /\ arg \in FetchArg /\ arg.pc = pc /\ arg.turn = turn /\ arg.quote = quote
        /\ arg.key = req[w].arg.key /\ arg.since = req[w].arg.since
        /\ arg.want = req[w].arg.want
    BY <1>2 DEF FetchArg
  <1>4. req' = [req EXCEPT ![w] = new]
    BY <1>1, <1>2 DEF Continue, RequestOf, FetchArg
  <1> HIDE DEF arg
  <1>5. /\ new \in RequestOf("fetch", FetchArg) /\ new.op = "fetch"
        /\ new.on = req[w].on /\ new.late = req[w].late /\ new.arg = arg
    BY <1>1, <1>3 DEF RequestOf
  <1> HIDE DEF new
  <1>6. req'[w] = new /\ new \in Request
    BY <1>4, <1>5 DEF Request
  <1>7. req' \in [Workers -> Request] /\ Beside(w)
    BY <1>4, <1>6 DEF Beside
  <1> QED
    BY <1>3, <1>5, <1>6, <1>7 DEF arg

-----------------------------------------------------------------------------
(* Quotes: the steps *)

KeepsQuotes ==
    /\ UNCHANGED quoteVars
    /\ \A v \in Workers : req'[v].op = "fetch" =>
          req[v].op = "fetch" /\ req'[v].arg = req[v].arg

LEMMA QuotesKept == QuotesHold /\ KeepsQuotes => QuotesHold'
  <1> SUFFICES ASSUME QuotesHold, KeepsQuotes
               PROVE  QuotesHold'
    OBVIOUS
  <1>1. UNCHANGED <<now, changes, cache>>
    BY DEF KeepsQuotes, quoteVars
  <1>2. ChangesHold' /\ CacheHolds'
    BY <1>1 DEF QuotesHold, ChangesHold, CacheHolds, Said, HeldUntil
  <1>3. ASSUME NEW v \in Workers PROVE FetchHolds(req[v])'
    BY <1>1 DEF QuotesHold, KeepsQuotes, FetchHolds, Said, HeldUntil
  <1> QED
    BY <1>2, <1>3 DEF QuotesHold

\* A step of one fetch, which may store a row.
LEMMA FetchMoves ==
    ASSUME QuotesHold, NEW w \in Workers, Beside(w), UNCHANGED <<now, changes>>,
           CacheHolds', FetchHolds(req[w])'
    PROVE  QuotesHold'
  <1>1. ChangesHold'
    BY DEF QuotesHold, ChangesHold
  <1>2. ASSUME NEW v \in Workers \ {w} PROVE FetchHolds(req[v])'
    BY DEF QuotesHold, Beside, FetchHolds, Said, HeldUntil
  <1> QED
    BY <1>1, <1>2 DEF QuotesHold

\* What the types say of a quote and of the changes of its key.
LEMMA ChangesAre ==
    ASSUME Typed, NEW k \in Keys
    PROVE  /\ now \in Nat /\ now \in 0..MaxNow
           /\ changes[k] \in Seq(0..MaxNow) /\ Len(changes[k]) \in Nat
           /\ \A n \in 1..Len(changes[k]) : changes[k][n] \in Nat
           /\ Ttl(k) \in Nat
  <1>1. changes[k] \in Seq(0..MaxNow)
    BY DEF Typed, TypeOK, QuotesTypeOK
  <1> QED
    BY <1>1, QuotesAssumption DEF Typed, TypeOK, QuotesTypeOK, Ttl

\* When the answer that comes after an answer came.
LEMMA AnswerIs ==
    ASSUME Typed, NEW k \in Keys, NEW nth \in Nat, nth < Len(changes[k])
    PROVE  changes[k][nth + 1] \in Nat
  <1>1. Len(changes[k]) \in Nat /\ \A n \in 1..Len(changes[k]) : changes[k][n] \in Nat
    BY ChangesAre
  <1>2. nth + 1 \in 1..Len(changes[k])
    BY <1>1
  <1> QED
    BY <1>1, <1>2

LEMMA FetchIs ==
    ASSUME Typed, NEW v \in Workers, req[v].op = "fetch"
    PROVE  /\ req[v].arg \in FetchArg
           /\ req[v].arg.key \in Keys
           /\ req[v].arg.turn \in DOMAIN Providers
           /\ req[v].arg.quote \in Quote \cup {NoQuote}
           /\ req[v].arg.since \in Nat
           /\ req[v].arg.pc \in {"read", "ask", "store", "done"}
           /\ Ttl(req[v].arg.key) \in Nat
  <1>1. req[v] \in RequestOf("fetch", FetchArg)
    BY RequestIs DEF Typed
  <1>2. req[v].arg \in FetchArg
    BY <1>1 DEF RequestOf
  <1>3. 0..MaxNow \subseteq Nat /\ \A k \in Keys : Ttl(k) \in Nat
    BY QuotesAssumption DEF Ttl
  <1> QED
    BY <1>2, <1>3 DEF FetchArg

LEMMA TickQuotes ==
    ASSUME Typed, QuotesHold, Tick
    PROVE  QuotesHold'
  <1>1. /\ now' = now + 1 /\ now \in Nat
        /\ UNCHANGED <<req, changes, cache>>
        /\ \A w \in Workers : req[w].op = "fetch" => req[w].arg.since = now
    BY QuotesAssumption
       DEF Tick, Prompt, Holds, requestVars, Typed, TypeOK, QuotesTypeOK
  <1>2. ChangesHold'
    <2>1. ASSUME NEW k \in Keys, NEW n \in DOMAIN changes[k]
          PROVE  changes[k][n] <= now + 1
      <3>1. changes[k][n] \in Nat
        BY ChangesAre
      <3> QED
        BY <1>1, <3>1 DEF QuotesHold, ChangesHold
    <2> QED
      BY <1>1, <2>1 DEF QuotesHold, ChangesHold
  <1>3. CacheHolds'
    <2>1. ASSUME NEW k \in Keys, cache[k] # NoRow
          PROVE  cache[k].at <= now + 1
      <3>1. cache[k].at \in Nat
        BY <2>1, QuotesAssumption DEF Typed, TypeOK, QuotesTypeOK, Row
      <3> QED
        BY <1>1, <2>1, <3>1 DEF QuotesHold, CacheHolds
    <2> QED
      BY <1>1, <2>1 DEF QuotesHold, CacheHolds, Said, HeldUntil
  <1>4. ASSUME NEW v \in Workers PROVE FetchHolds(req[v])'
    <2> SUFFICES ASSUME req[v].op = "fetch" PROVE FetchHolds(req[v])'
      BY <1>1 DEF FetchHolds
    <2>1. FetchHolds(req[v]) /\ req[v].arg.since = now
      BY <1>1 DEF QuotesHold
    <2>2. req[v].arg.since <= now' /\ now' <= req[v].arg.since + 1
      BY <1>1, <2>1
    <2> QED
      BY <1>1, <2>1, <2>2 DEF FetchHolds, Said, HeldUntil
  <1> QED
    BY <1>2, <1>3, <1>4 DEF QuotesHold

\* A change of an answer of k comes at the end of what changed before.
LEMMA ChangeAppends ==
    ASSUME Typed, NEW k \in Keys, Change(k), NEW j \in Keys
    PROVE  /\ DOMAIN changes[j] = 1..Len(changes[j]) /\ Len(changes[j]) \in Nat
           /\ DOMAIN changes'[j] = 1..Len(changes'[j])
           /\ Len(changes'[j]) = IF j = k THEN Len(changes[j]) + 1 ELSE Len(changes[j])
           /\ \A n \in 1..Len(changes[j]) : changes'[j][n] = changes[j][n]
           /\ j = k => changes'[j][Len(changes[j]) + 1] = now
           /\ now \in Nat
  <1>1. changes \in [Keys -> Seq(0..MaxNow)] /\ now \in 0..MaxNow
    BY DEF Typed, TypeOK, QuotesTypeOK
  <1>2. changes[j] \in Seq(0..MaxNow) /\ now \in Nat
    BY <1>1, QuotesAssumption
  <1>3. changes'[j] = IF j = k THEN Append(changes[j], now) ELSE changes[j]
    BY <1>1 DEF Change
  <1> QED
    BY <1>1, <1>2, <1>3

\* So no quote was changed earlier by it.
LEMMA HeldThroughChange ==
    ASSUME Typed, NEW k \in Keys, Change(k), NEW j \in Keys,
           NEW q, Said(q, j), NEW t \in Nat, NEW slack \in Nat, t <= now + slack,
           HeldUntil(q, t, slack)
    PROVE  Said(q, j)' /\ HeldUntil(q, t, slack)'
  <1>1. q \in Quote /\ q.key = j /\ q.nth <= Len(changes[j]) /\ q.nth \in Nat
    BY QuotesAssumption DEF Said, Quote
  <1>2. Len(changes[j]) \in Nat /\ now \in Nat
    BY ChangeAppends
  <1>3. CASE j # k
    <2>1. /\ Len(changes'[j]) = Len(changes[j])
          /\ \A n \in 1..Len(changes[j]) : changes'[j][n] = changes[j][n]
      BY <1>3, ChangeAppends
    <2>2. q.nth < Len(changes[j]) => q.nth + 1 \in 1..Len(changes[j])
      BY <1>1, <1>2
    <2> QED
      BY <1>1, <2>1, <2>2 DEF Said, HeldUntil
  <1>4. CASE j = k
    <2>1. /\ Len(changes'[j]) = Len(changes[j]) + 1
          /\ \A n \in 1..Len(changes[j]) : changes'[j][n] = changes[j][n]
          /\ changes'[j][Len(changes[j]) + 1] = now
      BY <1>4, ChangeAppends
    <2>2. Said(q, j)'
      BY <1>1, <1>2, <2>1 DEF Said
    <2>3. CASE q.nth < Len(changes[j])
      <3>1. q.nth + 1 \in 1..Len(changes[j])
        BY <1>1, <1>2, <2>3
      <3> QED
        BY <1>1, <2>1, <2>2, <2>3, <3>1 DEF HeldUntil
    <2>4. CASE q.nth = Len(changes[j])
      BY <1>1, <2>1, <2>2, <2>4 DEF HeldUntil
    <2> QED
      BY <1>1, <1>2, <2>3, <2>4
  <1> QED
    BY <1>3, <1>4

LEMMA ChangeQuotes ==
    ASSUME Typed, QuotesHold, NEW k \in Keys, Change(k)
    PROVE  QuotesHold'
  <1>1. UNCHANGED <<req, now, cache>> /\ now \in Nat
    BY QuotesAssumption DEF Change, requestVars, Typed, TypeOK, QuotesTypeOK
  <1>2. ChangesHold'
    <2> SUFFICES ASSUME NEW j \in Keys, NEW n \in DOMAIN changes'[j]
                 PROVE  changes'[j][n] <= now
      <3>1. \A j \in Keys : Len(changes'[j]) <= MaxChanges
        BY ChangeAppends, QuotesAssumption DEF QuotesHold, ChangesHold, Change
      <3> QED
        BY <1>1, <3>1 DEF ChangesHold
    <2>1. CASE n \in DOMAIN changes[j]
      BY <2>1, ChangeAppends DEF QuotesHold, ChangesHold
    <2>2. CASE n \notin DOMAIN changes[j]
      <3>1. j = k /\ n = Len(changes[j]) + 1
        BY <2>2, ChangeAppends
      <3> QED
        BY <1>1, <3>1, ChangeAppends
    <2> QED
      BY <2>1, <2>2
  <1>3. CacheHolds'
    <2> SUFFICES ASSUME NEW j \in Keys, cache[j] # NoRow
                 PROVE  /\ Said(cache[j].quote, j)'
                        /\ cache[j].ttl = Ttl(j)
                        /\ cache[j].at <= now
                        /\ HeldUntil(cache[j].quote, cache[j].at, 1)'
      BY <1>1 DEF CacheHolds, Said, HeldUntil
    <2> DEFINE q == cache[j].quote
               t == cache[j].at
    <2>1. /\ Said(q, j) /\ cache[j].ttl = Ttl(j) /\ t <= now /\ HeldUntil(q, t, 1)
      BY DEF QuotesHold, CacheHolds
    <2>2. t \in Nat
      BY QuotesAssumption DEF Typed, TypeOK, QuotesTypeOK, Row
    <2>3. q' = q /\ t' = t
      BY <1>1
    <2>4. t <= now + 1
      BY <1>1, <2>1, <2>2
    <2> HIDE DEF q, t
    <2>5. Said(q, j)' /\ HeldUntil(q, t, 1)'
      BY <2>1, <2>2, <2>3, <2>4, HeldThroughChange DEF Said, HeldUntil
    <2> QED
      BY <2>1, <2>5 DEF q, t
  <1>4. ASSUME NEW v \in Workers PROVE FetchHolds(req[v])'
    <2> SUFFICES ASSUME req[v].op = "fetch"
                 PROVE  FetchHolds(req[v])'
      BY <1>1 DEF FetchHolds
    <2> DEFINE a == req[v].arg
               q == a.quote
               t == a.since
    <2>1. FetchHolds(req[v])
      BY DEF QuotesHold
    <2>2. /\ t \in Nat /\ a.key \in Keys /\ Ttl(a.key) \in Nat
          /\ a.pc \in {"read", "ask", "store", "done"}
      BY FetchIs
    <2>3. t <= now /\ t <= now + 0 /\ t <= now + Ttl(a.key)
      BY <1>1, <2>1, <2>2 DEF FetchHolds
    <2>4. q' = q /\ t' = t /\ a' = a
      BY <1>1
    <2>5. ASSUME a.pc \in {"store", "done"} PROVE Said(q, a.key)
      BY <2>1, <2>5 DEF FetchHolds
    <2>6. ASSUME a.pc = "store" PROVE HeldUntil(q, t, 0)
      BY <2>1, <2>6 DEF FetchHolds
    <2>7. ASSUME a.pc = "done" PROVE HeldUntil(q, t, Ttl(a.key))
      BY <2>1, <2>7 DEF FetchHolds
    <2> HIDE DEF q, t, a
    <2>8. ASSUME a.pc = "store" PROVE Said(q, a.key)' /\ HeldUntil(q, t, 0)'
      BY <2>2, <2>3, <2>4, <2>5, <2>6, <2>8, HeldThroughChange DEF Said, HeldUntil
    <2>9. ASSUME a.pc = "done" PROVE Said(q, a.key)' /\ HeldUntil(q, t, Ttl(a.key))'
      BY <2>2, <2>3, <2>4, <2>5, <2>7, <2>9, HeldThroughChange DEF Said, HeldUntil, Ttl
    <2> QED
      BY <1>1, <2>1, <2>4, <2>8, <2>9 DEF FetchHolds, q, t, a
  <1> QED
    BY <1>2, <1>3, <1>4 DEF QuotesHold

LEMMA PruneQuotes ==
    ASSUME Typed, QuotesHold, Prune
    PROVE  QuotesHold'
  <1>1. /\ UNCHANGED <<req, now, changes>>
        /\ \A k \in Keys : cache'[k] \in {cache[k], NoRow}
    BY DEF Prune, requestVars
  <1>2. CacheHolds'
    BY <1>1 DEF QuotesHold, CacheHolds, Said, HeldUntil
  <1> QED
    BY <1>1, <1>2 DEF QuotesHold, ChangesHold, FetchHolds, Said, HeldUntil

LEMMA StartFetchQuotes ==
    ASSUME Typed, QuotesHold, NEW w \in Workers, NEW k \in Keys, NEW on, NEW want,
           StartFetch(w, k, on, want), req' \in [Workers -> Request], UNCHANGED quoteVars
    PROVE  QuotesHold'
  <1>1. /\ req'[w] = [op |-> "fetch", on |-> on, late |-> {},
                      arg |-> [pc |-> "read", key |-> k, turn |-> 1, quote |-> NoQuote,
                               since |-> now, want |-> want]]
        /\ Beside(w)
    BY DEF StartFetch, Open, Beside, Typed
  <1>2. UNCHANGED <<now, changes, cache>> /\ now \in Nat
    BY QuotesAssumption DEF quoteVars, Typed, TypeOK, QuotesTypeOK
  <1>3. FetchHolds(req[w])'
    BY <1>1, <1>2 DEF FetchHolds
  <1>4. CacheHolds'
    BY <1>2 DEF QuotesHold, CacheHolds, Said, HeldUntil
  <1> QED
    BY <1>1, <1>2, <1>3, <1>4, FetchMoves

\* Who finds a fresh row is given what was said within its time to live and
\* the moment that the request that stored it may have taken.
LEMMA ReadCacheQuotes ==
    ASSUME Typed, QuotesHold, NEW w \in Workers, ReadCache(w)
    PROVE  QuotesHold'
  <1> DEFINE a == req[w].arg
             k == a.key
             row == cache[k]
  <1>1. /\ req[w].op = "fetch" /\ UNCHANGED <<now, changes, cache>>
        /\ \/ Fresh(row) /\ Continue(w, "done", a.turn, row.quote)
           \/ Continue(w, "ask", a.turn, NoQuote)
    BY DEF ReadCache, Fetching, Holds, quoteVars
  <1>2. /\ k \in Keys /\ a.turn \in DOMAIN Providers /\ a.since \in Nat /\ now \in Nat
        /\ Ttl(k) \in Nat
    BY <1>1, FetchIs, ChangesAre
  <1>3. a.since <= now /\ now <= a.since + 1
    BY <1>1 DEF QuotesHold, FetchHolds
  <1>4. CacheHolds'
    BY <1>1 DEF QuotesHold, CacheHolds, Said, HeldUntil
  <1>5. CASE Fresh(row) /\ Continue(w, "done", a.turn, row.quote)
    <2>1. /\ Said(row.quote, k) /\ row.ttl = Ttl(k) /\ row.at <= now
          /\ HeldUntil(row.quote, row.at, 1)
      BY <1>2, <1>5 DEF QuotesHold, CacheHolds, Fresh
    <2>2. row.quote \in Quote /\ row.quote.key = k
      BY <2>1 DEF Said
    <2>3. row.at \in Nat /\ now - row.at < Ttl(k)
      <3>1. row # NoRow /\ now - row.at < row.ttl
        BY <1>5 DEF Fresh
      <3>2. cache \in [Keys -> Row \cup {NoRow}]
        BY DEF Typed, TypeOK, QuotesTypeOK
      <3>3. row.at \in Nat
        BY <1>2, <3>1, <3>2, QuotesAssumption DEF Row
      <3> QED
        BY <2>1, <3>1, <3>3
    <2>4. HeldUntil(row.quote, a.since, Ttl(k))
      <3>1. ASSUME row.quote.nth < Len(changes[k])
            PROVE  a.since <= changes[k][row.quote.nth + 1] + Ttl(k)
        <4>1. row.quote.nth \in Nat
          BY <2>2, QuotesAssumption DEF Quote
        <4>2. changes[k][row.quote.nth + 1] \in Nat
          BY <1>2, <3>1, <4>1, AnswerIs
        <4>3. row.at <= changes[k][row.quote.nth + 1] + 1
          BY <2>1, <2>2, <3>1 DEF HeldUntil
        <4> DEFINE changed == changes[k][row.quote.nth + 1]
                   since == a.since
                   at == row.at
                   ttl == Ttl(k)
        <4>4. /\ changed \in Nat /\ since \in Nat /\ at \in Nat /\ ttl \in Nat /\ now \in Nat
              /\ since <= now /\ now - at < ttl /\ at <= changed + 1
          BY <1>2, <1>3, <2>3, <4>2, <4>3
        <4> HIDE DEF changed, since, at, ttl
        <4>5. since <= changed + ttl
          BY ONLY <4>4
        <4> QED
          BY <4>5 DEF changed, since, ttl
      <3> QED
        BY <2>2, <3>1 DEF HeldUntil
    <2>5. /\ Beside(w) /\ req'[w].op = "fetch" /\ req'[w].arg.pc = "done"
          /\ req'[w].arg.quote = row.quote /\ req'[w].arg.key = k
          /\ req'[w].arg.since = a.since
      <3>1. /\ row.quote \in Quote \cup {NoQuote}
            /\ Continue(w, "done", a.turn, row.quote)
        BY <1>5, <2>2
      <3> HIDE DEF row
      <3> QED
        BY <1>1, <1>2, <3>1, Continued DEF Typed
    <2> HIDE DEF a, k, row
    <2>6. FetchHolds(req[w])'
      BY <1>1, <1>3, <2>1, <2>4, <2>5 DEF FetchHolds, Said, HeldUntil, Ttl
    <2> QED
      BY <1>1, <1>4, <2>5, <2>6, FetchMoves
  <1>6. CASE Continue(w, "ask", a.turn, NoQuote)
    <2>1. /\ Beside(w) /\ req'[w].op = "fetch" /\ req'[w].arg.pc = "ask"
          /\ req'[w].arg.since = a.since
      BY <1>1, <1>2, <1>6, Continued DEF Typed
    <2>2. FetchHolds(req[w])'
      BY <1>1, <1>3, <2>1 DEF FetchHolds
    <2> QED
      BY <1>1, <1>4, <2>1, <2>2, FetchMoves
  <1> QED
    BY <1>1, <1>5, <1>6

LEMMA ProviderAnswersQuotes ==
    ASSUME Typed, QuotesHold, NEW w \in Workers, ProviderAnswers(w)
    PROVE  QuotesHold' /\ Word(req[w].arg.key) \in Quote
  <1> DEFINE a == req[w].arg
             k == a.key
  <1>1. /\ req[w].op = "fetch" /\ UNCHANGED <<now, changes, cache>>
        /\ Continue(w, "store", a.turn, Word(k))
    BY DEF ProviderAnswers, Fetching, Holds, quoteVars
  <1>2. k \in Keys /\ a.turn \in DOMAIN Providers
    BY <1>1, FetchIs
  <1>3. a.since <= now /\ now <= a.since + 1
    BY <1>1 DEF QuotesHold, FetchHolds
  <1>4. CacheHolds'
    BY <1>1 DEF QuotesHold, CacheHolds, Said, HeldUntil
  <1>5. Said(Word(k), k) /\ HeldUntil(Word(k), a.since, 0)
    <2>1. Len(changes[k]) \in 0..MaxChanges
      BY <1>2, ChangesAre, QuotesAssumption DEF QuotesHold, ChangesHold
    <2> QED
      BY <1>2, <2>1 DEF Said, HeldUntil, Word, Quote
  <1>6. /\ Beside(w) /\ req'[w].op = "fetch" /\ req'[w].arg.pc = "store"
        /\ req'[w].arg.quote = Word(k) /\ req'[w].arg.key = k
        /\ req'[w].arg.since = a.since
    <2>1. Word(k) \in Quote \cup {NoQuote}
      BY <1>5 DEF Said
    <2> QED
      BY <1>1, <1>2, <2>1, Continued DEF Typed
  <1> HIDE DEF a, k
  <1>7. FetchHolds(req[w])'
    BY <1>1, <1>3, <1>5, <1>6 DEF FetchHolds, Said, HeldUntil, Word
  <1> QED
    BY <1>1, <1>4, <1>5, <1>6, <1>7, FetchMoves DEF Said, a, k

LEMMA StoreQuoteQuotes ==
    ASSUME Typed, QuotesHold, NEW w \in Workers, StoreQuote(w)
    PROVE  QuotesHold'
  <1> DEFINE a == req[w].arg
             k == a.key
             row == [quote |-> a.quote, at |-> now,
                     ttl |-> IF k \in Prices THEN PriceTtl ELSE ListTtl]
  <1>1. /\ req[w].op = "fetch" /\ a.pc = "store" /\ UNCHANGED <<now, changes>>
        /\ Continue(w, "done", a.turn, a.quote)
        /\ cache' \in {[cache EXCEPT ![k] = row], cache}
    BY DEF StoreQuote, Fetching, Holds
  <1>2. /\ k \in Keys /\ a.turn \in DOMAIN Providers /\ a.since \in Nat /\ now \in Nat
        /\ a.quote \in Quote \cup {NoQuote} /\ Ttl(k) \in Nat
    BY <1>1, FetchIs, ChangesAre
  <1>3. /\ a.since <= now /\ now <= a.since + 1
        /\ Said(a.quote, k) /\ HeldUntil(a.quote, a.since, 0)
    BY <1>1 DEF QuotesHold, FetchHolds
  <1>4. HeldUntil(a.quote, now, 1) /\ HeldUntil(a.quote, a.since, Ttl(k))
    <2>1. ASSUME a.quote.nth < Len(changes[k])
          PROVE  /\ now <= changes[k][a.quote.nth + 1] + 1
                 /\ a.since <= changes[k][a.quote.nth + 1] + Ttl(k)
      <3>1. a.quote.nth \in Nat
        BY <1>3, QuotesAssumption DEF Said, Quote
      <3>2. changes[k][a.quote.nth + 1] \in Nat
        BY <1>2, <2>1, <3>1, AnswerIs
      <3>3. a.since <= changes[k][a.quote.nth + 1] + 0
        BY <1>3, <2>1 DEF Said, HeldUntil
      <3> DEFINE changed == changes[k][a.quote.nth + 1]
                 since == a.since
                 ttl == Ttl(k)
      <3>4. /\ changed \in Nat /\ since \in Nat /\ ttl \in Nat /\ now \in Nat
            /\ now <= since + 1 /\ since <= changed + 0
        BY <1>2, <1>3, <3>2, <3>3
      <3> HIDE DEF changed, since, ttl
      <3>5. now <= changed + 1 /\ since <= changed + ttl
        BY ONLY <3>4
      <3> QED
        BY <3>5 DEF changed, since, ttl
    <2> QED
      BY <1>3, <2>1 DEF HeldUntil, Said
  <1>5. CacheHolds'
    <2> SUFFICES ASSUME NEW j \in Keys, cache'[j] # NoRow
                 PROVE  /\ Said(cache'[j].quote, j)
                        /\ cache'[j].ttl = Ttl(j)
                        /\ cache'[j].at <= now
                        /\ HeldUntil(cache'[j].quote, cache'[j].at, 1)
      BY <1>1 DEF CacheHolds, Said, HeldUntil
    <2>1. cache \in [Keys -> Row \cup {NoRow}]
      BY DEF Typed, TypeOK, QuotesTypeOK
    <2>2. CASE cache'[j] = cache[j]
      BY <2>2 DEF QuotesHold, CacheHolds
    <2>3. CASE j = k /\ cache'[j] = row
      <3>1. row.quote = a.quote /\ row.at = now /\ row.ttl = Ttl(k)
        BY DEF Ttl
      <3> HIDE DEF row
      <3> QED
        BY <1>2, <1>3, <1>4, <2>3, <3>1
    <2> HIDE DEF row
    <2> QED
      BY <1>1, <2>1, <2>2, <2>3
  <1>6. /\ Beside(w) /\ req'[w].op = "fetch" /\ req'[w].arg.pc = "done"
        /\ req'[w].arg.quote = a.quote /\ req'[w].arg.key = k
        /\ req'[w].arg.since = a.since
    <2> HIDE DEF row
    <2>1. Continue(w, "done", a.turn, a.quote)
      BY <1>1
    <2> QED
      BY <1>1, <1>2, <2>1, Continued DEF Typed
  <1> HIDE DEF a, k
  <1>7. FetchHolds(req[w])'
    BY <1>1, <1>3, <1>4, <1>6 DEF FetchHolds, Said, HeldUntil, Ttl
  <1> QED
    BY <1>1, <1>5, <1>6, <1>7, FetchMoves

-----------------------------------------------------------------------------
(* Sequences *)

\* What Append does to a sequence.
LEMMA Appended ==
    ASSUME NEW S, NEW s \in Seq(S), NEW x \in S
    PROVE  /\ Append(s, x) \in Seq(S) /\ Len(Append(s, x)) = Len(s) + 1
           /\ DOMAIN s = 1..Len(s) /\ Len(s) \in Nat
           /\ DOMAIN Append(s, x) = DOMAIN s \cup {Len(s) + 1}
           /\ Len(s) + 1 \notin DOMAIN s
           /\ \A i \in DOMAIN s : Append(s, x)[i] = s[i]
           /\ Append(s, x)[Len(s) + 1] = x
  OBVIOUS

\* A sequence stays one when a member of it is replaced.
LEMMA Replaced ==
    ASSUME NEW S, NEW s \in Seq(S), NEW i \in DOMAIN s, NEW x \in S
    PROVE  /\ [s EXCEPT ![i] = x] \in Seq(S)
           /\ DOMAIN [s EXCEPT ![i] = x] = DOMAIN s
           /\ Len([s EXCEPT ![i] = x]) = Len(s)
           /\ [s EXCEPT ![i] = x][i] = x
           /\ \A j \in DOMAIN s \ {i} : [s EXCEPT ![i] = x][j] = s[j]
  OBVIOUS

-----------------------------------------------------------------------------
(* Vehicles: the steps *)

VehicleOps == {"create vehicle", "update vehicle", "set status", "fetch"}

KeepsVehicles ==
    /\ UNCHANGED <<vehicles, audit>>
    /\ crossed \subseteq crossed'
    /\ \A v \in Workers : req'[v].op \in VehicleOps =>
          /\ req'[v].op = req[v].op /\ req'[v].on = req[v].on
          /\ req[v].late \subseteq req'[v].late
          /\ IF req[v].op = "fetch"
             THEN /\ req'[v].arg.want = req[v].arg.want
                  /\ req'[v].arg.key = req[v].arg.key
             ELSE req'[v].arg = req[v].arg

LEMMA VehiclesKept == VehiclesHold /\ KeepsVehicles => VehiclesHold'
  <1> SUFFICES ASSUME VehiclesHold, KeepsVehicles
               PROVE  VehiclesHold'
    OBVIOUS
  <1>1. UNCHANGED <<vehicles, audit>> /\ crossed \subseteq crossed'
    BY DEF KeepsVehicles
  <1>2. TrailHolds' /\ SoldStaysSold' /\ PricedAsBrought'
    BY <1>1 DEF VehiclesHold, TrailHolds, SoldStaysSold, PricedAsBrought
  <1>3. ASSUME NEW v \in Workers PROVE VehicleRequestHolds(req[v])'
    <2>1. VehicleRequestHolds(req[v])
      BY DEF VehiclesHold
    <2>2. req'[v].op \in VehicleOps =>
            /\ req'[v].op = req[v].op /\ req'[v].on = req[v].on
            /\ req[v].late \subseteq req'[v].late
            /\ IF req[v].op = "fetch"
               THEN /\ req'[v].arg.want = req[v].arg.want
                    /\ req'[v].arg.key = req[v].arg.key
               ELSE req'[v].arg = req[v].arg
      BY DEF KeepsVehicles
    <2> QED
      BY <1>1, <2>1, <2>2
         DEF VehicleOps, VehicleRequestHolds, KnowsPrice, KnowsStatus, Priced,
             Brought
  <1> QED
    BY <1>2, <1>3 DEF VehiclesHold

\* A session knows what it knew, unless it became late.
LEMMA KnowsStill ==
    ASSUME NEW v \in Workers, VehicleRequestHolds(req[v]),
           req'[v].op = req[v].op, req'[v].on = req[v].on, req'[v].arg = req[v].arg,
           req[v].late \subseteq req'[v].late,
           DOMAIN vehicles \subseteq DOMAIN vehicles',
           \A i \in DOMAIN vehicles :
              /\ \/ Priced(vehicles'[i]) = Priced(vehicles[i])
                 \/ <<"vehicle", i>> \in req[v].on => <<"vehicle", i>> \in req'[v].late
              /\ \/ vehicles'[i].status = vehicles[i].status
                 \/ <<"status", i>> \in req[v].on => <<"status", i>> \in req'[v].late,
           \A i \in DOMAIN vehicles : vehicles[i].brought \subseteq vehicles'[i].brought
    PROVE  VehicleRequestHolds(req[v])'
  <1> DEFINE price(i, saw) == <<"vehicle", i>> \notin req[v].late =>
                                 Priced(saw) = Priced(vehicles[i])
             priceNow(i, saw) == <<"vehicle", i>> \notin req'[v].late =>
                                 Priced(saw) = Priced(vehicles'[i])
             status(i, saw) == <<"status", i>> \notin req[v].late =>
                                 saw.status = vehicles[i].status
             statusNow(i, saw) == <<"status", i>> \notin req'[v].late =>
                                 saw.status = vehicles'[i].status
  <1>1. \A i, saw : /\ i \in DOMAIN vehicles /\ req[v].on = {<<"vehicle", i>>}
                    /\ price(i, saw)
                    => priceNow(i, saw)
    <2> HIDE DEF Priced
    <2> QED
      OBVIOUS
  <1>2. \A i, saw : /\ i \in DOMAIN vehicles /\ req[v].on = {<<"status", i>>}
                    /\ status(i, saw)
                    => statusNow(i, saw)
    OBVIOUS
  <1>3. req[v].op = "update vehicle" => KnowsPrice(req[v], req[v].arg.i, req[v].arg.saw)'
    <2>1. req[v].op = "update vehicle" => KnowsPrice(req[v], req[v].arg.i, req[v].arg.saw)
      BY DEF VehicleRequestHolds
    <2> QED
      BY <1>1, <2>1 DEF KnowsPrice
  <1>4. req[v].op = "set status" => KnowsStatus(req[v], req[v].arg.i, req[v].arg.saw)'
    <2>1. req[v].op = "set status" => KnowsStatus(req[v], req[v].arg.i, req[v].arg.saw)
      BY DEF VehicleRequestHolds
    <2> QED
      BY <1>2, <2>1 DEF KnowsStatus
  <1>5. req[v].op = "fetch" /\ req[v].arg.want.for = "vehicle" =>
            KnowsPrice(req[v], req[v].arg.want.i, req[v].arg.want.saw)'
    <2>1. req[v].op = "fetch" /\ req[v].arg.want.for = "vehicle" =>
            KnowsPrice(req[v], req[v].arg.want.i, req[v].arg.want.saw)
      BY DEF VehicleRequestHolds
    <2> QED
      BY <1>1, <2>1 DEF KnowsPrice
  <1>6. req[v].op = "fetch" /\ req[v].arg.want.for = "vehicle" =>
            Brought(vehicles[req[v].arg.want.i], req[v].arg.key)'
    BY DEF VehicleRequestHolds, KnowsPrice, Brought
  <1> QED
    BY <1>3, <1>4, <1>5, <1>6 DEF VehicleRequestHolds

LEMMA VehicleAsked ==
    ASSUME VehiclesHold, NEW w \in Workers, Beside(w),
           UNCHANGED <<vehicles, crossed, audit>>, VehicleRequestHolds(req[w])'
    PROVE  VehiclesHold'
  <1>1. TrailHolds' /\ SoldStaysSold' /\ PricedAsBrought'
    BY DEF VehiclesHold, TrailHolds, SoldStaysSold, PricedAsBrought
  <1>2. ASSUME NEW v \in Workers \ {w} PROVE VehicleRequestHolds(req[v])'
    <2>1. /\ VehicleRequestHolds(req[v])
          /\ req'[v].op = req[v].op /\ req'[v].on = req[v].on
          /\ req'[v].arg = req[v].arg /\ req[v].late \subseteq req'[v].late
      BY DEF VehiclesHold, Beside
    <2> QED
      BY <2>1, KnowsStill
  <1> QED
    BY <1>1, <1>2 DEF VehiclesHold

\* A commit leaves what the others know: who holds what it wrote is late.
LEMMA OthersKnow ==
    ASSUME VehiclesHold, NEW w \in Workers, Beside(w), req'[w] = Idle,
           \A v \in Workers \ {w} : req[v].on \cap req[w].on \subseteq req'[v].late,
           DOMAIN vehicles \subseteq DOMAIN vehicles',
           \A i \in DOMAIN vehicles :
              /\ \/ Priced(vehicles'[i]) = Priced(vehicles[i])
                 \/ <<"vehicle", i>> \in req[w].on
              /\ \/ vehicles'[i].status = vehicles[i].status
                 \/ <<"status", i>> \in req[w].on,
           \A i \in DOMAIN vehicles : vehicles[i].brought \subseteq vehicles'[i].brought
    PROVE  \A v \in Workers : VehicleRequestHolds(req[v])'
  <1>1. VehicleRequestHolds(req[w])'
    BY DEF VehicleRequestHolds, Idle
  <1>2. ASSUME NEW v \in Workers \ {w} PROVE VehicleRequestHolds(req[v])'
    <2>1. /\ VehicleRequestHolds(req[v])
          /\ req'[v].op = req[v].op /\ req'[v].on = req[v].on
          /\ req'[v].arg = req[v].arg /\ req[v].late \subseteq req'[v].late
          /\ req[v].on \cap req[w].on \subseteq req'[v].late
      BY DEF VehiclesHold, Beside
    <2>2. \A i \in DOMAIN vehicles :
              /\ \/ Priced(vehicles'[i]) = Priced(vehicles[i])
                 \/ <<"vehicle", i>> \in req[v].on => <<"vehicle", i>> \in req'[v].late
              /\ \/ vehicles'[i].status = vehicles[i].status
                 \/ <<"status", i>> \in req[v].on => <<"status", i>> \in req'[v].late
      BY <2>1
    <2> QED
      BY <2>1, <2>2, KnowsStill
  <1> QED
    BY <1>1, <1>2

\* What a flush writes.
LEMMA FlushedForm ==
    ASSUME NEW row \in Vehicle, NEW saw \in Vehicle, NEW want \in Form
    PROVE  LET new == Written(row, saw, want) IN
           /\ new \in Vehicle
           /\ new.status = row.status
           /\ new.modelo = IF want.modelo # saw.modelo THEN want.modelo ELSE row.modelo
           /\ new.fipe = IF want.fipe # saw.fipe THEN want.fipe ELSE row.fipe
           /\ new.quote = IF want.quote # saw.quote THEN want.quote ELSE row.quote
           /\ new.last = row.last /\ new.brought = row.brought
  BY DEF Written, Vehicle, Form

\* What the history of a saved form is.
LEMMA BroughtIs ==
    ASSUME NEW v \in Vehicle, NEW quote \in Quote \cup {NoQuote}
    PROVE  LET new == Brings(v, quote) IN
           /\ new \in Vehicle
           /\ new.status = v.status /\ new.modelo = v.modelo
           /\ new.fipe = v.fipe /\ new.quote = v.quote
           /\ new.last = quote /\ new.brought = v.brought \cup {quote}
  BY DEF Brings, Vehicle

LEMMA FlushedStatus ==
    ASSUME NEW row \in Vehicle, NEW saw \in Vehicle, NEW want \in [status: Statuses]
    PROVE  LET new == Written(row, saw, want) IN
           /\ new \in Vehicle
           /\ Priced(new) = Priced(row) /\ new.brought = row.brought
           /\ new.status = IF want.status # saw.status THEN want.status ELSE row.status
  BY DEF Written, Vehicle, Priced

LEMMA FlushedQuote ==
    ASSUME NEW row \in Vehicle, NEW saw \in Vehicle, NEW quote \in Quote
    PROVE  LET new == Written(row, saw, [quote |-> quote]) IN
           /\ new \in Vehicle
           /\ new.status = row.status /\ new.modelo = row.modelo /\ new.fipe = row.fipe
           /\ new.quote = IF quote # saw.quote THEN quote ELSE row.quote
           /\ new.last = row.last /\ new.brought = row.brought
  BY DEF Written, Vehicle

\* What the sessions about a vehicle have.
LEMMA EditIs ==
    ASSUME Typed, NEW v \in Workers
    PROVE  /\ req[v].op = "create vehicle" => req[v].arg \in Form
           /\ req[v].op = "update vehicle" => req[v].arg \in EditArg
           /\ req[v].op = "set status" => req[v].arg \in StatusArg
           /\ req[v].op = "fetch" /\ req[v].arg.want.for = "vehicle" =>
                 req[v].arg.want \in [for: {"vehicle"}, i: Nat, saw: Vehicle]
  <1>1. req[v] \in Request
    BY DEF Typed
  <1>2. /\ req[v].op = "create vehicle" => req[v].arg \in Form
        /\ req[v].op = "update vehicle" => req[v].arg \in EditArg
        /\ req[v].op = "set status" => req[v].arg \in StatusArg
    BY <1>1, RequestIs DEF RequestOf
  <1>3. req[v].op = "fetch" =>
            req[v].arg.want \in [for: {"caller"}] \cup [for: {"vehicle"}, i: Nat, saw: Vehicle]
    BY FetchIs DEF FetchArg
  <1> QED
    BY <1>2, <1>3

\* A new vehicle fits, and nobody has asked for it or written of it.
LEMMA InsertVehicleStep ==
    ASSUME Typed, VehiclesHold, NEW w \in Workers, InsertVehicle(w)
    PROVE  /\ VehiclesHold'
           /\ vehicles' \in Seq(Vehicle) /\ Len(vehicles') <= MaxVehicles
           /\ audit' \in Seq(Entry)
  <1> DEFINE form == req[w].arg
             n == Len(vehicles) + 1
             new == [modelo |-> form.modelo, fipe |-> form.fipe,
                     quote |-> form.quote, status |-> "ativo",
                     brought |-> {form.quote}, last |-> form.quote]
             entry == [on |-> <<"vehicle", n>>, acao |-> "create",
                       after |-> [status |-> "ativo"]]
  <1>1. /\ req[w].op = "create vehicle" /\ Len(vehicles) < MaxVehicles
        /\ vehicles' = Append(vehicles, new)
        /\ audit' = Append(audit, entry)
        /\ Commit(w)
    BY DEF InsertVehicle, Log, Holds
  <1>2. vehicles \in Seq(Vehicle) /\ audit \in Seq(Entry)
    BY DEF Typed, TypeOK, VehiclesTypeOK
  <1>3. form \in Form
    BY <1>1, EditIs
  <1>4. new \in Vehicle /\ Fits(new) /\ Brought(new, new.quote.key)
    BY <1>3 DEF Form, Vehicle, Statuses, Fits, Brought
  <1>5. entry \in Entry /\ entry.acao = "create" /\ entry.on[2] = n
    BY <1>2 DEF Entry, Statuses
  <1> HIDE DEF new, entry
  <1>6. /\ vehicles' \in Seq(Vehicle) /\ Len(vehicles') = Len(vehicles) + 1
        /\ DOMAIN vehicles = 1..Len(vehicles) /\ Len(vehicles) \in Nat
        /\ DOMAIN vehicles' = DOMAIN vehicles \cup {n} /\ n \notin DOMAIN vehicles
        /\ \A i \in DOMAIN vehicles : vehicles'[i] = vehicles[i]
        /\ vehicles'[n] = new
    <2>1. vehicles' = Append(vehicles, new)
      BY <1>1
    <2> QED
      BY <1>2, <1>4, <2>1, Appended
  <1>7. /\ audit' \in Seq(Entry)
        /\ DOMAIN audit' = DOMAIN audit \cup {Len(audit) + 1}
        /\ \A j \in DOMAIN audit : audit'[j] = audit[j]
        /\ audit'[Len(audit) + 1] = entry
    <2>1. audit' = Append(audit, entry)
      BY <1>1
    <2> QED
      BY <1>2, <1>5, <2>1, Appended
  <1>8. /\ Beside(w) /\ req'[w] = Idle /\ crossed \subseteq crossed'
        /\ \A v \in Workers \ {w} : req[v].on \cap req[w].on \subseteq req'[v].late
    BY <1>1, Committed DEF Typed
  <1>9. \A v \in Workers : VehicleRequestHolds(req[v])'
    BY <1>6, <1>8, OthersKnow
  <1>10. TrailHolds'
    BY <1>5, <1>6, <1>7 DEF VehiclesHold, TrailHolds
  <1>11. SoldStaysSold'
    <2> SUFFICES ASSUME NEW i \in DOMAIN vehicles', <<"status", i>> \notin crossed',
                        NEW j \in DOMAIN audit', audit'[j].on = <<"vehicle", i>>,
                        audit'[j].acao = "set_status",
                        audit'[j].after.status = "vendido"
                 PROVE  vehicles'[i].status = "vendido"
      BY DEF SoldStaysSold
    <2>1. j \in DOMAIN audit /\ audit'[j] = audit[j]
      BY <1>5, <1>7
    <2>2. i \in DOMAIN vehicles
      BY <2>1 DEF VehiclesHold, TrailHolds
    <2> QED
      BY <1>6, <1>8, <2>1, <2>2 DEF VehiclesHold, SoldStaysSold
  <1>12. PricedAsBrought'
    BY <1>4, <1>6, <1>8 DEF VehiclesHold, PricedAsBrought, Fits, Brought
  <1>13. Len(vehicles') <= MaxVehicles
    <2>1. Len(vehicles) < MaxVehicles
      BY <1>1
    <2>2. Len(vehicles) + 1 = Len(vehicles') /\ Len(vehicles) \in Nat
      BY <1>6
    <2>3. MaxVehicles \in Nat
      BY VehiclesAssumption
    <2> QED
      BY <2>1, <2>2, <2>3
  <1> QED
    BY <1>6, <1>7, <1>9, <1>10, <1>11, <1>12, <1>13 DEF VehiclesHold

LEMMA FormIs ==
    ASSUME NEW form \in Forms
    PROVE  form \in Form
  <1>1. [key: Prices, nth: 0..MaxChanges] \subseteq Quote
    BY DEF Quote, Keys
  <1> QED
    BY <1>1 DEF Forms, Form

LEMMA VehicleIs ==
    ASSUME Typed
    PROVE  /\ vehicles \in Seq(Vehicle)
           /\ \A i \in DOMAIN vehicles : i \in Nat /\ vehicles[i] \in Vehicle
  <1>1. vehicles \in Seq(Vehicle)
    BY DEF Typed, TypeOK, VehiclesTypeOK
  <1> QED
    BY <1>1

LEMMA RequestKinds ==
    /\ RequestOf("fetch", FetchArg) \subseteq Request
    /\ RequestOf("create vehicle", Form) \subseteq Request
    /\ RequestOf("update vehicle", EditArg) \subseteq Request
    /\ RequestOf("set status", StatusArg) \subseteq Request
    /\ RequestOf("collect", CollectArg) \subseteq Request
  BY DEF Request

LEMMA ThingsOf ==
    ASSUME NEW i \in Nat
    PROVE  {<<"vehicle", i>>} \subseteq Things /\ {<<"status", i>>} \subseteq Things
  BY DEF Things

LEMMA CreateVehicleStep ==
    ASSUME Typed, VehiclesHold, NEW w \in Workers, NEW form \in Forms,
           CreateVehicle(w, form)
    PROVE  VehiclesHold' /\ Asks(w) /\ req'[w].op \notin {"fetch", "collect"}
  <1> DEFINE op == "create vehicle"
  <1>1. Open(w, op, {}, form) /\ UNCHANGED vehicles
    BY DEF CreateVehicle
  <1>2. /\ RequestOf(op, Form) \subseteq Request
        /\ form \in Form /\ {} \subseteq Things
        /\ req \in [Workers -> Request]
    BY FormIs, RequestKinds DEF Typed
  <1>3. /\ Asks(w)
        /\ req'[w].op = op /\ req'[w].arg = form
    <2> HIDE DEF op
    <2> QED
      BY <1>1, <1>2, Opened
  <1>4. VehicleRequestHolds(req[w])'
    BY <1>2, <1>3 DEF VehicleRequestHolds
  <1> QED
    BY <1>1, <1>3, <1>4, VehicleAsked DEF Asks

LEMMA UpdateVehicleStep ==
    ASSUME Typed, VehiclesHold, NEW w \in Workers, NEW form \in Forms,
           NEW i \in DOMAIN vehicles, UpdateVehicle(w, i, form)
    PROVE  VehiclesHold' /\ Asks(w) /\ req'[w].op \notin {"fetch", "collect"}
  <1> DEFINE arg == [i |-> i, saw |-> vehicles[i], want |-> form]
             on == {<<"vehicle", i>>}
             op == "update vehicle"
  <1>1. Open(w, op, on, arg) /\ UNCHANGED vehicles
    BY DEF UpdateVehicle
  <1>2. /\ arg \in EditArg /\ arg.i = i /\ arg.saw = vehicles[i]
        /\ arg.want = form
    BY FormIs, VehicleIs DEF EditArg
  <1>3. /\ RequestOf(op, EditArg) \subseteq Request /\ on \subseteq Things
        /\ req \in [Workers -> Request]
    BY VehicleIs, RequestKinds, ThingsOf DEF Typed
  <1> HIDE DEF arg, on
  <1>4. /\ Asks(w)
        /\ req'[w].op = op /\ req'[w].on = on /\ req'[w].arg = arg
    <2> HIDE DEF op
    <2> QED
      BY <1>1, <1>2, <1>3, Opened
  <1>5. VehicleRequestHolds(req[w])'
    BY <1>1, <1>2, <1>4 DEF VehicleRequestHolds, KnowsPrice, Priced, on
  <1> QED
    BY <1>1, <1>4, <1>5, VehicleAsked DEF Asks

LEMMA SetStatusStep ==
    ASSUME Typed, VehiclesHold, NEW w \in Workers, NEW to \in Statuses,
           NEW i \in DOMAIN vehicles, SetStatus(w, i, to)
    PROVE  VehiclesHold' /\ Asks(w) /\ req'[w].op \notin {"fetch", "collect"}
  <1> DEFINE want == [status |-> to]
             arg == [i |-> i, saw |-> vehicles[i], want |-> want]
             on == {<<"status", i>>}
             op == "set status"
  <1>1. /\ Open(w, op, on, arg) /\ UNCHANGED vehicles
        /\ to \in Transitions[vehicles[i].status]
    BY DEF SetStatus, Transition
  <1>2. want \in [status: Statuses] /\ want.status = to
    OBVIOUS
  <1> HIDE DEF want
  <1>3. arg \in StatusArg /\ arg.i = i /\ arg.saw = vehicles[i] /\ arg.want = want
    BY <1>2, VehicleIs DEF StatusArg
  <1>4. /\ RequestOf(op, StatusArg) \subseteq Request /\ on \subseteq Things
        /\ req \in [Workers -> Request]
    BY VehicleIs, RequestKinds, ThingsOf DEF Typed
  <1> HIDE DEF arg, on
  <1>5. /\ Asks(w)
        /\ req'[w].op = op /\ req'[w].on = on /\ req'[w].arg = arg
    <2> HIDE DEF op
    <2> QED
      BY <1>1, <1>3, <1>4, Opened
  <1>6. VehicleRequestHolds(req[w])'
    BY <1>1, <1>2, <1>3, <1>5 DEF VehicleRequestHolds, KnowsStatus, on
  <1> QED
    BY <1>1, <1>5, <1>6, VehicleAsked DEF Asks

\* The session of a fetch of k, for whoever wants it.
LEMMA FetchStarted ==
    ASSUME Typed, NEW w \in Workers, NEW k \in Keys, NEW on \in SUBSET Things,
           NEW want \in [for: {"caller"}] \cup [for: {"vehicle"}, i: Nat, saw: Vehicle],
           StartFetch(w, k, on, want)
    PROVE  /\ Asks(w)
           /\ req'[w].op = "fetch" /\ req'[w].on = on
           /\ req'[w].arg.want = want /\ req'[w].arg.key = k
     <1> DEFINE arg == [pc |-> "read", key |-> k, turn |-> 1, quote |-> NoQuote,
                     since |-> now, want |-> want]
  <1>1. 1 \in DOMAIN Providers /\ now \in 0..MaxNow
    BY QuotesAssumption DEF Typed, TypeOK, QuotesTypeOK
  <1>2. arg \in FetchArg /\ arg.want = want /\ arg.key = k
    BY <1>1 DEF FetchArg
  <1>3. Open(w, "fetch", on, arg)
    BY DEF StartFetch
  <1>4. RequestOf("fetch", FetchArg) \subseteq Request
    BY DEF Request
  <1> HIDE DEF arg
  <1> QED
    BY <1>2, <1>3, <1>4, Opened DEF Typed

LEMMA RefreshFipeStep ==
    ASSUME Typed, VehiclesHold, NEW w \in Workers, NEW i \in DOMAIN vehicles,
           RefreshFipe(w, i)
    PROVE  /\ VehiclesHold' /\ Asks(w) /\ req'[w].op = "fetch"
           /\ vehicles[i].quote.key \in Keys
  <1> DEFINE k == vehicles[i].quote.key
             on == {<<"vehicle", i>>}
             want == [for |-> "vehicle", i |-> i, saw |-> vehicles[i]]
  <1>1. /\ StartFetch(w, k, on, want) /\ UNCHANGED vehicles
        /\ vehicles[i].fipe /\ vehicles[i].quote # NoQuote
    BY DEF RefreshFipe, ModelOfSnapshot
  <1>2. /\ i \in Nat /\ vehicles[i] \in Vehicle /\ k \in Keys
    <2>1. i \in Nat /\ vehicles[i] \in Vehicle
      BY VehicleIs
    <2>2. vehicles[i].quote \in Quote
      BY <1>1, <2>1 DEF Vehicle
    <2> QED
      BY <2>1, <2>2 DEF Quote
  <1>3. want \in [for: {"vehicle"}, i: Nat, saw: Vehicle] /\ on \subseteq Things
    BY <1>2 DEF Things
  <1>4. want.for = "vehicle" /\ want.i = i /\ want.saw = vehicles[i]
    OBVIOUS
  <1> HIDE DEF want, on
  <1>5. /\ Asks(w)
        /\ req'[w].op = "fetch" /\ req'[w].on = on
        /\ req'[w].arg.want = want /\ req'[w].arg.key = k
    BY <1>1, <1>2, <1>3, FetchStarted
  <1>6. Brought(vehicles[i], k)
    BY DEF VehiclesHold, PricedAsBrought, Brought
  <1>7. VehicleRequestHolds(req[w])'
    BY <1>1, <1>4, <1>5, <1>6 DEF VehicleRequestHolds, KnowsPrice, Priced, Brought, on
  <1> QED
    BY <1>1, <1>2, <1>5, <1>7, VehicleAsked DEF Asks

LEMMA AskQuoteStep ==
    ASSUME Typed, VehiclesHold, NEW w \in Workers, NEW k \in Keys, AskQuote(w, k),
           UNCHANGED vehicles
    PROVE  VehiclesHold' /\ Asks(w) /\ req'[w].op = "fetch"
  <1> DEFINE want == [for |-> "caller"]
  <1>1. StartFetch(w, k, {}, want)
    BY DEF AskQuote
  <1>2. want \in [for: {"caller"}] /\ want.for = "caller" /\ {} \in SUBSET Things
    OBVIOUS
  <1> HIDE DEF want
  <1>3. /\ Asks(w)
        /\ req'[w].op = "fetch" /\ req'[w].arg.want = want
    BY <1>1, <1>2, FetchStarted
  <1>4. VehicleRequestHolds(req[w])'
    BY <1>2, <1>3 DEF VehicleRequestHolds
  <1> QED
    BY <1>3, <1>4, VehicleAsked DEF Asks

\* A commit of a vehicle that is there: what the invariant asks of it.
LEMMA VehicleWritten ==
    ASSUME Typed, VehiclesHold, NEW w \in Workers, Commit(w),
           NEW i \in DOMAIN vehicles, NEW new \in Vehicle,
           vehicles' = [vehicles EXCEPT ![i] = new],
           vehicles[i].brought \subseteq new.brought, Brought(new, new.quote.key),
           \/ Priced(new) = Priced(vehicles[i])
           \/ /\ <<"vehicle", i>> \in req[w].on
              /\ Fits(new) \/ <<"vehicle", i>> \in crossed \cup req[w].late,
           \/ new.status = vehicles[i].status
           \/ /\ <<"status", i>> \in req[w].on
              /\ vehicles[i].status # "vendido" \/ <<"status", i>> \in req[w].late,
           \/ audit' = audit
           \/ \E e \in Entry :
                 /\ audit' = Append(audit, e) /\ e.on = <<"vehicle", i>>
                 /\ e.acao = "set_status" /\ e.after.status = "vendido" =>
                       new.status = "vendido" \/ <<"status", i>> \in req[w].late
    PROVE  /\ VehiclesHold'
           /\ vehicles' \in Seq(Vehicle) /\ Len(vehicles') = Len(vehicles)
           /\ audit' \in Seq(Entry)
  <1>1. vehicles \in Seq(Vehicle) /\ audit \in Seq(Entry) /\ req \in [Workers -> Request]
    BY DEF Typed, TypeOK, VehiclesTypeOK
  <1>2. /\ vehicles' \in Seq(Vehicle) /\ Len(vehicles') = Len(vehicles)
        /\ DOMAIN vehicles' = DOMAIN vehicles /\ vehicles'[i] = new
        /\ \A j \in DOMAIN vehicles \ {i} : vehicles'[j] = vehicles[j]
    BY <1>1, Replaced
  <1>3. /\ Beside(w) /\ req'[w] = Idle /\ crossed' = crossed \cup req[w].late
        /\ \A v \in Workers \ {w} : req[v].on \cap req[w].on \subseteq req'[v].late
    BY <1>1, Committed
  <1>4. \A v \in Workers : VehicleRequestHolds(req[v])'
    <2>1. \A j \in DOMAIN vehicles :
              /\ \/ Priced(vehicles'[j]) = Priced(vehicles[j])
                 \/ <<"vehicle", j>> \in req[w].on
              /\ \/ vehicles'[j].status = vehicles[j].status
                 \/ <<"status", j>> \in req[w].on
      <3> HIDE DEF Priced
      <3> QED
        BY <1>2
    <2>2. \A j \in DOMAIN vehicles : vehicles[j].brought \subseteq vehicles'[j].brought
      BY <1>2
    <2> QED
      BY <1>2, <1>3, <2>1, <2>2, OthersKnow
  <1>5. /\ audit' \in Seq(Entry) /\ DOMAIN audit \subseteq DOMAIN audit'
        /\ \A j \in DOMAIN audit : audit'[j] = audit[j]
        /\ \A j \in DOMAIN audit' \ DOMAIN audit :
              /\ audit'[j].on = <<"vehicle", i>>
              /\ audit'[j].acao = "set_status" /\ audit'[j].after.status = "vendido" =>
                    new.status = "vendido" \/ <<"status", i>> \in req[w].late
    <2>1. CASE audit' = audit
      BY <1>1, <2>1
    <2>2. ASSUME NEW e \in Entry,
                 audit' = Append(audit, e), e.on = <<"vehicle", i>>,
                 e.acao = "set_status" /\ e.after.status = "vendido" =>
                       new.status = "vendido" \/ <<"status", i>> \in req[w].late
          PROVE  <1>5!1 /\ <1>5!2 /\ <1>5!3
      <3>1. /\ audit' \in Seq(Entry) /\ DOMAIN audit' = DOMAIN audit \cup {Len(audit) + 1}
            /\ \A j \in DOMAIN audit : audit'[j] = audit[j]
            /\ audit'[Len(audit) + 1] = e
        BY <1>1, <2>2, Appended
      <3> QED
        BY <2>2, <3>1
    <2> QED
      BY <2>1, <2>2
  <1>6. TrailHolds'
    BY <1>2, <1>5 DEF VehiclesHold, TrailHolds
  <1>7. SoldStaysSold'
    <2> SUFFICES ASSUME NEW n \in DOMAIN vehicles', <<"status", n>> \notin crossed',
                        NEW j \in DOMAIN audit', audit'[j].on = <<"vehicle", n>>,
                        audit'[j].acao = "set_status",
                        audit'[j].after.status = "vendido"
                 PROVE  vehicles'[n].status = "vendido"
      BY DEF SoldStaysSold
    <2>1. <<"status", n>> \notin crossed /\ <<"status", n>> \notin req[w].late
      BY <1>3
    <2>2. CASE j \in DOMAIN audit
      <3>1. vehicles[n].status = "vendido"
        BY <1>2, <1>5, <2>1, <2>2 DEF VehiclesHold, SoldStaysSold
      <3> QED
        BY <1>2, <2>1, <3>1
    <2>3. CASE j \notin DOMAIN audit
      <3>1. /\ audit'[j].on = <<"vehicle", i>>
            /\ new.status = "vendido" \/ <<"status", i>> \in req[w].late
        BY <1>5, <2>3
      <3>2. n = i
        BY <3>1
      <3> QED
        BY <1>2, <2>1, <3>1, <3>2
    <2> QED
      BY <2>2, <2>3
  <1>8. PricedAsBrought'
    <2>1. ASSUME NEW n \in DOMAIN vehicles, <<"vehicle", n>> \notin crossed'
          PROVE  Fits(vehicles'[n])
      <3>1. Fits(vehicles[n])
        BY <1>3, <2>1 DEF VehiclesHold, PricedAsBrought, Fits
      <3>2. CASE n = i
        BY <1>2, <1>3, <2>1, <3>1, <3>2 DEF Priced, Fits
      <3> QED
        BY <1>2, <3>1, <3>2
    <2>2. ASSUME NEW n \in DOMAIN vehicles
          PROVE  Brought(vehicles'[n], vehicles'[n].quote.key)
      <3>1. Brought(vehicles[n], vehicles[n].quote.key)
        BY DEF VehiclesHold, PricedAsBrought, Brought
      <3> HIDE DEF Brought
      <3> QED
        BY <1>2, <3>1
    <2> QED
      BY <1>2, <2>1, <2>2 DEF PricedAsBrought, Fits, Brought
  <1> QED
    BY <1>2, <1>4, <1>5, <1>6, <1>7, <1>8 DEF VehiclesHold

LEMMA WriteVehicleStep ==
    ASSUME Typed, VehiclesHold, NEW w \in Workers, WriteVehicle(w)
    PROVE  /\ VehiclesHold'
           /\ vehicles' \in Seq(Vehicle) /\ Len(vehicles') = Len(vehicles)
           /\ audit' \in Seq(Entry)
  <1> DEFINE a == req[w].arg
             row == vehicles[a.i]
             flushed == Written(row, a.saw, a.want)
             new == Brings(flushed, a.want.quote)
             entry == [on |-> <<"vehicle", a.i>>, acao |-> "update", after |-> <<>>]
  <1>1. /\ req[w].op = "update vehicle" /\ Commit(w)
        /\ vehicles' = [vehicles EXCEPT ![a.i] = new]
        /\ audit' = Append(audit, entry)
    BY DEF WriteVehicle, Log, Holds
  <1>2. a \in EditArg /\ KnowsPrice(req[w], a.i, a.saw)
    BY <1>1, EditIs DEF VehiclesHold, VehicleRequestHolds
  <1>3. /\ a.i \in Nat /\ a.saw \in Vehicle /\ a.want \in Form
        /\ a.i \in DOMAIN vehicles /\ row \in Vehicle
        /\ <<"vehicle", a.i>> \in req[w].on
        /\ <<"vehicle", a.i>> \notin req[w].late => Priced(a.saw) = Priced(row)
    BY <1>2, VehicleIs DEF EditArg, KnowsPrice
  <1>4. entry \in Entry /\ entry.on = <<"vehicle", a.i>> /\ entry.acao = "update"
    BY <1>3 DEF Entry
  <1>5. /\ flushed \in Vehicle /\ flushed.status = row.status
        /\ flushed.fipe = IF a.want.fipe # a.saw.fipe THEN a.want.fipe ELSE row.fipe
        /\ flushed.quote = IF a.want.quote # a.saw.quote THEN a.want.quote
                           ELSE row.quote
        /\ flushed.brought = row.brought
    <2> HIDE DEF row, a
    <2> QED
      BY <1>3, FlushedForm
  <1>6. /\ new \in Vehicle /\ new.status = row.status
        /\ new.fipe = flushed.fipe /\ new.quote = flushed.quote
        /\ new.last = a.want.quote /\ new.brought = row.brought \cup {a.want.quote}
    <2>1. a.want.quote \in Quote \cup {NoQuote}
      BY <1>3 DEF Form
    <2> HIDE DEF row, a, flushed
    <2> QED
      BY <1>5, <2>1, BroughtIs
  <1>7. Fits(new) \/ <<"vehicle", a.i>> \in req[w].late
    <2>1. ASSUME Priced(a.saw) = Priced(row)
          PROVE  new.quote = a.want.quote
      <3>1. a.saw.quote = row.quote
        BY <2>1 DEF Priced
      <3> HIDE DEF new, row, a, flushed
      <3> QED
        BY <1>5, <1>6, <3>1
    <2> HIDE DEF new, row, a, flushed
    <2> QED
      BY <1>3, <1>6, <2>1 DEF Fits
  <1>8. Brought(new, new.quote.key)
    <2>1. Brought(row, row.quote.key)
      BY <1>3 DEF VehiclesHold, PricedAsBrought, Brought
    <2> HIDE DEF new, row, a, flushed
    <2> QED
      BY <1>5, <1>6, <2>1 DEF Brought
  <1>9. row.brought \subseteq new.brought
    BY <1>6
  <1> HIDE DEF new, entry, flushed
  <1> QED
    BY <1>1, <1>3, <1>4, <1>6, <1>7, <1>8, <1>9, VehicleWritten

LEMMA WriteStatusStep ==
    ASSUME Typed, VehiclesHold, NEW w \in Workers, WriteStatus(w)
    PROVE  /\ VehiclesHold'
           /\ vehicles' \in Seq(Vehicle) /\ Len(vehicles') = Len(vehicles)
           /\ audit' \in Seq(Entry)
  <1> DEFINE a == req[w].arg
             row == vehicles[a.i]
             new == Written(row, a.saw, a.want)
             entry == [on |-> <<"vehicle", a.i>>, acao |-> "set_status",
                       after |-> [status |-> a.want.status]]
  <1>1. /\ req[w].op = "set status" /\ Commit(w)
        /\ vehicles' = [vehicles EXCEPT ![a.i] = new]
        /\ audit' = Append(audit, entry)
    BY DEF WriteStatus, Log, Holds
  <1>2. /\ a \in StatusArg /\ a.want.status \in Transitions[a.saw.status]
        /\ KnowsStatus(req[w], a.i, a.saw)
    BY <1>1, EditIs DEF VehiclesHold, VehicleRequestHolds
  <1>3. /\ a.i \in Nat /\ a.saw \in Vehicle /\ a.want \in [status: Statuses]
        /\ a.i \in DOMAIN vehicles /\ row \in Vehicle
        /\ <<"status", a.i>> \in req[w].on
        /\ <<"status", a.i>> \notin req[w].late => a.saw.status = row.status
    BY <1>2, VehicleIs DEF StatusArg, KnowsStatus
  <1>4. entry \in Entry /\ entry.on = <<"vehicle", a.i>> /\ entry.after.status = a.want.status
    BY <1>3 DEF Entry
  <1>5. /\ new \in Vehicle /\ Priced(new) = Priced(row)
        /\ new.brought = row.brought
        /\ new.status = IF a.want.status # a.saw.status THEN a.want.status ELSE row.status
    <2> HIDE DEF row, a
    <2> QED
      BY <1>3, FlushedStatus
  <1>6. a.saw.status # "vendido"
    BY <1>2 DEF Transitions
  <1> HIDE DEF new, entry
  <1>7. new.status = row.status \/ row.status # "vendido" \/ <<"status", a.i>> \in req[w].late
    BY <1>3, <1>6
  <1>8. new.status = a.want.status \/ <<"status", a.i>> \in req[w].late
    BY <1>3, <1>5
  <1>9. PICK i \in DOMAIN vehicles, n \in Vehicle, e \in Entry :
            i = a.i /\ n = new /\ e = entry
    BY <1>3, <1>4, <1>5
  <1>14. vehicles[i].brought \subseteq n.brought /\ Brought(n, n.quote.key)
    <2>1. Brought(row, row.quote.key)
      BY <1>3 DEF VehiclesHold, PricedAsBrought, Brought
    <2>2. n.brought = row.brought /\ n.quote = row.quote /\ row = vehicles[i]
      BY <1>5, <1>9 DEF Priced
    <2> HIDE DEF row, a
    <2> QED
      BY <2>1, <2>2 DEF Brought
  <1>10. /\ Priced(n) = Priced(vehicles[i])
         /\ vehicles' = [vehicles EXCEPT ![i] = n] /\ audit' = Append(audit, e)
         /\ e.on = <<"vehicle", i>>
         /\ e.after.status = "vendido" =>
               n.status = "vendido" \/ <<"status", i>> \in req[w].late
         /\ \/ n.status = vehicles[i].status
            \/ /\ <<"status", i>> \in req[w].on
               /\ vehicles[i].status # "vendido" \/ <<"status", i>> \in req[w].late
    BY <1>1, <1>3, <1>4, <1>5, <1>7, <1>8, <1>9
  <1> HIDE DEF row, a
  <1>11. \/ audit' = audit
         \/ \E x \in Entry :
               /\ audit' = Append(audit, x) /\ x.on = <<"vehicle", i>>
               /\ x.acao = "set_status" /\ x.after.status = "vendido" =>
                     n.status = "vendido" \/ <<"status", i>> \in req[w].late
    BY <1>10
  <1>12. Commit(w)
    BY <1>1
  <1>13. \/ n.status = vehicles[i].status
         \/ /\ <<"status", i>> \in req[w].on
            /\ vehicles[i].status # "vendido" \/ <<"status", i>> \in req[w].late
    BY <1>10
  <1> QED
    BY <1>10, <1>11, <1>12, <1>13, <1>14, VehicleWritten, Zenon

LEMMA WriteQuoteStep ==
    ASSUME Typed, QuotesHold, VehiclesHold, NEW w \in Workers, WriteQuote(w)
    PROVE  /\ VehiclesHold'
           /\ vehicles' \in Seq(Vehicle) /\ Len(vehicles') = Len(vehicles)
           /\ audit' \in Seq(Entry)
  <1> DEFINE a == req[w].arg
             i == a.want.i
             saw == a.want.saw
             row == vehicles[i]
             new == Written(row, saw, [quote |-> a.quote])
  <1>1. /\ req[w].op = "fetch" /\ a.pc = "done" /\ a.want.for = "vehicle" /\ Commit(w)
        /\ vehicles' = [vehicles EXCEPT ![i] = new]
        /\ audit' = audit
    BY DEF WriteQuote, Fetching, Holds
  <1>2. /\ a.want \in [for: {"vehicle"}, i: Nat, saw: Vehicle]
        /\ saw.fipe /\ saw.quote.key = a.key /\ KnowsPrice(req[w], i, saw)
    BY <1>1, EditIs DEF VehiclesHold, VehicleRequestHolds
  <1>3. /\ saw \in Vehicle /\ i \in DOMAIN vehicles /\ row \in Vehicle
        /\ <<"vehicle", i>> \in req[w].on
        /\ <<"vehicle", i>> \notin req[w].late => Priced(saw) = Priced(row)
    BY <1>2, VehicleIs DEF KnowsPrice
  <1>4. a.quote \in Quote /\ a.quote.key = a.key
    BY <1>1 DEF QuotesHold, FetchHolds, Said
  <1>5. /\ new \in Vehicle /\ new.status = row.status /\ new.fipe = row.fipe
        /\ new.quote = IF a.quote # saw.quote THEN a.quote ELSE row.quote
        /\ new.last = row.last /\ new.brought = row.brought
    <2> HIDE DEF row, saw, i, a
    <2> QED
      BY <1>3, <1>4, FlushedQuote
  <1>6. Fits(new) \/ <<"vehicle", i>> \in crossed \cup req[w].late
    <2> SUFFICES ASSUME <<"vehicle", i>> \notin crossed, <<"vehicle", i>> \notin req[w].late
                 PROVE  Fits(new)
      OBVIOUS
    <2>1. row.quote = saw.quote /\ row.fipe = saw.fipe
      BY <1>3 DEF Priced
    <2>2. row.quote.key = row.last.key
      BY <1>3 DEF VehiclesHold, PricedAsBrought
    <2> HIDE DEF new, row, saw, i, a
    <2>3. new.fipe = row.fipe /\ new.quote = a.quote /\ a.quote.key = new.last.key
      BY <1>2, <1>4, <1>5, <2>1, <2>2
    <2> QED
      BY <1>2, <2>1, <2>3 DEF Fits
  <1>7. Brought(new, new.quote.key) /\ row.brought \subseteq new.brought
    <2>1. Brought(row, row.quote.key) /\ Brought(row, a.key)
      BY <1>1, <1>3 DEF VehiclesHold, PricedAsBrought, VehicleRequestHolds, Brought
    <2> HIDE DEF new, row, saw, i, a
    <2> QED
      BY <1>4, <1>5, <2>1 DEF Brought
  <1> HIDE DEF new
  <1> QED
    BY <1>1, <1>3, <1>5, <1>6, <1>7, VehicleWritten

-----------------------------------------------------------------------------
(* Indicators: the steps *)

LEMMA DayOfGrows ==
    ASSUME NEW m \in Nat, NEW n \in Nat
    PROVE  /\ DayOf(m) \in Nat
           /\ m <= n => DayOf(m) <= DayOf(n)
           /\ DayOf(m) < DayOf(n) => m < n
  BY DEF DayOf

LEMMA CollectIs ==
    ASSUME Typed, NEW v \in Workers, req[v].op = "collect"
    PROVE  /\ req[v] \in RequestOf("collect", CollectArg)
           /\ req[v].arg \in CollectArg
           /\ req[v].arg.turn \in DOMAIN Codes /\ Codes[req[v].arg.turn] \in Code
           /\ req[v].arg.points \subseteq Days
           /\ req[v].arg.fonte \in {"none", "bacen_sgs", "bacen_brasilapi"}
           /\ req[v].arg.since \in Nat
  <1>1. req[v] \in RequestOf("collect", CollectArg)
    BY RequestIs DEF Typed
  <1>2. req[v].arg \in CollectArg
    BY <1>1 DEF RequestOf
  <1>3. 0..MaxNow \subseteq Nat
    BY QuotesAssumption
  <1> QED
    BY <1>1, <1>2, <1>3 DEF CollectArg, Code

LEMMA RowsAre ==
    ASSUME Typed
    PROVE  /\ now \in Nat /\ locks \subseteq Days /\ Days \subseteq Nat
           /\ \A c \in Code : /\ lastOk[c] \in Nat
                              /\ \A d \in Days : history[c][d].at \in Nat
                              /\ \A d \in Days : history[c][d] # Never =>
                                    history[c][d] \in Point
  <1>1. /\ now \in 0..MaxNow /\ locks \subseteq Days /\ MaxNow \in Nat
        /\ lastOk \in [Code -> 0..MaxNow]
        /\ history \in [Code -> [Days -> Point \cup {Never}]]
    BY QuotesAssumption DEF Typed, TypeOK, QuotesTypeOK
  <1>2. ASSUME NEW c \in Code, NEW d \in Days
        PROVE  history[c][d].at \in Nat /\ (history[c][d] # Never => history[c][d] \in Point)
    <2>1. history[c][d] \in Point \cup {Never}
      BY <1>1
    <2>2. Never.at = 0
      BY DEF Never
    <2>3. \A p \in Point : p.at \in Nat
      BY <1>1 DEF Point
    <2> QED
      BY <2>1, <2>2, <2>3
  <1>3. Days \subseteq Nat
    BY <1>1, DayOfGrows DEF Days
  <1> QED
    BY <1>1, <1>2, <1>3

KeepsIndicators ==
    /\ UNCHANGED <<now, history, locks, lastOk>>
    /\ \A v \in Workers : req'[v].op = "collect" =>
          req[v].op = "collect" /\ req'[v].arg = req[v].arg

LEMMA IndicatorsKept == IndicatorsHold /\ KeepsIndicators => IndicatorsHold'
  <1> SUFFICES ASSUME IndicatorsHold, KeepsIndicators
               PROVE  IndicatorsHold'
    OBVIOUS
  <1>1. UNCHANGED <<now, history, locks, lastOk>>
    BY DEF KeepsIndicators
  <1>2. \A c \in Code : RowsHold(c)' /\ NewestHolds(c)'
    BY <1>1 DEF IndicatorsHold, RowsHold, NewestHolds, Dated
  <1>3. ASSUME NEW v \in Workers PROVE CollectHolds(req[v])'
    <2>1. CollectHolds(req[v])
      BY DEF IndicatorsHold
    <2>2. req'[v].op = "collect" => req[v].op = "collect" /\ req'[v].arg = req[v].arg
      BY DEF KeepsIndicators
    <2> QED
      BY <1>1, <2>1, <2>2 DEF CollectHolds
  <1>4. OneADay'
    BY DEF IndicatorsHold, KeepsIndicators, OneADay
  <1> QED
    BY <1>2, <1>3, <1>4 DEF IndicatorsHold

LEMMA TickIndicators ==
    ASSUME Typed, IndicatorsHold, Tick
    PROVE  IndicatorsHold'
  <1>1. /\ now' = now + 1 /\ UNCHANGED <<req, history, locks, lastOk>>
        /\ \A v \in Workers : req[v].op = "collect" => req[v].arg.since = now
    BY DEF Tick, JobsPrompt, Holds, requestVars, indicatorVars
  <1>2. \A c \in Code : RowsHold(c)' /\ NewestHolds(c)'
    <2>1. \A c \in Code : lastOk[c] <= now => lastOk[c] <= now + 1
      BY RowsAre
    <2> QED
      BY <1>1, <2>1 DEF IndicatorsHold, RowsHold, NewestHolds, Dated
  <1>3. ASSUME NEW v \in Workers, req[v].op = "collect"
        PROVE  CollectHolds(req[v])'
    <2>1. CollectHolds(req[v])
      BY DEF IndicatorsHold
    <2>2. now <= now + 1 /\ now + 1 <= now + 1 /\ DayOf(now) <= DayOf(now + 1)
          /\ DayOf(now + 1) \in Nat /\ DayOf(now) \in Nat
      BY RowsAre, DayOfGrows
    <2>3. \A d \in Days : d <= DayOf(now) => d <= DayOf(now + 1)
      BY <2>2, RowsAre
    <2> QED
      BY <1>1, <1>3, <2>1, <2>2, <2>3 DEF CollectHolds
  <1>4. OneADay'
    BY <1>1 DEF IndicatorsHold, OneADay
  <1> QED
    BY <1>1, <1>2, <1>3, <1>4 DEF IndicatorsHold, CollectHolds

\* A step of one session that commits no rows.
LEMMA CollectMoves ==
    ASSUME IndicatorsHold, NEW w \in Workers, Beside(w),
           UNCHANGED <<now, history, lastOk>>, locks \subseteq locks',
           CollectHolds(req[w])',
           req'[w].op = "collect" =>
              \A v \in Workers \ {w} : req[v].op = "collect" =>
                  DayOf(req[v].arg.since) # DayOf(req'[w].arg.since)
    PROVE  IndicatorsHold'
  <1>1. \A c \in Code : RowsHold(c)' /\ NewestHolds(c)'
    BY DEF IndicatorsHold, RowsHold, NewestHolds, Dated
  <1>2. ASSUME NEW v \in Workers \ {w} PROVE CollectHolds(req[v])'
    <2>1. CollectHolds(req[v])
      BY DEF IndicatorsHold
    <2>2. req'[v].op = req[v].op /\ req'[v].arg = req[v].arg
      BY DEF Beside
    <2> SUFFICES ASSUME req[v].op = "collect" PROVE CollectHolds(req[v])'
      BY <2>2 DEF CollectHolds
    <2> QED
      BY ONLY <2>1, <2>2, req[v].op = "collect",
              UNCHANGED <<now, history>>, locks \subseteq locks' DEF CollectHolds
  <1>3. OneADay'
    BY DEF IndicatorsHold, OneADay, Beside
  <1> QED
    BY <1>1, <1>2, <1>3 DEF IndicatorsHold

LEMMA StartJobStep ==
    ASSUME Typed, IndicatorsHold, NEW w \in Workers, StartJob(w)
    PROVE  /\ IndicatorsHold' /\ Asks(w)
           /\ req'[w].op = "collect" /\ locks' \subseteq Days
  <1> DEFINE arg == [turn |-> 1, points |-> {}, fonte |-> "none", since |-> now]
  <1>1. /\ Today \notin locks /\ locks' = locks \cup {Today}
        /\ Open(w, "collect", {}, arg) /\ UNCHANGED <<now, history, lastOk>>
    BY DEF StartJob, quoteVars
  <1>2. now \in 0..MaxNow /\ now \in Nat /\ MaxNow \in Nat /\ now <= MaxNow
    BY QuotesAssumption DEF Typed, TypeOK, QuotesTypeOK
  <1>3. arg \in CollectArg /\ arg.since = now /\ arg.points = {}
    <2>1. 1 \in DOMAIN Codes
      BY MarketAssumption
    <2> QED
      BY <1>2, <2>1 DEF CollectArg
  <1>4. Today \in Days
    BY <1>2, DayOfGrows DEF Today, Days
  <1>5. /\ RequestOf("collect", CollectArg) \subseteq Request
        /\ {} \subseteq Things /\ req \in [Workers -> Request]
    BY RequestKinds DEF Typed
  <1> HIDE DEF arg
  <1>6. Asks(w) /\ req'[w].op = "collect" /\ req'[w].arg = arg
    BY <1>1, <1>3, <1>5, Opened
  <1>7. CollectHolds(req[w])'
    BY <1>1, <1>2, <1>3, <1>6 DEF CollectHolds, Today
  <1>8. ASSUME NEW v \in Workers \ {w}, req[v].op = "collect"
        PROVE  DayOf(req[v].arg.since) # DayOf(req'[w].arg.since)
    <2>1. DayOf(req[v].arg.since) \in locks
      BY <1>8 DEF IndicatorsHold, CollectHolds
    <2> QED
      BY <1>1, <1>3, <1>6, <2>1 DEF Today
  <1> QED
    BY <1>1, <1>4, <1>6, <1>7, <1>8, RowsAre, CollectMoves DEF Asks

\* What a session that has asked a provider holds.
LEMMA Taken ==
    ASSUME Typed, NEW w \in Workers, req[w].op = "collect",
           NEW points \in SUBSET Days,
           NEW fonte \in {"none", "bacen_sgs", "bacen_brasilapi"}, Take(w, points, fonte)
    PROVE  /\ req' \in [Workers -> Request] /\ Beside(w)
           /\ req'[w].op = "collect"
           /\ req'[w].arg.turn = req[w].arg.turn
           /\ req'[w].arg.since = req[w].arg.since
           /\ req'[w].arg.points = points /\ req'[w].arg.fonte = fonte
  <1> DEFINE arg == [req[w].arg EXCEPT !.points = points, !.fonte = fonte]
             new == [req[w] EXCEPT !.arg = arg]
  <1>1. req[w] \in RequestOf("collect", CollectArg) /\ req[w].arg \in CollectArg
    BY CollectIs
  <1>2. /\ arg \in CollectArg /\ arg.turn = req[w].arg.turn
        /\ arg.since = req[w].arg.since /\ arg.points = points /\ arg.fonte = fonte
    BY <1>1 DEF CollectArg
  <1>3. req' = [req EXCEPT ![w] = new] /\ req \in [Workers -> Request]
    BY <1>1 DEF Take, RequestOf, CollectArg, Typed
  <1> HIDE DEF arg
  <1>4. new \in RequestOf("collect", CollectArg) /\ new.op = "collect" /\ new.arg = arg
    BY <1>1, <1>2 DEF RequestOf
  <1> HIDE DEF new
  <1>5. new \in Request
    BY <1>4, RequestKinds
  <1> QED
    BY <1>2, <1>3, <1>4, <1>5 DEF Beside

LEMMA Nexted ==
    ASSUME Typed, NEW w \in Workers, req[w].op = "collect", NextCode(w)
    PROVE  /\ req' \in [Workers -> Request] /\ Beside(w)
           /\ \/ req'[w] = Idle
              \/ /\ req'[w].op = "collect" /\ req'[w].arg.points = {}
                 /\ req'[w].arg.since = req[w].arg.since
  <1> DEFINE a == req[w].arg
             arg == [a EXCEPT !.turn = @ + 1, !.points = {}, !.fonte = "none"]
             new == [req[w] EXCEPT !.arg = arg]
  <1>1. /\ req[w] \in RequestOf("collect", CollectArg) /\ a \in CollectArg
        /\ req \in [Workers -> Request]
    BY CollectIs DEF Typed
  <1>2. CASE a.turn < Len(Codes)
    <2>1. a.turn + 1 \in DOMAIN Codes
      <3>1. Codes \in Seq({Codes[i] : i \in DOMAIN Codes}) /\ a.turn \in DOMAIN Codes
        BY <1>1, MarketAssumption DEF CollectArg
      <3> QED
        BY <1>2, <3>1
    <2>2. arg \in CollectArg /\ arg.since = a.since /\ arg.points = {}
      BY <1>1, <2>1 DEF CollectArg
    <2>3. req' = [req EXCEPT ![w] = new]
      <3>1. req' = [req EXCEPT ![w].arg = arg]
        BY <1>2 DEF NextCode
      <3> HIDE DEF arg
      <3> QED
        BY <1>1, <3>1 DEF RequestOf
    <2> HIDE DEF arg
    <2>4. new \in RequestOf("collect", CollectArg) /\ new.op = "collect" /\ new.arg = arg
      BY <1>1, <2>2 DEF RequestOf
    <2> HIDE DEF new
    <2>5. new \in Request
      BY <2>4, RequestKinds
    <2> QED
      BY <1>1, <2>2, <2>3, <2>4, <2>5 DEF Beside
  <1>3. CASE ~(a.turn < Len(Codes))
    BY <1>1, <1>3, Closed DEF NextCode
  <1> QED
    BY <1>2, <1>3

LEMMA SgsAnswersStep ==
    ASSUME Typed, IndicatorsHold, NEW w \in Workers, SgsAnswers(w)
    PROVE  /\ IndicatorsHold' /\ req' \in [Workers -> Request] /\ Beside(w)
           /\ req'[w].op = "collect"
  <1> DEFINE a == req[w].arg
             c == Codes[a.turn]
  <1>1. req[w].op = "collect" /\ UNCHANGED <<now, history, locks, lastOk>>
    BY DEF SgsAnswers, Collecting, Holds, quoteVars, indicatorVars
  <1>2. PICK last \in Days :
            /\ last <= DayOf(a.since) /\ last + 1 >= DayOf(a.since)
            /\ \A d \in Days : history[c][d].fonte = "bacen_sgs" => d <= last
            /\ Take(w, 0..last, "bacen_sgs")
    BY DEF SgsAnswers
  <1>3. 0..last \in SUBSET Days /\ last \in Nat /\ DayOf(a.since) \in Nat
    <2>1. DayOf(MaxNow) \in Nat /\ last \in 0..DayOf(MaxNow)
      BY QuotesAssumption, DayOfGrows DEF Days
    <2>2. DayOf(a.since) \in Nat
      BY <1>1, CollectIs, DayOfGrows
    <2> QED
      BY <2>1, <2>2 DEF Days
  <1>4. /\ req' \in [Workers -> Request] /\ Beside(w) /\ req'[w].op = "collect"
        /\ req'[w].arg.turn = a.turn /\ req'[w].arg.since = a.since
        /\ req'[w].arg.points = 0..last /\ req'[w].arg.fonte = "bacen_sgs"
    <2>1. Take(w, 0..last, "bacen_sgs")
      BY <1>2
    <2> QED
      BY <1>1, <1>3, <2>1, Taken
  <1>5. CollectHolds(req[w]) /\ DayOf(a.since) <= last + 1
    BY <1>2, <1>3 DEF IndicatorsHold
  <1> HIDE DEF a
  <1>6. CollectHolds(req[w])'
    BY <1>1, <1>2, <1>4, <1>5 DEF CollectHolds, a
  <1>7. ASSUME NEW v \in Workers \ {w}, req[v].op = "collect"
        PROVE  DayOf(req[v].arg.since) # DayOf(req'[w].arg.since)
    BY <1>1, <1>4, <1>7 DEF IndicatorsHold, OneADay, a
  <1> QED
    BY <1>1, <1>4, <1>6, <1>7, CollectMoves

LEMMA BrasilApiAnswersStep ==
    ASSUME Typed, IndicatorsHold, NEW w \in Workers, BrasilApiAnswers(w)
    PROVE  /\ IndicatorsHold' /\ req' \in [Workers -> Request] /\ Beside(w)
           /\ req'[w].op = "collect"
  <1> DEFINE a == req[w].arg
  <1>1. /\ req[w].op = "collect" /\ UNCHANGED <<now, history, locks, lastOk>>
        /\ Take(w, {Today}, "bacen_brasilapi")
    BY DEF BrasilApiAnswers, Collecting, Holds, quoteVars, indicatorVars
  <1>2. Today \in Days /\ Today = DayOf(now) /\ DayOf(now) \in Nat
    <2>1. now \in Nat /\ MaxNow \in Nat /\ now <= MaxNow
      BY QuotesAssumption DEF Typed, TypeOK, QuotesTypeOK
    <2> QED
      BY <2>1, DayOfGrows DEF Today, Days
  <1>3. CollectHolds(req[w])
    BY DEF IndicatorsHold
  <1>4. a.since <= now /\ DayOf(a.since) <= Today /\ Today <= DayOf(now)
    <2>1. a.since \in Nat /\ now \in Nat /\ a.since <= now
      BY <1>1, <1>3, CollectIs, RowsAre DEF CollectHolds
    <2> QED
      BY <1>2, <2>1, DayOfGrows
  <1>5. /\ req' \in [Workers -> Request] /\ Beside(w) /\ req'[w].op = "collect"
        /\ req'[w].arg.turn = a.turn /\ req'[w].arg.since = a.since
        /\ req'[w].arg.points = {Today} /\ req'[w].arg.fonte = "bacen_brasilapi"
    BY <1>1, <1>2, Taken
  <1> HIDE DEF a
  <1>6. CollectHolds(req[w])'
    <2>1. \E today \in Days : /\ req'[w].arg.points = {today}
                              /\ DayOf(a.since) <= today /\ today <= DayOf(now)
      BY <1>2, <1>4, <1>5
    <2> QED
      BY <1>1, <1>3, <1>5, <2>1 DEF CollectHolds, a
  <1>7. ASSUME NEW v \in Workers \ {w}, req[v].op = "collect"
        PROVE  DayOf(req[v].arg.since) # DayOf(req'[w].arg.since)
    BY <1>1, <1>5, <1>7 DEF IndicatorsHold, OneADay, a
  <1> QED
    BY <1>1, <1>5, <1>6, <1>7, CollectMoves

\* After the rows of a code the job holds none.
LEMMA NextCodeCollects ==
    ASSUME IndicatorsHold, NEW w \in Workers, req[w].op = "collect", UNCHANGED <<now, locks>>,
           \/ req'[w] = Idle
           \/ /\ req'[w].op = "collect" /\ req'[w].arg.points = {}
              /\ req'[w].arg.since = req[w].arg.since
    PROVE  CollectHolds(req[w])'
  <1>1. CASE req'[w] = Idle
    <2>1. req'[w].op = "idle"
      BY <1>1 DEF Idle
    <2> QED
      BY <2>1 DEF CollectHolds
  <1>2. CASE /\ req'[w].op = "collect" /\ req'[w].arg.points = {}
             /\ req'[w].arg.since = req[w].arg.since
    <2>1. /\ req[w].arg.since <= now /\ now <= req[w].arg.since + 1
          /\ DayOf(req[w].arg.since) \in locks
      BY DEF IndicatorsHold, CollectHolds
    <2> QED
      BY ONLY <1>2, <2>1, now' = now, locks' = locks DEF CollectHolds
  <1> QED
    BY <1>1, <1>2

LEMMA BothFailStep ==
    ASSUME Typed, IndicatorsHold, NEW w \in Workers, BothFail(w)
    PROVE  /\ IndicatorsHold' /\ req' \in [Workers -> Request] /\ Beside(w)
           /\ req'[w].op \notin VehicleOps
  <1>1. /\ req[w].op = "collect" /\ UNCHANGED <<now, history, locks, lastOk>>
        /\ NextCode(w)
    BY DEF BothFail, Collecting, Holds, quoteVars
  <1>2. /\ req' \in [Workers -> Request] /\ Beside(w)
        /\ \/ req'[w] = Idle
           \/ /\ req'[w].op = "collect" /\ req'[w].arg.points = {}
              /\ req'[w].arg.since = req[w].arg.since
    BY <1>1, Nexted
  <1>4. CollectHolds(req[w])'
    BY <1>1, <1>2, NextCodeCollects
  <1>5. ASSUME NEW v \in Workers \ {w}, req[v].op = "collect", req'[w].op = "collect"
        PROVE  DayOf(req[v].arg.since) # DayOf(req'[w].arg.since)
    BY <1>1, <1>2, <1>5 DEF IndicatorsHold, OneADay, Idle
  <1>6. req'[w].op \notin VehicleOps
    <2>1. req'[w].op = "idle" \/ req'[w].op = "collect"
      BY <1>2 DEF Idle
    <2> QED
      BY <2>1 DEF VehicleOps
  <1> QED
    BY <1>1, <1>2, <1>4, <1>5, <1>6, CollectMoves

\* The rows that a commit of c leaves: those of its points are new.
LEMMA CodeCommitted ==
    ASSUME Typed, IndicatorsHold, NEW w \in Workers, CommitCode(w)
    PROVE  LET a == req[w].arg
               c == Codes[a.turn]
           IN
           /\ req[w].op = "collect" /\ a.points # {} /\ c \in Code
           /\ a.fonte \in {"bacen_sgs", "bacen_brasilapi"}
           /\ UNCHANGED <<now, locks>> /\ NextCode(w)
           /\ history' \in [Code -> [Days -> Point \cup {Never}]]
           /\ lastOk' \in [Code -> 0..MaxNow]
           /\ lastOk'[c] = now
           /\ \A e \in Code \ {c} : history'[e] = history[e] /\ lastOk'[e] = lastOk[e]
           /\ \A d \in Days :
                 IF d \in a.points
                 THEN /\ history'[c][d] # Never
                      /\ history'[c][d].at = now /\ history'[c][d].fonte = a.fonte
                 ELSE history'[c][d] = history[c][d]
  <1> DEFINE a == req[w].arg
             c == Codes[a.turn]
             point == [at |-> now, fonte |-> a.fonte]
             rows == [d \in Days |-> IF d \in a.points THEN point ELSE history[c][d]]
  <1>1. req[w].op = "collect" /\ a.points # {} /\ NextCode(w) /\ UNCHANGED <<now, locks>>
    BY DEF CommitCode, InHand, Holds, quoteVars
  <1>2. c \in Code /\ a.points \subseteq Days
    BY <1>1, CollectIs
  <1>3. a.fonte \in {"bacen_sgs", "bacen_brasilapi"}
    BY <1>1 DEF IndicatorsHold, CollectHolds
  <1>4. /\ history \in [Code -> [Days -> Point \cup {Never}]]
        /\ lastOk \in [Code -> 0..MaxNow] /\ now \in 0..MaxNow
    BY DEF Typed, TypeOK, QuotesTypeOK
  <1>5. history' = [history EXCEPT ![c] = rows] /\ lastOk' = [lastOk EXCEPT ![c] = now]
    BY <1>2, <1>4 DEF CommitCode, Upsert
  <1>6. point \in Point /\ point # Never /\ point.at = now /\ point.fonte = a.fonte
    BY <1>3, <1>4 DEF Point, Never
  <1> HIDE DEF point
  <1>7. /\ rows \in [Days -> Point \cup {Never}]
        /\ \A d \in Days : rows[d] = IF d \in a.points THEN point ELSE history[c][d]
    BY <1>2, <1>4, <1>6
  <1> HIDE DEF rows, c, a
  <1>8. /\ history' \in [Code -> [Days -> Point \cup {Never}]]
        /\ history'[c] = rows
        /\ \A e \in Code \ {c} : history'[e] = history[e]
    BY <1>2, <1>4, <1>5, <1>7
  <1>9. /\ lastOk' \in [Code -> 0..MaxNow] /\ lastOk'[c] = now
        /\ \A e \in Code \ {c} : lastOk'[e] = lastOk[e]
    BY <1>2, <1>4, <1>5
  <1>10. \A d \in Days :
             IF d \in a.points
             THEN /\ history'[c][d] # Never
                  /\ history'[c][d].at = now /\ history'[c][d].fonte = a.fonte
             ELSE history'[c][d] = history[c][d]
    BY <1>6, <1>7, <1>8
  <1> QED
    BY <1>1, <1>2, <1>3, <1>8, <1>9, <1>10 DEF a, c

\* What a session that commits has in hand.
LEMMA PointsAre ==
    ASSUME Typed, IndicatorsHold, NEW w \in Workers,
           req[w].op = "collect", req[w].arg.points # {}
    PROVE  LET a == req[w].arg
               c == Codes[a.turn]
           IN
           /\ a.since \in Nat /\ now \in Nat /\ a.since <= now /\ now <= a.since + 1
           /\ DayOf(a.since) <= DayOf(now) /\ DayOf(a.since) \in Nat /\ DayOf(now) \in Nat
           /\ \A d \in a.points : d <= DayOf(now)
           /\ a.fonte = "bacen_sgs" => \A d \in a.points : d <= DayOf(a.since)
           /\ a.fonte = "bacen_sgs" =>
                 \A d \in Days \ a.points :
                    history[c][d].fonte = "bacen_sgs" => history[c][d].at > a.since
           /\ a.fonte # "bacen_sgs" =>
                 \A d \in Days \ a.points :
                    (\A e \in a.points : e <= d) => DayOf(a.since) < d
  <1> DEFINE a == req[w].arg
             c == Codes[a.turn]
  <1>1. CollectHolds(req[w])
    BY DEF IndicatorsHold
  <1>2. /\ a.since \in Nat /\ now \in Nat /\ a.since <= now /\ now <= a.since + 1
        /\ a.points \subseteq Days /\ Days \subseteq Nat
    BY <1>1, CollectIs, RowsAre DEF CollectHolds
  <1>3. DayOf(a.since) <= DayOf(now) /\ DayOf(a.since) \in Nat /\ DayOf(now) \in Nat
    BY <1>2, DayOfGrows
  <1>4. CASE a.fonte = "bacen_sgs"
    <2>1. PICK last \in Days :
              /\ a.points = 0..last /\ last <= DayOf(a.since)
              /\ \A d \in Days : history[c][d].fonte = "bacen_sgs" =>
                    d <= last \/ history[c][d].at > a.since
      BY <1>1, <1>4 DEF CollectHolds
    <2> HIDE DEF a, c
    <2>2. \A d \in a.points : d <= DayOf(a.since) /\ d <= DayOf(now)
      BY <1>2, <1>3, <2>1
    <2>3. \A d \in Days \ a.points : ~ (d <= last)
      BY <1>2, <2>1
    <2> QED
      BY <1>2, <1>3, <1>4, <2>1, <2>2, <2>3 DEF a, c
  <1>5. CASE a.fonte # "bacen_sgs"
    <2>1. PICK today \in Days :
              /\ a.points = {today}
              /\ DayOf(a.since) <= today /\ today <= DayOf(now)
      BY <1>1, <1>5 DEF CollectHolds
    <2> HIDE DEF a, c
    <2>2. \A d \in Days \ a.points : today <= d => DayOf(a.since) < d
      BY <1>2, <1>3, <2>1
    <2> QED
      BY <1>2, <1>3, <1>5, <2>1, <2>2 DEF a, c
  <1> QED
    BY <1>4, <1>5

LEMMA CommitRows ==
    ASSUME Typed, IndicatorsHold, NEW w \in Workers, CommitCode(w), NEW c \in Code
    PROVE  RowsHold(c)' /\ NewestHolds(c)'
  <1> DEFINE points == req[w].arg.points
             fonte == req[w].arg.fonte
             since == req[w].arg.since
             mine == Codes[req[w].arg.turn]
  <1>1. /\ req[w].op = "collect" /\ points # {} /\ UNCHANGED now
        /\ lastOk'[mine] = now
        /\ c # mine => history'[c] = history[c] /\ lastOk'[c] = lastOk[c]
        /\ \A d \in Days :
              IF d \in points
              THEN /\ history'[mine][d] # Never
                   /\ history'[mine][d].at = now /\ history'[mine][d].fonte = fonte
              ELSE history'[mine][d] = history[mine][d]
    BY CodeCommitted
  <1>2. RowsHold(c) /\ NewestHolds(c)
    BY DEF IndicatorsHold
  <1>3. CASE c # mine
    <2>1. history'[c] = history[c] /\ lastOk'[c] = lastOk[c] /\ now' = now
      BY <1>1, <1>3
    <2> QED
      BY <1>2, <2>1 DEF RowsHold, NewestHolds, Dated
  <1>4. CASE c = mine
    <2>1. /\ since \in Nat /\ now \in Nat /\ since <= now /\ now <= since + 1
          /\ DayOf(since) <= DayOf(now) /\ DayOf(since) \in Nat /\ DayOf(now) \in Nat
          /\ \A d \in points : d <= DayOf(now)
          /\ fonte = "bacen_sgs" =>
                \A d \in Days \ points :
                   history[c][d].fonte = "bacen_sgs" => history[c][d].at > since
          /\ fonte # "bacen_sgs" =>
                \A d \in Days \ points :
                   (\A p \in points : p <= d) => DayOf(since) < d
      BY <1>1, <1>4, PointsAre
    <2>2. points \subseteq Days
      BY <1>1, CollectIs
    <2>3. /\ lastOk[c] <= now /\ lastOk[c] \in Nat
          /\ \A d \in Days : history[c][d].at \in Nat
          /\ \A d \in Days : history[c][d] # Never =>
                d <= DayOf(history[c][d].at) /\ history[c][d].at <= lastOk[c]
      BY <1>2, RowsAre DEF RowsHold, Dated
    <2> HIDE DEF points, fonte, since, mine
    <2>4. /\ now' = now /\ lastOk'[c] = now
          /\ \A d \in points : /\ history'[c][d] # Never
                                /\ history'[c][d].at = now
                                /\ history'[c][d].fonte = fonte
          /\ \A d \in Days \ points : history'[c][d] = history[c][d]
      BY <1>1, <1>4, <2>2
    <2>5. \A d \in Days \ points : history[c][d] # Never =>
              history[c][d].at <= now /\ d <= DayOf(history[c][d].at)
      BY <2>1, <2>3
    <2>6. RowsHold(c)'
      <3> SUFFICES ASSUME NEW d \in Days, history'[c][d] # Never
                   PROVE  d <= DayOf(history'[c][d].at) /\ history'[c][d].at <= now
        BY <2>1, <2>4 DEF RowsHold, Dated
      <3>1. CASE d \in points
        BY <2>1, <2>4, <3>1
      <3>2. CASE d \notin points
        BY <2>4, <2>5, <3>2
      <3> QED
        BY <3>1, <3>2
    <2>7. NewestHolds(c)'
      <3> SUFFICES ASSUME NEW d \in Days, history'[c][d] # Never,
                          \A p \in Days : history'[c][p] # Never => p <= d,
                          history'[c][d].fonte = "bacen_sgs"
                   PROVE  history'[c][d].at = now
        BY <2>4 DEF NewestHolds, Dated
      <3>1. CASE d \in points
        BY <2>4, <3>1
      <3>2. CASE d \notin points
        <4>1. /\ history'[c][d] = history[c][d] /\ history[c][d].at <= now
              /\ history[c][d].at \in Nat /\ d <= DayOf(history[c][d].at)
          BY <2>3, <2>4, <2>5, <3>2
        <4>2. history[c][d].at > since
          <5>1. CASE fonte = "bacen_sgs"
            BY <2>1, <3>2, <4>1, <5>1
          <5>2. CASE fonte # "bacen_sgs"
            <6>1. \A p \in points : p <= d
              BY <2>2, <2>4
            <6>2. DayOf(since) < d
              BY <2>1, <3>2, <5>2, <6>1
            <6>3. d \in Nat
              BY RowsAre
            <6>4. DayOf(history[c][d].at) \in Nat
              BY <4>1, DayOfGrows
            <6>5. DayOf(since) < DayOf(history[c][d].at)
              BY <2>1, <4>1, <6>2, <6>3, <6>4
            <6>6. since < history[c][d].at
              BY <2>1, <4>1, <6>5, DayOfGrows
            <6> QED
              BY <2>1, <4>1, <6>6
          <5> QED
            BY <5>1, <5>2
        <4> QED
          BY <2>1, <4>1, <4>2
      <3> QED
        BY <3>1, <3>2
    <2> QED
      BY <2>6, <2>7
  <1> QED
    BY <1>3, <1>4

\* Another session's points stay what they are of: the lock keeps this
\* commit's either of a day before or later than its moment.
LEMMA CommitBeside ==
    ASSUME Typed, IndicatorsHold, NEW w \in Workers, CommitCode(w),
           NEW v \in Workers \ {w}, req'[v].op = req[v].op, req'[v].arg = req[v].arg
    PROVE  CollectHolds(req[v])'
  <1> DEFINE a == req[w].arg
             b == req[v].arg
             c == Codes[b.turn]
  <1>1. /\ req[w].op = "collect" /\ a.points # {} /\ UNCHANGED <<now, locks>>
        /\ \A e \in Code \ {Codes[a.turn]} : history'[e] = history[e]
        /\ \A d \in Days :
              IF d \in a.points
              THEN /\ history'[Codes[a.turn]][d].at = now
                   /\ history'[Codes[a.turn]][d].fonte = a.fonte
              ELSE history'[Codes[a.turn]][d] = history[Codes[a.turn]][d]
    BY CodeCommitted
  <1> SUFFICES ASSUME req[v].op = "collect"
               PROVE  CollectHolds(req[v])'
    BY DEF CollectHolds
  <1>2. CollectHolds(req[v])
    BY DEF IndicatorsHold
  <1>3. /\ b.since \in Nat /\ now \in Nat /\ b.since <= now /\ now <= b.since + 1
        /\ DayOf(b.since) \in Nat /\ c \in Code
    BY <1>2, CollectIs, RowsAre, DayOfGrows DEF CollectHolds
  <1>4. /\ a.since \in Nat /\ a.since <= now /\ now <= a.since + 1
        /\ DayOf(a.since) \in Nat
        /\ a.fonte = "bacen_sgs" => \A d \in a.points : d <= DayOf(a.since)
    BY <1>1, PointsAre
  <1>5. DayOf(a.since) # DayOf(b.since)
    BY <1>1 DEF IndicatorsHold, OneADay
  <1> HIDE DEF a, c
  <1>6. ASSUME NEW last \in Days, DayOf(b.since) <= last + 1,
               \A d \in Days : history[c][d].fonte = "bacen_sgs" =>
                   d <= last \/ history[c][d].at > b.since,
               NEW d \in Days, history'[c][d].fonte = "bacen_sgs"
        PROVE  d <= last \/ history'[c][d].at > b.since
    <2>1. CASE history'[c][d] = history[c][d]
      BY <1>6, <2>1
    <2>2. CASE history'[c][d] # history[c][d]
      <3>1. d \in a.points /\ history'[c][d].at = now /\ a.fonte = "bacen_sgs"
        BY <1>1, <1>3, <1>6, <2>2
      <3>2. CASE b.since < now
        BY <1>3, <3>1, <3>2
      <3>3. CASE b.since = now
        <4>1. DayOf(a.since) <= DayOf(b.since)
          BY <1>3, <1>4, <3>3, DayOfGrows
        <4>2. d \in Nat /\ last \in Nat /\ d <= DayOf(a.since)
          BY <1>4, <3>1, RowsAre
        <4> QED
          BY <1>3, <1>4, <1>5, <1>6, <4>1, <4>2
      <3> QED
        BY <1>3, <3>2, <3>3
    <2> QED
      BY <2>1, <2>2
  <1>7. ASSUME b.points # {}, b.fonte = "bacen_sgs"
        PROVE  \E last \in Days :
                 /\ b.points = 0..last
                 /\ last <= DayOf(b.since) /\ DayOf(b.since) <= last + 1
                 /\ \A d \in Days : history'[c][d].fonte = "bacen_sgs" =>
                       d <= last \/ history'[c][d].at > b.since
    <2>1. PICK last \in Days :
              /\ b.points = 0..last
              /\ last <= DayOf(b.since) /\ DayOf(b.since) <= last + 1
              /\ \A d \in Days : history[c][d].fonte = "bacen_sgs" =>
                    d <= last \/ history[c][d].at > b.since
      BY <1>2, <1>7 DEF CollectHolds, c
    <2>2. \A d \in Days : history'[c][d].fonte = "bacen_sgs" =>
              d <= last \/ history'[c][d].at > b.since
      BY <1>6, <2>1
    <2> QED
      BY <2>1, <2>2
  <1>8. /\ req'[v].op = "collect" /\ req'[v].arg = b
        /\ b.since <= now' /\ now' <= b.since + 1
        /\ DayOf(b.since) \in locks'
        /\ b.points # {} /\ b.fonte # "bacen_sgs" =>
              /\ b.fonte = "bacen_brasilapi"
              /\ \E today \in Days : /\ b.points = {today}
                                    /\ DayOf(b.since) <= today /\ today <= DayOf(now')
    BY <1>1, <1>2, <1>3 DEF CollectHolds
  <1>9. PICK r : r = b
    OBVIOUS
  <1> QED
    BY <1>7, <1>8, <1>9 DEF CollectHolds, c

LEMMA CommitCodeStep ==
    ASSUME Typed, IndicatorsHold, NEW w \in Workers, CommitCode(w)
    PROVE  /\ IndicatorsHold' /\ req' \in [Workers -> Request] /\ Beside(w)
           /\ req'[w].op \notin VehicleOps
  <1>1. req[w].op = "collect" /\ UNCHANGED <<now, locks>> /\ NextCode(w)
    BY CodeCommitted
  <1>2. /\ req' \in [Workers -> Request] /\ Beside(w)
        /\ \/ req'[w] = Idle
           \/ /\ req'[w].op = "collect" /\ req'[w].arg.points = {}
              /\ req'[w].arg.since = req[w].arg.since
    BY <1>1, Nexted
  <1>3. \A c \in Code : RowsHold(c)' /\ NewestHolds(c)'
    BY CommitRows
  <1>4. ASSUME NEW v \in Workers \ {w} PROVE CollectHolds(req[v])'
    BY <1>2, CommitBeside DEF Beside
  <1>5. CollectHolds(req[w])'
    BY <1>1, <1>2, NextCodeCollects
  <1>6. OneADay'
    <2>1. \A v \in Workers : req'[v].op = "collect" =>
              req[v].op = "collect" /\ req'[v].arg.since = req[v].arg.since
      BY <1>1, <1>2 DEF Beside, Idle
    <2> QED
      BY <2>1 DEF IndicatorsHold, OneADay
  <1>7. req'[w].op \notin VehicleOps
    <2>1. req'[w].op = "idle" \/ req'[w].op = "collect"
      BY <1>2 DEF Idle
    <2> QED
      BY <2>1 DEF VehicleOps
  <1> QED
    BY <1>2, <1>3, <1>4, <1>5, <1>6, <1>7 DEF IndicatorsHold

\* The rows' invariant is what the age of the newest row needs.
LEMMA StaleFromRows == Typed /\ IndicatorsHold => StaleIsTold
  <1> SUFFICES ASSUME Typed, IndicatorsHold, NEW c \in Code, Latest(c) # Never
               PROVE  /\ ~Stale(c) => now - lastOk[c] <= MaxAge[c]
                      /\ Stale(c) /\ Latest(c).fonte = "bacen_sgs" =>
                            now - lastOk[c] > MaxAge[c]
    BY DEF StaleIsTold
  <1>1. Dated(c) # {} /\ Latest(c) =
            history[c][CHOOSE d \in Dated(c) : \A e \in Dated(c) : e <= d]
    BY DEF Latest, Dated
  <1>2. DayOf(MaxNow) \in Nat
    BY QuotesAssumption, DayOfGrows
  <1>3. \E d \in Dated(c) : \A e \in Dated(c) : e <= d
    <2>1. Dated(c) \in SUBSET (0..DayOf(MaxNow))
      BY DEF Dated, Days
    <2> QED
      BY <1>1, <1>2, <2>1, NewestDate
  <1>4. PICK d \in Dated(c) : (\A e \in Dated(c) : e <= d) /\ Latest(c) = history[c][d]
    BY <1>1, <1>3
  <1>5. /\ lastOk[c] <= now /\ history[c][d].at <= lastOk[c]
        /\ history[c][d].fonte = "bacen_sgs" => history[c][d].at = lastOk[c]
    BY <1>4 DEF IndicatorsHold, RowsHold, NewestHolds
  <1>6. /\ now \in Nat /\ lastOk[c] \in Nat /\ history[c][d].at \in Nat
        /\ MaxAge[c] \in Nat
    <2>1. d \in Days
      BY DEF Dated
    <2> QED
      BY <2>1, RowsAre, MarketAssumption DEF Code
  <1> QED
    BY <1>4, <1>5, <1>6 DEF Stale

\* The quotes' invariant bounds the age of one that is given out.
LEMMA RecentFromHeld == Typed /\ QuotesHold => QuotesAreRecent
  <1> SUFFICES ASSUME Typed, QuotesHold, NEW w \in Workers,
                      req[w].op = "fetch", req[w].arg.pc = "done"
               PROVE  LET q == req[w].arg.quote
                          ttl == IF q.key \in Prices THEN PriceTtl ELSE ListTtl
                      IN
                      /\ q.key = req[w].arg.key
                      /\ q.nth < Len(changes[q.key]) =>
                            now < changes[q.key][q.nth + 1] + ttl + 2
    BY DEF QuotesAreRecent, Fetching, Holds
  <1> DEFINE q == req[w].arg.quote
             k == req[w].arg.key
             since == req[w].arg.since
  <1>1. /\ since <= now /\ now <= since + 1
        /\ q \in Quote /\ q.key = k
        /\ q.nth < Len(changes[k]) => since <= changes[k][q.nth + 1] + Ttl(k)
    BY DEF QuotesHold, FetchHolds, Said, HeldUntil
  <1>2. k \in Keys /\ since \in Nat /\ Ttl(k) \in Nat /\ now \in Nat
    BY FetchIs, ChangesAre
  <1>4. ASSUME q.nth < Len(changes[k])
        PROVE  now < changes[k][q.nth + 1] + Ttl(k) + 2
    <2> DEFINE changed == changes[k][q.nth + 1]
               ttl == Ttl(k)
    <2>1. q.nth \in Nat
      BY <1>1, QuotesAssumption DEF Quote
    <2>2. changed \in Nat
      BY <1>2, <1>4, <2>1, AnswerIs
    <2>3. /\ since \in Nat /\ ttl \in Nat /\ now \in Nat
          /\ now <= since + 1 /\ since <= changed + ttl
      BY <1>1, <1>2, <1>4
    <2> HIDE DEF changed, ttl, since
    <2>4. now < changed + ttl + 2
      BY ONLY <2>2, <2>3
    <2> QED
      BY <2>4 DEF changed, ttl
  <1>5. Ttl(k) = IF q.key \in Prices THEN PriceTtl ELSE ListTtl
    BY <1>1 DEF Ttl
  <1> HIDE DEF q, k
  <1>6. q.key = k /\ (q.nth < Len(changes[q.key]) =>
                         now < changes[q.key][q.nth + 1] + Ttl(k) + 2)
    BY <1>1, <1>4
  <1> QED
    BY <1>5, <1>6 DEF q, k

-----------------------------------------------------------------------------
(* The invariant *)

LEMMA Initially == Init => IInv
  <1> SUFFICES ASSUME Init
               PROVE  IInv
    OBVIOUS
  <1>1. /\ req = [w \in Workers |-> Idle] /\ asked = 0 /\ crossed = {} /\ audit = <<>>
        /\ now = 0 /\ changes = [k \in Keys |-> <<>>] /\ cache = [k \in Keys |-> NoRow]
        /\ history = [c \in Code |-> [d \in Days |-> Never]]
        /\ locks = {} /\ lastOk = [c \in Code |-> 0] /\ checks = 0
        /\ VehiclesInit
    BY DEF Init, RequestsInit, QuotesInit
  <1>2. /\ MaxNow \in Nat /\ 0 \in 0..MaxNow /\ 0 \in 0..MaxRequests
        /\ 0 \in 0..KeptChecks /\ MaxChanges \in Nat /\ 0 \in 0..MaxChanges
        /\ 1 <= MaxVehicles /\ MaxVehicles \in Nat
    BY QuotesAssumption, RequestsAssumption, MarketAssumption, VehiclesAssumption
  <1>3. vehicles \in Seq(Vehicle) /\ Len(vehicles) <= MaxVehicles /\ PricedAsBrought
    <2>1. CASE vehicles = <<>>
      BY <1>2, <2>1 DEF PricedAsBrought
    <2>2. ASSUME NEW k \in Prices, NEW priced \in Prices, NEW status \in Stock,
                 LET q == [key |-> priced, nth |-> 0] IN
                 vehicles = <<[modelo |-> k, fipe |-> TRUE, quote |-> q,
                               status |-> status, brought |-> {q}, last |-> q]>>
          PROVE  <1>3
      <3> DEFINE q == [key |-> priced, nth |-> 0]
                 v == [modelo |-> k, fipe |-> TRUE, quote |-> q,
                       status |-> status, brought |-> {q}, last |-> q]
      <3>1. q \in Quote
        BY <1>2 DEF Quote, Keys
      <3>2. status \in Statuses
        BY StockAssumption
      <3>3. v \in Vehicle /\ Fits(v) /\ Brought(v, v.quote.key)
        BY <3>1, <3>2 DEF Vehicle, Fits, Brought
      <3> HIDE DEF v
      <3>4. vehicles = <<v>>
        BY <2>2 DEF v
      <3> QED
        BY <1>2, <3>3, <3>4 DEF PricedAsBrought, Fits, Brought
    <2> QED
      BY <1>1, <2>1, <2>2 DEF VehiclesInit
  <1>4. Typed
    <2>1. QuotesTypeOK
      BY <1>1, <1>2 DEF QuotesTypeOK
    <2>2. VehiclesTypeOK
      BY <1>3 DEF VehiclesTypeOK
    <2>3. /\ asked \in 0..MaxRequests /\ locks \subseteq Days /\ checks \in 0..KeptChecks
          /\ history \in [Code -> [Days -> Point \cup {Never}]]
          /\ lastOk \in [Code -> 0..MaxNow]
      BY <1>1, <1>2
    <2>4. req \in [Workers -> Request] /\ audit \in Seq(Entry)
      BY <1>1 DEF Request
    <2> QED
      BY <2>1, <2>2, <2>3, <2>4 DEF Typed, TypeOK
  <1>5. \A w \in Workers : req[w].op = "idle"
    BY <1>1 DEF Idle
  <1>6. QuotesHold
    <2>1. ChangesHold
      BY <1>1, <1>2 DEF ChangesHold
    <2>2. CacheHolds
      BY <1>1 DEF CacheHolds
    <2>3. \A w \in Workers : FetchHolds(req[w])
      BY <1>5 DEF FetchHolds
    <2> QED
      BY <2>1, <2>2, <2>3 DEF QuotesHold
  <1>7. VehiclesHold
    <2>1. \A w \in Workers : VehicleRequestHolds(req[w])
      BY <1>5 DEF VehicleRequestHolds
    <2>2. TrailHolds /\ SoldStaysSold
      BY <1>1 DEF TrailHolds, SoldStaysSold
    <2> QED
      BY <1>3, <2>1, <2>2 DEF VehiclesHold
  <1>8. IndicatorsHold
    <2>1. \A c \in Code : RowsHold(c) /\ NewestHolds(c)
      BY <1>1 DEF RowsHold, NewestHolds, Dated
    <2>2. (\A w \in Workers : CollectHolds(req[w])) /\ OneADay
      BY <1>5 DEF CollectHolds, OneADay
    <2> QED
      BY <2>1, <2>2 DEF IndicatorsHold
  <1> QED
    BY <1>4, <1>6, <1>7, <1>8 DEF IInv

\* What a step that concerns one session leaves of the others.
LEMMA Frames ==
    ASSUME NEW w \in Workers, Beside(w)
    PROVE  /\ UNCHANGED quoteVars /\ req'[w].op # "fetch" => KeepsQuotes
           /\ UNCHANGED <<vehicles, audit>> /\ crossed \subseteq crossed'
                 /\ req'[w].op \notin VehicleOps => KeepsVehicles
           /\ UNCHANGED <<now, history, locks, lastOk>> /\ req'[w].op # "collect"
                 => KeepsIndicators
  <1>1. ASSUME NEW v \in Workers \ {w}
        PROVE  /\ req'[v].op = req[v].op /\ req'[v].on = req[v].on
               /\ req'[v].arg = req[v].arg
               /\ req[v].late \subseteq req'[v].late
    BY DEF Beside
  <1>2. UNCHANGED quoteVars /\ req'[w].op # "fetch" => KeepsQuotes
    BY <1>1 DEF KeepsQuotes
  <1>3. UNCHANGED <<vehicles, audit>> /\ crossed \subseteq crossed'
           /\ req'[w].op \notin VehicleOps => KeepsVehicles
    <2> HIDE DEF VehicleOps
    <2> QED
      BY <1>1 DEF KeepsVehicles
  <1>4. UNCHANGED <<now, history, locks, lastOk>> /\ req'[w].op # "collect"
           => KeepsIndicators
    BY <1>1 DEF KeepsIndicators
  <1> QED
    BY <1>2, <1>3, <1>4

\* The types of what a step leaves alone.
LEMMA TypesKept ==
    ASSUME Typed
    PROVE  /\ UNCHANGED quoteVars => QuotesTypeOK'
           /\ UNCHANGED vehicles => VehiclesTypeOK'
           /\ UNCHANGED audit => audit' \in Seq(Entry)
           /\ UNCHANGED asked => asked' \in 0..MaxRequests
           /\ asked < MaxRequests /\ asked' = asked + 1 => asked' \in 0..MaxRequests
           /\ UNCHANGED req => req' \in [Workers -> Request]
           /\ UNCHANGED indicatorVars =>
                 /\ history' \in [Code -> [Days -> Point \cup {Never}]]
                 /\ locks' \subseteq Days
                 /\ lastOk' \in [Code -> 0..MaxNow]
                 /\ checks' \in 0..KeptChecks
  <1>1. asked \in 0..MaxRequests /\ MaxRequests \in Nat
    BY RequestsAssumption DEF Typed, TypeOK
  <1>2. UNCHANGED quoteVars => QuotesTypeOK'
    BY DEF Typed, TypeOK, QuotesTypeOK, quoteVars
  <1>3. UNCHANGED vehicles => VehiclesTypeOK'
    BY DEF Typed, TypeOK, VehiclesTypeOK
  <1>4. asked < MaxRequests /\ asked' = asked + 1 => asked' \in 0..MaxRequests
    BY <1>1
  <1> QED
    BY <1>1, <1>2, <1>3, <1>4 DEF Typed, TypeOK, indicatorVars

LEMMA TypedNow ==
    ASSUME QuotesTypeOK', VehiclesTypeOK', asked' \in 0..MaxRequests,
           history' \in [Code -> [Days -> Point \cup {Never}]], locks' \subseteq Days,
           lastOk' \in [Code -> 0..MaxNow], checks' \in 0..KeptChecks,
           req' \in [Workers -> Request], audit' \in Seq(Entry)
    PROVE  Typed'
  BY DEF Typed, TypeOK

\* Steps of no session.
LEMMA ClockStep ==
    ASSUME IInv, Tick
    PROVE  IInv'
  <1>1. /\ UNCHANGED requestVars /\ UNCHANGED indicatorVars
        /\ UNCHANGED <<changes, cache, vehicles>> /\ now' = now + 1 /\ now < MaxNow
    BY DEF Tick
  <1>2. UNCHANGED <<req, asked, crossed, audit>>
    BY <1>1 DEF requestVars
  <1>3. QuotesTypeOK'
    <2>1. now' \in 0..MaxNow
      BY <1>1, QuotesAssumption DEF IInv, Typed, TypeOK, QuotesTypeOK
    <2> QED
      BY <1>1, <2>1 DEF IInv, Typed, TypeOK, QuotesTypeOK
  <1>4. Typed'
    BY <1>1, <1>2, <1>3, TypesKept, TypedNow DEF IInv
  <1>5. VehiclesHold'
    <2>1. KeepsVehicles
      BY <1>1, <1>2 DEF KeepsVehicles
    <2> QED
      BY <2>1, VehiclesKept DEF IInv
  <1> QED
    BY <1>4, <1>5, TickQuotes, TickIndicators DEF IInv

LEMMA CountedStep ==
    ASSUME IInv, VerifyHealth \/ SkipRetrigger
    PROVE  IInv'
  <1>1. /\ asked < MaxRequests /\ asked' = asked + 1
        /\ UNCHANGED <<req, crossed, audit>> /\ UNCHANGED quoteVars
        /\ UNCHANGED <<vehicles, history, locks, lastOk>>
        /\ checks' = Kept(checks) \/ UNCHANGED checks
    BY DEF VerifyHealth, SkipRetrigger
  <1>2. checks' \in 0..KeptChecks
    BY <1>1, MarketAssumption DEF IInv, Typed, TypeOK, Kept
  <1>3. /\ history' \in [Code -> [Days -> Point \cup {Never}]]
        /\ locks' \subseteq Days /\ lastOk' \in [Code -> 0..MaxNow]
    BY <1>1 DEF IInv, Typed, TypeOK
  <1>4. Typed'
    BY <1>1, <1>2, <1>3, TypesKept, TypedNow DEF IInv
  <1>5. QuotesHold'
    <2>1. KeepsQuotes
      BY <1>1 DEF KeepsQuotes
    <2> QED
      BY <2>1, QuotesKept DEF IInv
  <1>6. VehiclesHold'
    <2>1. KeepsVehicles
      BY <1>1 DEF KeepsVehicles
    <2> QED
      BY <2>1, VehiclesKept DEF IInv
  <1>7. IndicatorsHold'
    <2>1. KeepsIndicators
      BY <1>1 DEF KeepsIndicators, quoteVars
    <2> QED
      BY <2>1, IndicatorsKept DEF IInv
  <1> QED
    BY <1>4, <1>5, <1>6, <1>7 DEF IInv

LEMMA PruneStep ==
    ASSUME IInv, Prune, UNCHANGED <<vehicles, indicatorVars>>
    PROVE  IInv'
  <1>1. /\ UNCHANGED <<req, asked, crossed, audit>> /\ UNCHANGED <<now, changes>>
        /\ UNCHANGED indicatorVars /\ UNCHANGED vehicles
    BY DEF Prune, requestVars
  <1>2. QuotesTypeOK'
    <2>1. cache' \in [Keys -> Row \cup {NoRow}]
      BY DEF IInv, Typed, TypeOK, QuotesTypeOK, Prune
    <2> QED
      BY <1>1, <2>1 DEF IInv, Typed, TypeOK, QuotesTypeOK
  <1>3. Typed'
    BY <1>1, <1>2, TypesKept, TypedNow DEF IInv
  <1>4. VehiclesHold'
    <2>1. KeepsVehicles
      BY <1>1 DEF KeepsVehicles
    <2> QED
      BY <2>1, VehiclesKept DEF IInv
  <1>5. IndicatorsHold'
    <2>1. KeepsIndicators
      BY <1>1 DEF KeepsIndicators, indicatorVars
    <2> QED
      BY <2>1, IndicatorsKept DEF IInv
  <1> QED
    BY <1>3, <1>4, <1>5, PruneQuotes DEF IInv

LEMMA ChangeStep ==
    ASSUME IInv, NEW k \in Keys, Change(k), UNCHANGED <<vehicles, indicatorVars>>
    PROVE  IInv'
  <1>1. /\ UNCHANGED <<req, asked, crossed, audit>> /\ UNCHANGED <<now, cache>>
        /\ changes' = [changes EXCEPT ![k] = Append(@, now)]
        /\ UNCHANGED indicatorVars /\ UNCHANGED vehicles
    BY DEF Change, requestVars
  <1>2. QuotesTypeOK'
    <2>1. changes \in [Keys -> Seq(0..MaxNow)] /\ now \in 0..MaxNow
      BY DEF IInv, Typed, TypeOK, QuotesTypeOK
    <2>2. Append(changes[k], now) \in Seq(0..MaxNow)
      BY <2>1
    <2>3. changes' \in [Keys -> Seq(0..MaxNow)]
      BY <1>1, <2>1, <2>2
    <2> QED
      BY <1>1, <2>3 DEF IInv, Typed, TypeOK, QuotesTypeOK
  <1>3. Typed'
    BY <1>1, <1>2, TypesKept, TypedNow DEF IInv
  <1>4. VehiclesHold'
    <2>1. KeepsVehicles
      BY <1>1 DEF KeepsVehicles
    <2> QED
      BY <2>1, VehiclesKept DEF IInv
  <1>5. IndicatorsHold'
    <2>1. KeepsIndicators
      BY <1>1 DEF KeepsIndicators, indicatorVars
    <2> QED
      BY <2>1, IndicatorsKept DEF IInv
  <1> QED
    BY <1>3, <1>4, <1>5, ChangeQuotes DEF IInv

\* A request that is opened.
LEMMA AskedStep ==
    ASSUME IInv, NEW w \in Workers, Asks(w), req'[w].op # "collect",
           UNCHANGED <<quoteVars, vehicles, indicatorVars>>,
           QuotesHold', VehiclesHold'
    PROVE  IInv'
  <1>1. /\ UNCHANGED quoteVars /\ UNCHANGED vehicles /\ UNCHANGED indicatorVars
        /\ UNCHANGED <<now, history, locks, lastOk>>
    BY DEF quoteVars, indicatorVars
  <1>2. Typed'
    BY <1>1, TypesKept, TypedNow DEF IInv, Asks
  <1>3. IndicatorsHold'
    BY <1>1, Frames, IndicatorsKept DEF IInv, Asks
  <1> QED
    BY <1>2, <1>3 DEF IInv

LEMMA AskStep ==
    ASSUME IInv, NEW w \in Workers,
           \/ \E k \in Keys : AskQuote(w, k) /\ UNCHANGED <<vehicles, indicatorVars>>
           \/ AskVehicles(w) /\ UNCHANGED indicatorVars
    PROVE  IInv'
  <1>1. ASSUME NEW k \in Keys, AskQuote(w, k), UNCHANGED <<vehicles, indicatorVars>>
        PROVE  IInv'
    <2> DEFINE want == [for |-> "caller"]
    <2>1. StartFetch(w, k, {}, want) /\ UNCHANGED quoteVars
      BY <1>1 DEF AskQuote
    <2>2. VehiclesHold' /\ Asks(w) /\ req'[w].op = "fetch"
      BY <1>1, AskQuoteStep DEF IInv
    <2> HIDE DEF want
    <2>3. QuotesHold'
      BY <2>1, <2>2, StartFetchQuotes DEF IInv, Asks
    <2> QED
      BY <1>1, <2>1, <2>2, <2>3, AskedStep
  <1>2. ASSUME NEW i \in DOMAIN vehicles, RefreshFipe(w, i), UNCHANGED indicatorVars
        PROVE  IInv'
    <2> DEFINE k == vehicles[i].quote.key
               on == {<<"vehicle", i>>}
               want == [for |-> "vehicle", i |-> i, saw |-> vehicles[i]]
    <2>1. StartFetch(w, k, on, want) /\ UNCHANGED quoteVars /\ UNCHANGED vehicles
      BY <1>2 DEF RefreshFipe, ModelOfSnapshot, quoteVars
    <2>2. VehiclesHold' /\ Asks(w) /\ req'[w].op = "fetch" /\ k \in Keys
      BY <1>2, RefreshFipeStep DEF IInv
    <2> HIDE DEF want, on, k
    <2>3. QuotesHold'
      BY <2>1, <2>2, StartFetchQuotes DEF IInv, Asks
    <2> QED
      BY <1>2, <2>1, <2>2, <2>3, AskedStep
  <1>3. ASSUME NEW form \in Forms, UNCHANGED indicatorVars,
               CreateVehicle(w, form) \/ \E i \in DOMAIN vehicles : UpdateVehicle(w, i, form)
        PROVE  IInv'
    <2>1. UNCHANGED quoteVars /\ UNCHANGED vehicles
      BY <1>3 DEF CreateVehicle, UpdateVehicle, quoteVars
    <2>2. VehiclesHold' /\ Asks(w) /\ req'[w].op \notin {"fetch", "collect"}
      BY <1>3, CreateVehicleStep, UpdateVehicleStep DEF IInv
    <2>3. QuotesHold'
      BY <2>1, <2>2, Frames, QuotesKept DEF IInv, Asks
    <2> QED
      BY <1>3, <2>1, <2>2, <2>3, AskedStep
  <1>4. ASSUME NEW i \in DOMAIN vehicles, NEW to \in Statuses, SetStatus(w, i, to),
               UNCHANGED indicatorVars
        PROVE  IInv'
    <2>1. UNCHANGED quoteVars /\ UNCHANGED vehicles
      BY <1>4 DEF SetStatus, quoteVars
    <2>2. VehiclesHold' /\ Asks(w) /\ req'[w].op \notin {"fetch", "collect"}
      BY <1>4, SetStatusStep DEF IInv
    <2>3. QuotesHold'
      BY <2>1, <2>2, Frames, QuotesKept DEF IInv, Asks
    <2> QED
      BY <1>4, <2>1, <2>2, <2>3, AskedStep
  <1> QED
    BY <1>1, <1>2, <1>3, <1>4 DEF AskVehicles

\* A step of a fetch that goes on.
LEMMA FetchGoesOn ==
    ASSUME IInv, NEW w \in Workers, req[w].op = "fetch",
           NEW pc \in {"read", "ask", "store", "done"}, NEW turn \in DOMAIN Providers,
           NEW quote \in Quote \cup {NoQuote}, Continue(w, pc, turn, quote),
           UNCHANGED <<asked, crossed, audit, now, vehicles, indicatorVars>>,
           QuotesTypeOK', QuotesHold'
    PROVE  IInv'
  <1>1. /\ req' \in [Workers -> Request] /\ Beside(w)
        /\ req'[w].op = "fetch" /\ req'[w].on = req[w].on
        /\ req'[w].late = req[w].late
        /\ req'[w].arg.key = req[w].arg.key
        /\ req'[w].arg.want = req[w].arg.want
    BY Continued DEF IInv, Typed
  <1>2. /\ UNCHANGED vehicles /\ UNCHANGED indicatorVars /\ UNCHANGED audit
        /\ UNCHANGED asked /\ UNCHANGED crossed
        /\ UNCHANGED <<now, history, locks, lastOk>>
    BY DEF indicatorVars
  <1>3. Typed'
    BY <1>1, <1>2, TypesKept, TypedNow DEF IInv
  <1>4. VehiclesHold'
    <2>1. KeepsVehicles
      BY <1>1, <1>2 DEF KeepsVehicles, Beside
    <2> QED
      BY <2>1, VehiclesKept DEF IInv
  <1>5. IndicatorsHold'
    BY <1>1, <1>2, Frames, IndicatorsKept DEF IInv
  <1> QED
    BY <1>3, <1>4, <1>5 DEF IInv

\* The end of a session that wrote nothing.
LEMMA SessionEnds ==
    ASSUME IInv, NEW w \in Workers, req' \in [Workers -> Request], req'[w] = Idle,
           Beside(w), crossed \subseteq crossed',
           UNCHANGED <<asked, audit, quoteVars, vehicles, indicatorVars>>
    PROVE  IInv'
  <1>1. /\ UNCHANGED quoteVars /\ UNCHANGED vehicles /\ UNCHANGED indicatorVars
        /\ UNCHANGED audit /\ UNCHANGED asked
        /\ UNCHANGED <<now, history, locks, lastOk>>
    BY DEF quoteVars, indicatorVars
  <1>2. Typed'
    BY <1>1, TypesKept, TypedNow DEF IInv
  <1>3. req'[w].op = "idle" /\ "idle" \notin VehicleOps
    BY DEF Idle, VehicleOps
  <1>4. KeepsQuotes /\ KeepsVehicles /\ KeepsIndicators
    BY <1>1, <1>3, Frames
  <1> QED
    BY <1>2, <1>4, QuotesKept, VehiclesKept, IndicatorsKept DEF IInv

LEMMA FetchStep ==
    ASSUME IInv, NEW w \in Workers, QuotesGoOn(w), UNCHANGED <<vehicles, indicatorVars>>
    PROVE  IInv'
  <1> DEFINE a == req[w].arg
  <1>1. /\ req[w].op = "fetch" => a.key \in Keys /\ a.turn \in DOMAIN Providers
        /\ req[w].op = "fetch" => a.quote \in Quote \cup {NoQuote}
    BY FetchIs DEF IInv
  <1>2. UNCHANGED quoteVars => QuotesTypeOK'
    BY TypesKept DEF IInv
  <1>3. CASE ReadCache(w)
    <2>1. /\ req[w].op = "fetch" /\ UNCHANGED quoteVars
          /\ UNCHANGED <<asked, crossed, audit, now, vehicles, indicatorVars>>
          /\ \/ Fresh(cache[a.key]) /\ Continue(w, "done", a.turn, cache[a.key].quote)
             \/ Continue(w, "ask", a.turn, NoQuote)
      BY <1>3 DEF ReadCache, Fetching, Holds, quoteVars
    <2>2. QuotesHold'
      BY <1>3, ReadCacheQuotes DEF IInv
    <2>3. Fresh(cache[a.key]) => cache[a.key].quote \in Quote
      BY <1>1, <2>1 DEF IInv, QuotesHold, CacheHolds, Fresh, Said
    <2> HIDE DEF a
    <2> QED
      BY <1>1, <1>2, <2>1, <2>2, <2>3, FetchGoesOn
  <1>4. CASE ProviderAnswers(w)
    <2>1. /\ req[w].op = "fetch" /\ UNCHANGED quoteVars
          /\ UNCHANGED <<asked, crossed, audit, now, vehicles, indicatorVars>>
          /\ Continue(w, "store", a.turn, Word(a.key))
      BY <1>4 DEF ProviderAnswers, Fetching, Holds, quoteVars
    <2>2. QuotesHold' /\ Word(a.key) \in Quote
      BY <1>4, ProviderAnswersQuotes DEF IInv
    <2> HIDE DEF a
    <2> QED
      BY <1>1, <1>2, <2>1, <2>2, FetchGoesOn
  <1>5. CASE ProviderFails(w)
    <2>1. /\ req[w].op = "fetch" /\ UNCHANGED quoteVars
          /\ UNCHANGED <<asked, crossed, audit, now, vehicles, indicatorVars>>
          /\ IF a.turn < Len(Providers) THEN Continue(w, "read", a.turn + 1, NoQuote)
             ELSE req' = [req EXCEPT ![w] = Idle]
      BY <1>5 DEF ProviderFails, Fetching, Holds, quoteVars
    <2>2. CASE a.turn < Len(Providers)
      <3>1. a.turn + 1 \in DOMAIN Providers
        BY <1>1, <2>1, <2>2, QuotesAssumption
      <3>2. QuotesHold'
        <4>1. /\ Beside(w) /\ req'[w].op = "fetch" /\ req'[w].arg.pc = "read"
              /\ req'[w].arg.since = a.since
          BY <2>1, <2>2, <3>1, Continued DEF IInv, Typed
        <4>2. UNCHANGED <<now, changes, cache>>
          BY <2>1 DEF quoteVars
        <4>3. FetchHolds(req[w])
          BY DEF IInv, QuotesHold
        <4>4. FetchHolds(req[w])'
          BY <2>1, <4>1, <4>2, <4>3 DEF FetchHolds
        <4>5. CacheHolds'
          BY <4>2 DEF IInv, QuotesHold, CacheHolds, Said, HeldUntil
        <4> QED
          BY <4>1, <4>2, <4>4, <4>5, FetchMoves DEF IInv
      <3> HIDE DEF a
      <3> QED
        BY <1>2, <2>1, <2>2, <3>1, <3>2, FetchGoesOn
    <2>3. CASE ~(a.turn < Len(Providers))
      <3>1. req' \in [Workers -> Request] /\ req'[w] = Idle /\ Beside(w)
        BY <2>1, <2>3, Closed DEF IInv, Typed
      <3> QED
        BY <2>1, <3>1, SessionEnds
    <2> QED
      BY <2>2, <2>3
  <1>6. CASE StoreQuote(w)
    <2>1. /\ req[w].op = "fetch" /\ a.pc = "store" /\ UNCHANGED changes
          /\ UNCHANGED <<asked, crossed, audit, now, vehicles, indicatorVars>>
          /\ Continue(w, "done", a.turn, a.quote)
      BY <1>6 DEF StoreQuote, Fetching, Holds
    <2>2. QuotesHold'
      BY <1>6, StoreQuoteQuotes DEF IInv
    <2>3. QuotesTypeOK'
      <3>1. /\ now \in 0..MaxNow /\ changes \in [Keys -> Seq(0..MaxNow)]
            /\ cache \in [Keys -> Row \cup {NoRow}]
        BY DEF IInv, Typed, TypeOK, QuotesTypeOK
      <3>2. a.quote \in Quote
        BY <2>1 DEF IInv, QuotesHold, FetchHolds, Said
      <3>3. [quote |-> a.quote, at |-> now,
             ttl |-> IF a.key \in Prices THEN PriceTtl ELSE ListTtl] \in Row
        BY <3>1, <3>2 DEF Row
      <3>4. cache' \in [Keys -> Row \cup {NoRow}]
        BY <1>6, <3>1, <3>3 DEF StoreQuote
      <3> QED
        BY <2>1, <3>1, <3>4 DEF QuotesTypeOK
    <2> HIDE DEF a
    <2> QED
      BY <1>1, <2>1, <2>2, <2>3, FetchGoesOn
  <1>7. CASE AnswerCaller(w)
    <2>1. Commit(w) /\ UNCHANGED audit /\ UNCHANGED quoteVars
      BY <1>7 DEF AnswerCaller, quoteVars
    <2>2. /\ req' \in [Workers -> Request] /\ req'[w] = Idle /\ Beside(w)
          /\ crossed \subseteq crossed' /\ UNCHANGED asked
      BY <2>1, Committed DEF IInv, Typed
    <2> QED
      BY <2>1, <2>2, SessionEnds
  <1> QED
    BY <1>3, <1>4, <1>5, <1>6, <1>7 DEF QuotesGoOn

LEMMA VehicleStep ==
    ASSUME IInv, NEW w \in Workers, VehiclesGoOn(w), UNCHANGED indicatorVars
    PROVE  IInv'
  <1>1. Commit(w) /\ UNCHANGED quoteVars
    BY DEF VehiclesGoOn, InsertVehicle, WriteVehicle, WriteStatus, WriteQuote, quoteVars
  <1>2. /\ req' \in [Workers -> Request] /\ req'[w] = Idle /\ Beside(w)
        /\ UNCHANGED asked
    BY <1>1, Committed DEF IInv, Typed
  <1>3. /\ VehiclesHold' /\ audit' \in Seq(Entry)
        /\ vehicles' \in Seq(Vehicle) /\ Len(vehicles') <= MaxVehicles
    <2>1. Len(vehicles) <= MaxVehicles
      BY DEF IInv, Typed, TypeOK, VehiclesTypeOK
    <2> QED
      BY <2>1, InsertVehicleStep, WriteVehicleStep, WriteStatusStep, WriteQuoteStep
         DEF IInv, VehiclesGoOn
  <1>4. VehiclesTypeOK'
    BY <1>3 DEF VehiclesTypeOK
  <1>5. Typed'
    BY <1>1, <1>2, <1>3, <1>4, TypesKept, TypedNow DEF IInv
  <1>6. KeepsQuotes /\ KeepsIndicators
    <2>1. req'[w].op = "idle" /\ UNCHANGED <<now, history, locks, lastOk>>
      BY <1>1, <1>2 DEF Idle, quoteVars, indicatorVars
    <2> QED
      BY <1>1, <1>2, <2>1, Frames
  <1> QED
    BY <1>3, <1>5, <1>6, QuotesKept, IndicatorsKept DEF IInv

LEMMA AbortStep ==
    ASSUME IInv, NEW w \in Workers, Abort(w),
           UNCHANGED <<quoteVars, vehicles, indicatorVars>>
    PROVE  IInv'
  <1>1. /\ req' = [req EXCEPT ![w] = Idle]
        /\ UNCHANGED <<asked, crossed, audit>>
    BY DEF Abort
  <1>2. req' \in [Workers -> Request] /\ req'[w] = Idle /\ Beside(w)
    BY <1>1, Closed DEF IInv, Typed
  <1> QED
    BY <1>1, <1>2, SessionEnds

LEMMA CollectStep ==
    ASSUME IInv, NEW w \in Workers,
           \/ StartJob(w) \/ SgsAnswers(w) \/ BrasilApiAnswers(w)
           \/ BothFail(w) \/ CommitCode(w)
    PROVE  IInv'
  <1>1. /\ UNCHANGED quoteVars /\ UNCHANGED vehicles /\ UNCHANGED checks
        /\ UNCHANGED audit /\ UNCHANGED crossed
    BY DEF StartJob, Open, SgsAnswers, BrasilApiAnswers, BothFail, CommitCode, quoteVars,
           indicatorVars
  <1>2. /\ IndicatorsHold' /\ req' \in [Workers -> Request] /\ Beside(w)
        /\ req'[w].op \notin VehicleOps
    <2>1. "collect" \notin VehicleOps
      BY DEF VehicleOps
    <2> HIDE DEF VehicleOps
    <2> QED
      BY <2>1, StartJobStep, SgsAnswersStep, BrasilApiAnswersStep, BothFailStep,
         CommitCodeStep
         DEF IInv, Asks
  <1>3. asked' \in 0..MaxRequests
    <2>1. CASE StartJob(w)
      <3>1. asked < MaxRequests /\ asked' = asked + 1
        BY <2>1, StartJobStep DEF IInv, Asks
      <3> QED
        BY <3>1, TypesKept DEF IInv
    <2>2. CASE ~StartJob(w)
      <3>1. UNCHANGED asked
        BY <2>2 DEF SgsAnswers, BrasilApiAnswers, BothFail, CommitCode
      <3> QED
        BY <3>1, TypesKept DEF IInv
    <2> QED
      BY <2>1, <2>2
  <1>4. /\ history' \in [Code -> [Days -> Point \cup {Never}]]
        /\ lastOk' \in [Code -> 0..MaxNow] /\ locks' \subseteq Days
    <2>1. CASE StartJob(w)
      <3>1. UNCHANGED <<history, lastOk>> /\ locks' \subseteq Days
        BY <2>1, StartJobStep DEF StartJob, IInv
      <3> QED
        BY <3>1 DEF IInv, Typed, TypeOK
    <2>2. CASE SgsAnswers(w) \/ BrasilApiAnswers(w) \/ BothFail(w)
      <3>1. UNCHANGED <<history, lastOk, locks>>
        BY <2>2 DEF SgsAnswers, BrasilApiAnswers, BothFail, indicatorVars
      <3> QED
        BY <3>1 DEF IInv, Typed, TypeOK
    <2>3. CASE CommitCode(w)
      <3>1. /\ history' \in [Code -> [Days -> Point \cup {Never}]]
            /\ lastOk' \in [Code -> 0..MaxNow] /\ UNCHANGED locks
        BY <2>3, CodeCommitted DEF IInv
      <3> QED
        BY <3>1 DEF IInv, Typed, TypeOK
    <2> QED
      BY <2>1, <2>2, <2>3
  <1>5. checks' \in 0..KeptChecks
    BY <1>1 DEF IInv, Typed, TypeOK
  <1>6. Typed'
    BY <1>1, <1>2, <1>3, <1>4, <1>5, TypesKept, TypedNow DEF IInv
  <1>7. KeepsQuotes /\ KeepsVehicles
    <2>1. req'[w].op # "fetch"
      BY <1>2 DEF VehicleOps
    <2> HIDE DEF VehicleOps
    <2> QED
      BY <1>1, <1>2, <2>1, Frames
  <1> QED
    BY <1>2, <1>6, <1>7, QuotesKept, VehiclesKept DEF IInv

LEMMA Inductive == IInv /\ [Next]_vars => IInv'
  <1> SUFFICES ASSUME IInv, [Next]_vars
               PROVE  IInv'
    OBVIOUS
  <1>1. CASE UNCHANGED vars
    <2>1. /\ UNCHANGED <<req, asked, crossed, audit>> /\ UNCHANGED quoteVars
          /\ UNCHANGED vehicles /\ UNCHANGED indicatorVars
      BY <1>1 DEF vars, requestVars
    <2>2. Typed'
      BY <2>1, TypesKept, TypedNow DEF IInv
    <2>3. KeepsQuotes /\ KeepsVehicles /\ KeepsIndicators
      BY <2>1 DEF KeepsQuotes, KeepsVehicles, KeepsIndicators, quoteVars, indicatorVars
    <2> QED
      BY <2>2, <2>3, QuotesKept, VehiclesKept, IndicatorsKept DEF IInv
  <1>2. CASE Tick
    BY <1>2, ClockStep
  <1>3. CASE VerifyHealth \/ SkipRetrigger
    BY <1>3, CountedStep
  <1>4. CASE Prune /\ UNCHANGED <<vehicles, indicatorVars>>
    BY <1>4, PruneStep
  <1>5. CASE \E k \in Keys : Change(k) /\ UNCHANGED <<vehicles, indicatorVars>>
    BY <1>5, ChangeStep
  <1>6. ASSUME NEW w \in Workers,
               \/ \E k \in Keys : AskQuote(w, k) /\ UNCHANGED <<vehicles, indicatorVars>>
               \/ AskVehicles(w) /\ UNCHANGED indicatorVars
        PROVE  IInv'
    BY <1>6, AskStep
  <1>7. ASSUME NEW w \in Workers, QuotesGoOn(w), UNCHANGED <<vehicles, indicatorVars>>
        PROVE  IInv'
    BY <1>7, FetchStep
  <1>8. ASSUME NEW w \in Workers, VehiclesGoOn(w), UNCHANGED indicatorVars
        PROVE  IInv'
    BY <1>8, VehicleStep
  <1>9. ASSUME NEW w \in Workers, Abort(w),
               UNCHANGED <<quoteVars, vehicles, indicatorVars>>
        PROVE  IInv'
    BY <1>9, AbortStep
  <1>10. ASSUME NEW w \in Workers,
                \/ StartJob(w) \/ SgsAnswers(w) \/ BrasilApiAnswers(w)
                \/ BothFail(w) \/ CommitCode(w)
         PROVE  IInv'
    BY <1>10, CollectStep
  <1> QED
    BY <1>1, <1>2, <1>3, <1>4, <1>5, <1>6, <1>7, <1>8, <1>9, <1>10 DEF Next

LEMMA Invariant == Spec => []IInv
  BY Initially, Inductive, PTL DEF Spec

-----------------------------------------------------------------------------
(* Theorems *)

\* The tables, the requests and the clock stay of their types, whatever
\* sessions overlap or end without a commit.
THEOREM TypeCorrect == Spec => []TypeOK
  <1>1. IInv => TypeOK
    BY DEF IInv, Typed
  <1> QED
    BY <1>1, Invariant, PTL

\* The chain gives out no quote that the providers changed longer ago than
\* its time to live and the two moments of the requests, whatever rows were
\* stored late, pruned or refreshed meanwhile (providers/fipe).
THEOREM QuotesStayRecent == Spec => []QuotesAreRecent
  <1>1. IInv => QuotesAreRecent
    BY RecentFromHeld DEF IInv
  <1> QED
    BY <1>1, Invariant, PTL

\* No edit and no refresh of a vehicle that was sold brings it back
\* (_VALID_TRANSITIONS of vehicle_service.py).
THEOREM SoldForGood == Spec => []SoldStaysSold
  <1>1. IInv => SoldStaysSold
    BY DEF IInv, VehiclesHold
  <1> QED
    BY <1>1, Invariant, PTL

\* A vehicle is priced as a model one of its forms brought, and as the one its
\* last form brought through every edit and refresh that did not overlap
\* another; so is a price that was typed in (update and refresh_fipe of
\* vehicle_service.py).
THEOREM PricedByForms == Spec => []PricedAsBrought
  <1>1. IInv => PricedAsBrought
    BY DEF IInv, VehiclesHold
  <1> QED
    BY <1>1, Invariant, PTL

\* The age of an indicator's newest row tells when it was collected
\* (indicators_service.py and update_bacen_indicators of workers/tasks.py).
THEOREM StaleIndicatorsTold == Spec => []StaleIsTold
  <1>1. IInv => StaleIsTold
    BY StaleFromRows DEF IInv
  <1> QED
    BY <1>1, Invariant, PTL
=============================================================================
