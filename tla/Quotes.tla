------------------------------- MODULE Quotes -------------------------------
(***************************************************************************)
(* FIPE quotes: the provider chain (finacialsim_core/integrations), its    *)
(* cache (services/fipe_cache.py) and who asks it (services/               *)
(* fipe_service.py, api/fipe.py).                                          *)
(*                                                                         *)
(* A provider's answer is known by its key and by how many times the       *)
(* provider has changed it.  Both providers are wrapped in the same cache, *)
(* and one row per key serves both.                                        *)
(***************************************************************************)
EXTENDS Requests

CONSTANTS
    Prices, Lists,   \* the keys: of a price, of a list of brands or models
    Providers,       \* in the order of the chain
    Answers,         \* Answers[p]: the keys provider p has an answer for
    PriceTtl, ListTtl,
    MaxNow,          \* bound: the last moment
    MaxChanges       \* bound: changes of an answer

ASSUME QuotesAssumption ==
    /\ Prices \cap Lists = {}
    /\ Providers \in Seq(DOMAIN Answers) /\ Len(Providers) > 0
    /\ {PriceTtl, ListTtl, MaxNow, MaxChanges} \subseteq Nat

Keys == Prices \cup Lists

VARIABLES
    now,
    changes,         \* the moments at which the providers changed an answer
    cache            \* the fipe_cache table

quoteVars == <<now, changes, cache>>

Quote == [key: Keys, nth: 0..MaxChanges]
NoQuote == [key |-> "none", nth |-> 0]
NoRow == [quote |-> NoQuote, at |-> 0, ttl |-> 0]
Row == [quote: Quote, at: 0..MaxNow, ttl: {PriceTtl, ListTtl}]

QuotesTypeOK ==
    /\ now \in 0..MaxNow
    /\ changes \in [Keys -> Seq(0..MaxNow)]
    /\ cache \in [Keys -> Row \cup {NoRow}]

QuotesInit ==
    /\ now = 0
    /\ changes = [k \in Keys |-> <<>>]
    /\ cache = [k \in Keys |-> NoRow]

\* What a provider says of a key at this moment.
Word(k) == [key |-> k, nth |-> Len(changes[k])]

\* A new month's table.
Change(k) ==
    /\ Len(changes[k]) < MaxChanges
    /\ \A other \in Keys \ {k} : Len(changes[other]) < MaxChanges
    /\ changes' = [changes EXCEPT ![k] = Append(@, now)]
    /\ UNCHANGED <<requestVars, now, cache>>

-----------------------------------------------------------------------------
(* A fetch in session w: one wrapper of the chain after the other. *)

Fetching(w, pc) == Holds(w, "fetch") /\ req[w].arg.pc = pc

\* Whoever wants a quote of key k: what it does with it is in want.
StartFetch(w, k, on, want) ==
    Open(w, "fetch", on,
         [pc |-> "read", key |-> k, turn |-> 1, quote |-> NoQuote,
          since |-> now, want |-> want])

Continue(w, pc, turn, quote) ==
    req' = [req EXCEPT ![w].arg.pc = pc, ![w].arg.turn = turn,
                       ![w].arg.quote = quote]

\* Defect: the age is compared with the time to live of the lists.
FreshAsList(row) == row # NoRow /\ now - row.at < ListTtl

Fresh(row) == row # NoRow /\ now - row.at < row.ttl

\* A read that fails is taken for a row that is not there.
ReadCache(w) ==
    LET a == req[w].arg IN
    /\ Fetching(w, "read")
    /\ \/ /\ Fresh(cache[a.key])
          /\ Continue(w, "done", a.turn, cache[a.key].quote)
       \/ Continue(w, "ask", a.turn, NoQuote)
    /\ UNCHANGED <<asked, crossed, audit, quoteVars>>

\* A provider is asked up to three times; what it says in the end counts.
ProviderAnswers(w) ==
    LET a == req[w].arg IN
    /\ Fetching(w, "ask")
    /\ a.key \in Answers[Providers[a.turn]]
    /\ Continue(w, "store", a.turn, Word(a.key))
    /\ UNCHANGED <<asked, crossed, audit, quoteVars>>

\* An HTTP error after the retries, an answer that cannot be parsed, or a
\* query the provider does not know; the last provider's error is the
\* chain's.
ProviderFails(w) ==
    LET a == req[w].arg IN
    /\ Fetching(w, "ask")
    /\ IF a.turn < Len(Providers) THEN Continue(w, "read", a.turn + 1, NoQuote)
       ELSE req' = [req EXCEPT ![w] = Idle]
    /\ UNCHANGED <<asked, crossed, audit, quoteVars>>

\* The upsert of the key's row, in a transaction of its own; when it fails
\* the quote is used all the same.
StoreQuote(w) ==
    LET a == req[w].arg IN
    /\ Fetching(w, "store")
    /\ Continue(w, "done", a.turn, a.quote)
    /\ \/ cache' = [cache EXCEPT ![a.key] =
                      [quote |-> a.quote, at |-> now,
                       ttl |-> IF a.key \in Prices THEN PriceTtl ELSE ListTtl]]
       \/ UNCHANGED cache
    /\ UNCHANGED <<asked, crossed, audit, now, changes>>

\* GET /fipe/brands, models, years, price.
AskQuote(w, k) ==
    /\ StartFetch(w, k, {}, [for |-> "caller"])
    /\ UNCHANGED quoteVars

AnswerCaller(w) ==
    /\ Fetching(w, "done") /\ req[w].arg.want.for = "caller"
    /\ Commit(w)
    /\ UNCHANGED <<audit, quoteVars>>

\* prune_fipe_cache, every night.
Prune ==
    /\ \E k \in Keys : cache[k] # NoRow /\ cache[k].at + cache[k].ttl < now
    /\ cache' = [k \in Keys |->
                   IF cache[k].at + cache[k].ttl < now THEN NoRow ELSE cache[k]]
    /\ UNCHANGED <<requestVars, now, changes>>

QuotesGoOn(w) ==
    \/ ReadCache(w)
    \/ ProviderAnswers(w)
    \/ ProviderFails(w)
    \/ StoreQuote(w)
    \/ AnswerCaller(w)

\* No request lasts longer than from one moment to the next.
Prompt == \A w \in Workers : Holds(w, "fetch") => req[w].arg.since = now

-----------------------------------------------------------------------------
\* A price that is given out is what a provider said no longer ago than the
\* time to live of prices and the two moments that two requests may take, the
\* one that stored it and the one that was given it; lists likewise.
QuotesAreRecent ==
    \A w \in Workers : Fetching(w, "done") =>
        LET q == req[w].arg.quote
            ttl == IF q.key \in Prices THEN PriceTtl ELSE ListTtl
        IN
        /\ q.key = req[w].arg.key
        /\ q.nth < Len(changes[q.key]) =>
              now < changes[q.key][q.nth + 1] + ttl + 2
=============================================================================
