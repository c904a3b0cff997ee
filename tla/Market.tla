------------------------------- MODULE Market -------------------------------
(***************************************************************************)
(* The market data caches of src/internal/service/portfolio: the exchange  *)
(* rate (exchange_rate.go), index histories (index_history.go), stock      *)
(* snapshots (us_stock.go, us_stock_cache.go) and the indices table that   *)
(* is refreshed on read (market_indices.go).  They share no state, so a    *)
(* behaviour exercises one of them (`service').                            *)
(*                                                                         *)
(* A datum is the time at which the upstream was asked for it.  A request  *)
(* is in flight between a cache lookup, the answer and the store; nothing  *)
(* coalesces the fetches of the first three, a singleflight those of the   *)
(* last.  Every client has a timeout, so time does not pass it by.         *)
(***************************************************************************)
EXTENDS Integers, FiniteSets

CONSTANTS
    MReqs,        \* requests in flight at once
    Symbols, Ranges,  \* what a history or a snapshot is asked for
    Codes,        \* DefaultIndexSymbols
    Services,     \* which caches are exercised
    FreshFor,     \* exchangeRateFreshFor, indexHistoryFreshFor, usStockSnapFreshFor
    StaleAfter,   \* indicesStaleAfter
    FetchTimeout, \* of the HTTP clients
    MaxEntries,   \* maxIndexHistoryCache, maxUSStockSnapCache
    MaxMClock

VARIABLES
    service,      \* the cache under study
    rich,         \* stock_realtime has the OHLC columns
    mclock,       \* time.Now
    cache,        \* fxCache, indexHistoryCache or usStockSnapCache
    stockRows,    \* symbols with a row in stock_realtime and in stock_kline_cache
    idx,          \* indices table
    mreq,         \* requests in flight
    flight,       \* indicesRefreshSF: the leader and what it still has to upsert
    reply,        \* the response this step sends
    missed        \* history: codes a refresh skipped after they were last written

marketVars == <<service, rich, mclock, cache, stockRows, idx, mreq, flight, reply, missed>>

Free    == [pc |-> "free"]
NoEntry == [fetched |-> -1, at |-> -1, range |-> "none"]
NoRow   == [at |-> -1, stamp |-> -1]
NoReply == [source |-> "none"]

ASSUME MarketAssumption ==
    /\ Services \subseteq {"fx", "hist", "snap", "idx"}
    /\ Free \notin MReqs
    /\ FreshFor \in Nat /\ StaleAfter \in Nat /\ FetchTimeout \in Nat
    /\ MaxEntries \in Nat /\ MaxMClock \in Nat

\* What the key of a cache is made of: histories by symbol and range,
\* snapshots by symbol alone, the rate by nothing.
Slot(s, r) == CASE service = "hist" -> <<s, r>> [] service = "snap" -> <<s>> [] OTHER -> <<>>
Slots == CASE service = "hist" -> Symbols \X Ranges [] service = "snap" -> {<<s>> : s \in Symbols}
           [] OTHER -> {<<>>}

\* Mutant of Fresh: an entry never expires.
FreshForever(e) == e # NoEntry

Fresh(e) == e # NoEntry /\ mclock - e.fetched <= FreshFor

\* storeIndexHistoryCache, storeUSStockSnapCache: drop what expired, then the
\* oldest until the cap holds; ties fall either way.  The rate has one entry.
Evicted(c) ==
    LET live  == [k \in DOMAIN c |-> IF Fresh(c[k]) THEN c[k] ELSE NoEntry]
        held  == {k \in DOMAIN c : live[k] # NoEntry}
        drops == {d \in SUBSET held :
                    /\ Cardinality(held \ d) <= MaxEntries
                    /\ d # {} => Cardinality(held \ d) = MaxEntries
                    /\ \A k \in d, j \in held \ d : live[k].fetched <= live[j].fetched}
    IN  {[k \in DOMAIN c |-> IF k \in d THEN NoEntry ELSE live[k]] : d \in drops}

\* GetUSStock is content with the database: a complete quote and a history.
Content(s) == service = "snap" /\ rich /\ s \in stockRows

-----------------------------------------------------------------------------
MarketInit ==
    /\ service \in Services
    /\ rich \in IF service = "snap" THEN BOOLEAN ELSE {FALSE}
    /\ mclock = 0
    /\ cache = [k \in Slots |-> NoEntry]
    /\ stockRows = {}
    /\ idx = [c \in Codes |-> NoRow]
    /\ mreq = [q \in MReqs |-> Free]
    /\ flight = [leader |-> Free, todo |-> {}]
    /\ reply = NoReply
    /\ missed = {}

Fetching(q) == mreq[q].pc \in {"fetch", "store", "lead", "upsert"}

\* Time passes, but no fetch outlives its client's timeout, and reading a table
\* takes no time against the lifetimes of the caches.
MTick ==
    /\ mclock < MaxMClock
    /\ \A q \in MReqs : mreq[q].pc \notin {"join", "recheck", "reread", "serveRead"}
    /\ \A q \in MReqs : Fetching(q) => mclock < mreq[q].began + FetchTimeout
    /\ mclock' = mclock + 1
    /\ UNCHANGED <<service, rich, cache, stockRows, idx, mreq, flight, missed>>

Respond(e, source, s, r) ==
    reply' = [source |-> source, at |-> e.at, asked |-> r, range |-> e.range, when |-> mclock]

\* GetExchangeRate, GetIndexHistory, GetUSStock: a fresh entry is served, else
\* the upstream is asked.
LookUp(q, s, r) ==
    /\ service # "idx" /\ mreq[q] = Free /\ ~Content(s)
    /\ LET e == cache[Slot(s, r)]
       IN  IF Fresh(e)
           THEN /\ Respond(e, "memory_cache", s, r)
                /\ stockRows' = IF service = "snap" THEN stockRows \cup {s} ELSE stockRows
                /\ UNCHANGED mreq
           ELSE /\ mreq' = [mreq EXCEPT ![q] = [pc |-> "fetch", symbol |-> s, range |-> r,
                                                began |-> mclock, at |-> mclock]]
                /\ reply' = NoReply /\ UNCHANGED stockRows
    /\ UNCHANGED <<service, rich, mclock, cache, idx, flight, missed>>

\* The upstream answers with what it knows now.
Answer(q) ==
    /\ mreq[q].pc = "fetch"
    /\ mreq' = [mreq EXCEPT ![q].pc = "store", ![q].at = mclock]
    /\ UNCHANGED <<service, rich, mclock, cache, stockRows, idx, flight, missed>>

\* It fails: the last good rate or history, however old, else an error; a
\* stock keeps what the database had.
FetchFails(q) ==
    /\ mreq[q].pc \in {"fetch", "store"}
    /\ LET e == cache[Slot(mreq[q].symbol, mreq[q].range)]
       IN  IF service # "snap" /\ e # NoEntry
           THEN Respond(e, "memory_cache_stale", mreq[q].symbol, mreq[q].range)
           ELSE reply' = [source |-> "error"]
    /\ mreq' = [mreq EXCEPT ![q] = Free]
    /\ UNCHANGED <<service, rich, mclock, cache, stockRows, idx, flight, missed>>

\* The answer is cached under the time of the store, whatever another request
\* stored meanwhile; a snapshot is also upserted, best-effort.
Store(q) ==
    LET r == mreq[q]
        e == [fetched |-> mclock, at |-> r.at, range |-> r.range]
    IN  /\ r.pc = "store"
        /\ IF service = "fx" THEN cache' = [cache EXCEPT ![<<>>] = e]
           ELSE cache' \in Evicted([cache EXCEPT ![Slot(r.symbol, r.range)] = e])
        /\ Respond(e, "yahoo_chart", r.symbol, r.range)
        /\ stockRows' \in {stockRows} \cup (IF service = "snap" THEN {stockRows \cup {r.symbol}} ELSE {})
        /\ mreq' = [mreq EXCEPT ![q] = Free]
        /\ UNCHANGED <<service, rich, mclock, idx, flight, missed>>

-----------------------------------------------------------------------------
(* GetMarketIndices.                                                       *)

\* Mutant of NeedRefresh: only an empty table is refreshed.
NeedRefreshWhenEmpty(t) == \A c \in Codes : t[c].stamp = -1

\* indicesNeedRefresh: by the newest stamp of any row.
NeedRefresh(t) == \A c \in Codes : t[c].stamp = -1 \/ mclock - t[c].stamp > StaleAfter

ReplyRows(t, source) == reply' = [source |-> source, rows |-> t, when |-> mclock,
                                 missed |-> missed \cup flight.todo]

\* readMarketIndices: rows that are fresh enough are served.
ReadIndices(q) ==
    /\ service = "idx" /\ mreq[q] = Free
    /\ IF ~NeedRefresh(idx)
       THEN ReplyRows(idx, "table") /\ UNCHANGED mreq
       ELSE mreq' = [mreq EXCEPT ![q] = [pc |-> "join", read |-> idx, began |-> 0]] /\ reply' = NoReply
    /\ UNCHANGED <<service, rich, mclock, cache, stockRows, idx, flight, missed>>

\* indicesRefreshSF.Do: lead a refresh, or wait for the one under way.
JoinRefresh(q) ==
    /\ mreq[q].pc = "join"
    /\ \/ /\ flight.leader = Free
          /\ flight' = [flight EXCEPT !.leader = q]
          /\ mreq' = [mreq EXCEPT ![q].pc = "recheck"]
       \/ /\ flight.leader # Free
          /\ mreq' = [mreq EXCEPT ![q].pc = "wait"]
          /\ UNCHANGED flight
    /\ UNCHANGED <<service, rich, mclock, cache, stockRows, idx, missed>>

InFlight(q) == mreq[q].pc \in {"recheck", "lead", "upsert", "wait"}

\* Do returns to the leader and to everybody who waited: with an error they
\* serve what they had read, else they read again.
Land(outcome) ==
    /\ flight' = [leader |-> Free, todo |-> {}]
    /\ mreq' = [q \in MReqs |-> IF InFlight(q) THEN [mreq[q] EXCEPT !.pc = outcome] ELSE mreq[q]]

Recheck(q) ==
    /\ mreq[q].pc = "recheck"
    /\ IF NeedRefresh(idx)
       THEN mreq' = [mreq EXCEPT ![q].pc = "lead", ![q].began = mclock] /\ UNCHANGED flight
       ELSE Land("reread")
    /\ UNCHANGED <<service, rich, mclock, cache, stockRows, idx, missed>>

\* FetchYahooIndexQuotes may know some symbols only.
QuotesArrive(q, got) ==
    /\ mreq[q].pc = "lead" /\ got # {}
    /\ mreq' = [mreq EXCEPT ![q].pc = "upsert"]
    /\ flight' = [flight EXCEPT !.todo = got]
    /\ missed' = missed \cup (Codes \ got)
    /\ UNCHANGED <<service, rich, mclock, cache, stockRows, idx>>

\* One upsert; the row carries the market's own time, which stands still while
\* the market is closed.
UpsertIndex(q, c, open) ==
    /\ mreq[q].pc = "upsert" /\ c \in flight.todo
    /\ idx' = [idx EXCEPT ![c] = [at |-> mclock, stamp |-> IF open THEN mclock
                                       ELSE IF idx[c] = NoRow THEN 0 ELSE idx[c].stamp]]
    /\ missed' = missed \ {c}
    /\ IF flight.todo = {c} THEN Land("reread")
       ELSE flight' = [flight EXCEPT !.todo = @ \ {c}] /\ UNCHANGED mreq
    /\ UNCHANGED <<service, rich, mclock, cache, stockRows>>

\* The fetch, an upsert or the leader's own request is cut off.
RefreshFails(q) ==
    /\ mreq[q].pc \in {"recheck", "lead", "upsert"}
    /\ missed' = missed \cup flight.todo
    /\ Land("serveRead")
    /\ UNCHANGED <<service, rich, mclock, cache, stockRows, idx>>

FinishIndices(q) ==
    /\ mreq[q].pc \in {"reread", "serveRead"}
    /\ IF mreq[q].pc = "reread" THEN ReplyRows(idx, "table") ELSE ReplyRows(mreq[q].read, "failed")
    /\ mreq' = [mreq EXCEPT ![q] = Free]
    /\ UNCHANGED <<service, rich, mclock, cache, stockRows, idx, flight, missed>>

-----------------------------------------------------------------------------
\* The steps that send a response, and those that send none.
Responding ==
    \E q \in MReqs :
        \/ \E s \in Symbols, r \in Ranges : LookUp(q, s, r)
        \/ FetchFails(q) \/ Store(q) \/ ReadIndices(q) \/ FinishIndices(q)
Silent ==
    \/ MTick
    \/ \E q \in MReqs :
          \/ Answer(q) \/ JoinRefresh(q) \/ Recheck(q) \/ RefreshFails(q)
          \/ \E got \in SUBSET Codes : QuotesArrive(q, got)
          \/ \E c \in Codes, open \in BOOLEAN : UpsertIndex(q, c, open)

MarketNext == Responding \/ (Silent /\ reply' = NoReply)

MarketSpec == MarketInit /\ [][MarketNext]_marketVars

-----------------------------------------------------------------------------
(* Properties.                                                             *)

\* Nobody waits for a refresh that is not under way, whoever led it and however
\* it ended.
WaitersHaveLeader ==
    \A q \in MReqs : mreq[q].pc = "wait" =>
        flight.leader \in MReqs /\ mreq[flight.leader].pc \in {"recheck", "lead", "upsert"}

\* Types of every variable, and that who waits is waited for.
MarketTypeOK ==
    /\ service \in Services /\ rich \in BOOLEAN /\ mclock \in Nat
    /\ DOMAIN cache = Slots /\ stockRows \subseteq Symbols
    /\ \A k \in Slots : cache[k].fetched \in Int /\ cache[k].at \in Int
    /\ \A c \in Codes : idx[c] \in [at : Int, stamp : Int]
    /\ missed \subseteq Codes /\ flight.todo \subseteq Codes
    /\ WaitersHaveLeader

\* A response that does not call itself stale carries data the upstream gave
\* less than a lifetime and a timeout ago, although overlapping fetches may be
\* stored in the wrong order; the cache never exceeds its cap; and the data is
\* for the range that was asked for, except that a stock snapshot answers every
\* range from the one that was fetched.
CachedDataIsRecent ==
    /\ reply.source \in {"memory_cache", "yahoo_chart"} =>
         /\ reply.when - reply.at <= FreshFor + FetchTimeout
         /\ service = "hist" \/ (service = "snap" /\ reply.source = "yahoo_chart")
               => reply.range = reply.asked
    /\ service \in {"hist", "snap"} => Cardinality({k \in Slots : cache[k] # NoEntry}) <= MaxEntries

\* An index that GetMarketIndices serves without reporting a failure is older
\* than indicesStaleAfter only if the last refresh did not bring it, or not yet: freshness
\* is judged by the newest row alone, so one refreshed index hides the others.
StaleIndexHasCause ==
    reply.source = "table" =>
        \A c \in Codes : reply.when - reply.rows[c].at > StaleAfter + FetchTimeout => c \in reply.missed
=============================================================================
