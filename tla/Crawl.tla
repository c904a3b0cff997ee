------------------------------- MODULE Crawl --------------------------------
(***************************************************************************)
(* The crawls: price series into nav_history (jobs/price_refresh.go), fund *)
(* disclosures into fund_holdings (jobs/holdings_refresh.go) and the       *)
(* rebuild of every snapshot, one code at a time, as a scheduled job, an   *)
(* admin request (httpapi/admin_crawl.go) or an agent tool                 *)
(* (mcp/tools_read.go) asks for them.  All run under a context that its    *)
(* deadline or its caller may end between any two steps; requests overlap. *)
(*                                                                         *)
(* A series is the set of its dates and a disclosure a sequence of rows.   *)
(* A batch is a set of codes: its order is the order a database without    *)
(* ORDER BY returns, so any.  What a rebuild computes is in Ledger.        *)
(***************************************************************************)
EXTENDS Integers, FiniteSets, FiniteSetsExt, Sequences

CONSTANTS
    CReqs,        \* requests and jobs in flight at once
    Secs,         \* security codes with transactions
    HeldSecs,     \* held_shares > 0.001
    DetailedSecs, \* with a row in fund_details
    Stocks,       \* stock codes of a disclosure
    Disclosures,  \* what the upstream may disclose for one report date:
                  \* sequences of [stock, val], a stock possibly repeated
    Works,        \* workloads: "series" crawls prices, "batch" asks for them in
                  \* every way there is, "holdings" crawls disclosures
    StaleDays,    \* stalePriceDays
    MaxBatch,     \* heldSecuritiesMaxCodes, recalcAllMaxCodes, holdingsCrawlMaxCodes, adminListMaxRows
    SeriesCap,    \* maxNavSeriesPoints
    Scope,        \* per workload: the codes whose upstream data changes
    MaxDay,
    MaxCrawls, MaxChanges  \* bounds per workload on requests and upstream changes

VARIABLES
    work,         \* what this behaviour crawls
    pg,           \* PostgreSQL, or the one connection of SQLite
    today,
    series,       \* upstream: published dates of each code
    stored,       \* nav_history: dates of each code
    disclosed,    \* upstream: the current disclosure of each code
    slice,        \* fund_holdings of each code: tuples [stock, val, gen]
    gen,          \* generation of tuples, one per committed rewrite
    creq,         \* requests in flight
    report,       \* the response this step sends
    crawls, changes, \* requests started, upstream changes so far
    late,         \* history: dates published after a newer one
    cut,          \* history: dates the series cap has dropped
    lapped        \* history: codes whose last rewrite overlapped another

crawlVars == <<work, pg, today, series, stored, disclosed, slice, gen, creq,
               report, crawls, changes, late, cut, lapped>>
upstream == <<today, series, disclosed, changes, late>>
navStore == <<stored, cut>>
holdStore == <<slice, gen, lapped>>

Unused   == [pc |-> "free"]
NoReport == [status |-> "none"]

ASSUME CrawlAssumption ==
    /\ Works \subseteq {"series", "batch", "holdings"}
    /\ HeldSecs \subseteq Secs /\ "none" \notin Secs
    /\ \A w \in Works : Scope[w] \subseteq Secs
    /\ \A rows \in Disclosures : rows \in Seq([stock : Stocks, val : Nat])
    /\ SeriesCap \in Nat \ {0} /\ MaxDay \in Nat \ {0} /\ StaleDays \in Nat

Newest(dates) == IF dates = {} THEN 0 ELSE Max(dates)
RowsOfSlice(t) == {[stock |-> r.stock, val |-> r.val] : r \in t}

CrawlInit ==
    /\ work \in Works
    /\ pg \in IF work = "holdings" THEN BOOLEAN ELSE {FALSE}
    /\ today = 1
    /\ series = [c \in Secs |-> {}] /\ stored = [c \in Secs |-> {}]
    /\ disclosed = [c \in Secs |-> <<>>] /\ slice = [c \in Secs |-> {}]
    /\ gen = 0
    /\ creq = [q \in CReqs |-> Unused]
    /\ report = NoReport
    /\ crawls = 0 /\ changes = 0
    /\ late = {} /\ cut = {} /\ lapped = {}

-----------------------------------------------------------------------------
(* The upstream and the clock                                              *)

NextDay ==
    /\ work # "holdings" /\ today < MaxDay
    /\ today' = today + 1
    /\ UNCHANGED <<work, pg, series, disclosed, changes, late, navStore, holdStore,
                   creq, crawls>>

\* A NAV appears in the upstream series: usually today's, but a point the
\* parser discards as an outlier may be corrected later.
Publish(c, d) ==
    /\ work # "holdings" /\ changes < MaxChanges[work]
    /\ d \in (1..today) \ series[c]
    /\ series' = [series EXCEPT ![c] = @ \cup {d}]
    /\ late' = IF d < Newest(series[c]) THEN late \cup {<<c, d>>} ELSE late
    /\ changes' = changes + 1
    /\ UNCHANGED <<work, pg, today, disclosed, navStore, holdStore, creq, crawls>>

Disclose(c, rows) ==
    /\ work = "holdings" /\ changes < MaxChanges[work]
    /\ rows # disclosed[c]
    /\ disclosed' = [disclosed EXCEPT ![c] = rows]
    /\ changes' = changes + 1
    /\ UNCHANGED <<work, pg, today, series, late, navStore, holdStore, creq, crawls>>

-----------------------------------------------------------------------------
(* What is crawled                                                         *)

\* queryMissingNAVSecurities(held) and queryStaleSecurities: both join
\* fund_details and the held positions.
MissingNAV == {c \in HeldSecs \cap DetailedSecs : stored[c] = {}}
StaleNAV == {c \in HeldSecs \cap DetailedSecs :
                stored[c] # {} /\ today - Max(stored[c]) > StaleDays}

\* The one selection of the job, the endpoint and the tool.
RecommendedRefreshCodes == StaleNAV \cup MissingNAV

\* capCodes: at most MaxBatch of a list, whichever come first.
capCodes(list) ==
    {kept \in SUBSET list : Cardinality(kept) = Min({Cardinality(list), MaxBatch})}

\* What each caller can ask for: one code, or a list.  The scheduler asks
\* for lists only, and rebuilds no snapshots.  REST stores what the tool
\* stores, so it is asked in the workload about responses only.
Kinds(via) ==
    (CASE work = "holdings" -> {"single", "holdings"}
       [] work = "series"   -> {"single"}
       [] OTHER             -> {"stale", "held", "recalc"})
    \ (CASE via = "job" -> {"single", "recalc"}
         [] via = "rest" /\ work # "batch" -> {"single", "holdings"}
         [] OTHER -> {})

\* What a request of this kind has to cover.
DueCodes(kind) == CASE kind = "stale"  -> {RecommendedRefreshCodes}
                    [] kind = "recalc" -> {Secs}
                    [] kind = "single" -> {{c} : c \in Scope[work]}
                    [] OTHER           -> {HeldSecs}

\* RefreshStaleHeld, RefreshAllHeld, CrawlAllHeld, RecalcAllSnapshots and the
\* handlers before them: the list is taken, then worked off.
Request(q, via, kind) ==
    /\ creq[q] = Unused /\ crawls < MaxCrawls[work]
    /\ kind \in Kinds(via)
    /\ \E due \in DueCodes(kind) : \E list \in capCodes(due) :
          creq' = [creq EXCEPT ![q] =
              [pc |-> "next", via |-> via, kind |-> kind, due |-> due,
               base |-> [c \in Secs |-> Newest(series[c])], dropped |-> due \ list,
               todo |-> list, code |-> "none", got |-> {}, since |-> 0, del |-> {},
               overlap |-> FALSE, done |-> {}, failed |-> {}, ctx |-> "live"]]
    /\ crawls' = crawls + 1
    /\ UNCHANGED <<work, pg, upstream, navStore, holdStore>>

\* The request deadline (REST, jobs), a client that goes away, or Stop.
CtxEnds(q, how) ==
    /\ creq[q] # Unused /\ creq[q].ctx = "live"
    /\ how = "deadline" => creq[q].via # "mcp"
    /\ creq' = [creq EXCEPT ![q].ctx = how]
    /\ UNCHANGED <<work, pg, upstream, navStore, holdStore, crawls>>

-----------------------------------------------------------------------------
(* One code                                                                *)

Alive(q) == creq[q].ctx = "live"

\* On SQLite a transaction holds the only connection.
ConnFree(q) == pg \/ \A o \in CReqs \ {q} : creq[o].pc # "rewrite"

\* RunCodeBatch, CrawlAllHeld and RecalcAllSnapshots: ctx is checked before
\* each code.
NextCode(q, c) ==
    /\ creq[q].pc = "next" /\ c \in creq[q].todo /\ Alive(q)
    /\ creq' = [creq EXCEPT ![q] =
                   [creq[q] EXCEPT !.pc = IF creq[q].kind = "recalc" THEN "recalc" ELSE "fetch",
                                   !.todo = @ \ {c}, !.code = c]]
    /\ UNCHANGED <<work, pg, upstream, navStore, holdStore, crawls>>

\* A code is behind its request, done or failed.
Settled(q) == [creq[q] EXCEPT !.pc = "next", !.code = "none", !.got = {}, !.since = 0,
                              !.del = {}, !.overlap = FALSE]
Ok(q)  == [creq EXCEPT ![q] = [Settled(q) EXCEPT !.done = @ \cup {creq[q].code}]]
Bad(q) == [creq EXCEPT ![q] = [Settled(q) EXCEPT !.failed = @ \cup {creq[q].code}]]

\* Any statement or upstream call of a code may fail; under an ended context
\* it must.  A rewrite that fails is rolled back.
CodeFails(q) ==
    /\ creq[q].pc \in {"fetch", "since", "store", "recalc", "match", "begin", "rewrite"}
    /\ creq' = Bad(q)
    /\ UNCHANGED <<work, pg, upstream, navStore, holdStore, crawls>>

\* FetchHistory: no point at all is a success for the caller when the
\* source reports it as one.
FetchHistory(q) ==
    LET c == creq[q].code IN
    /\ creq[q].pc = "fetch" /\ work # "holdings" /\ Alive(q)
    /\ creq' = IF series[c] = {} THEN Ok(q)
               ELSE [creq EXCEPT ![q] = [creq[q] EXCEPT !.pc = "since", !.got = series[c]]]
    /\ UNCHANGED <<work, pg, upstream, navStore, holdStore, crawls>>

\* latestNavDate and filterPointsSince: nothing on or after the newest
\* stored date means up to date.
LatestNavDate(q) ==
    LET since  == Newest(stored[creq[q].code])
        points == {d \in creq[q].got : d >= since}
    IN  /\ creq[q].pc = "since" /\ Alive(q)
        /\ creq' = IF points = {} THEN Ok(q)
                   ELSE [creq EXCEPT ![q] = [creq[q] EXCEPT !.pc = "store", !.got = points,
                                                            !.since = since]]
        /\ UNCHANGED <<work, pg, upstream, navStore, holdStore, crawls>>

\* upsertNavHistory: the newest SeriesCap points, in one transaction.
UpsertNavHistory(q) ==
    LET c == creq[q].code
        kept == {d \in creq[q].got : Cardinality({e \in creq[q].got : e > d}) < SeriesCap}
    IN  /\ creq[q].pc = "store" /\ Alive(q)
        /\ stored' = [stored EXCEPT ![c] = @ \cup kept]
        /\ cut' = cut \cup ({c} \X (creq[q].got \ kept))
        /\ creq' = [creq EXCEPT ![q].pc = "recalc"]
        /\ UNCHANGED <<work, pg, upstream, holdStore, crawls>>

\* snapshot.Recalc: its own statements are those of Ledger.
RecalcSnapshot(q) ==
    /\ creq[q].pc = "recalc" /\ Alive(q)
    /\ creq' = Ok(q)
    /\ UNCHANGED <<work, pg, upstream, navStore, holdStore, crawls>>

-----------------------------------------------------------------------------
(* Disclosures                                                             *)

\* The rows a disclosure leaves behind: INSERT ... ON CONFLICT DO UPDATE in
\* order, so the last row of a stock wins.
StoredRows(rows) == {[stock |-> rows[i].stock, val |-> rows[i].val] : i \in
                    {j \in DOMAIN rows : \A k \in DOMAIN rows : k > j => rows[k].stock # rows[j].stock}}

\* FetchHoldings fails on an empty table.
FetchHoldings(q) ==
    LET c == creq[q].code IN
    /\ creq[q].pc = "fetch" /\ work = "holdings" /\ Alive(q)
    /\ disclosed[c] # <<>>
    /\ creq' = [creq EXCEPT ![q] = [creq[q] EXCEPT !.pc = "match", !.got = disclosed[c]]]
    /\ UNCHANGED <<work, pg, upstream, navStore, holdStore, crawls>>

\* fundHoldingsMatch, before and outside the transaction: as many rows as
\* the answer has, and each of them stored.
FundHoldingsMatch(q) ==
    LET rows == creq[q].got
        same == /\ Cardinality(RowsOfSlice(slice[creq[q].code])) = Len(rows)
                /\ \A i \in DOMAIN rows : rows[i] \in RowsOfSlice(slice[creq[q].code])
    IN  /\ creq[q].pc = "match" /\ Alive(q) /\ ConnFree(q)
        /\ creq' = IF same THEN Ok(q) ELSE [creq EXCEPT ![q].pc = "begin"]
        /\ UNCHANGED <<work, pg, upstream, navStore, holdStore, crawls>>

\* Mutant of DeleteHoldings: the stale slice is not deleted.
DeleteHoldingsSkipped(q) ==
    /\ creq[q].pc = "begin" /\ Alive(q) /\ ConnFree(q)
    /\ creq' = [creq EXCEPT ![q].pc = "rewrite"]
    /\ UNCHANGED <<work, pg, upstream, navStore, holdStore, crawls>>

\* upsertFundHoldings, the DELETE: it removes the tuples it can see.  Under
\* READ COMMITTED those of a rewrite that has not committed yet are not
\* among them.
DeleteHoldings(q) ==
    LET c == creq[q].code
        others == {o \in CReqs \ {q} : creq[o].pc = "rewrite" /\ creq[o].code = c}
    IN  /\ creq[q].pc = "begin" /\ Alive(q) /\ ConnFree(q)
        /\ creq' = [o \in CReqs |->
                       IF o = q THEN [creq[q] EXCEPT !.pc = "rewrite", !.del = slice[c],
                                                     !.overlap = others # {}]
                       ELSE IF o \in others THEN [creq[o] EXCEPT !.overlap = TRUE]
                       ELSE creq[o]]
        /\ UNCHANGED <<work, pg, upstream, navStore, holdStore, crawls>>

\* The INSERTs and the commit: what was not deleted stays, unless the
\* unique key (fund_code, stock_code, report_date) makes it an update.
RewriteHoldings(q) ==
    LET c    == creq[q].code
        rows == StoredRows(creq[q].got)
        kept == {r \in slice[c] \ creq[q].del : \A n \in rows : n.stock # r.stock}
    IN  /\ creq[q].pc = "rewrite" /\ Alive(q)
        /\ slice' = [slice EXCEPT ![c] =
               kept \cup {[stock |-> n.stock, val |-> n.val, gen |-> gen + 1] : n \in rows}]
        /\ gen' = gen + 1
        /\ lapped' = IF creq[q].overlap THEN lapped \cup {c} ELSE lapped \ {c}
        /\ creq' = Ok(q)
        /\ UNCHANGED <<work, pg, upstream, navStore, crawls>>

-----------------------------------------------------------------------------
(* The response                                                            *)

BatchStatus(done, failed) ==
    IF failed = {} THEN "complete" ELSE IF done = {} THEN "error" ELSE "partial"

CtxError(r) == IF r.ctx = "deadline" /\ r.via # "mcp" THEN "timeout" ELSE "error"

\* One code: its failure is the caller's.
SingleResult(r) == IF r.done # {} THEN "complete" ELSE CtxError(r)

\* refreshRunResult and the end of HoldingsRefresher.CrawlAllHeld, with the
\* handlers that know only success or an error.
RunResult(r) ==
    CASE r.todo # {} -> CtxError(r)
      [] r.failed # {} /\ r.done = {} -> "error"
      [] OTHER -> "complete"

\* Mutant of StaleResult: the deadline is not looked at after the batch.
StaleResultNoDeadline(r) ==
    IF r.via = "job" THEN RunResult(r) ELSE BatchStatus(r.done, r.failed)

\* navCrawlHandler and callCrawlNav, stale_only: an empty list is answered
\* at once; REST overlays the deadline, the tool a cancellation.
StaleResult(r) ==
    CASE r.via = "job" -> RunResult(r)
      [] r.done \cup r.failed \cup r.todo = {} -> "complete"
      [] r.via = "rest" /\ r.ctx = "deadline" -> "timeout"
      [] r.via = "mcp" /\ r.todo # {} ->
            IF r.done \cup r.failed = {} THEN "error" ELSE "partial"
      [] OTHER -> BatchStatus(r.done, r.failed)

\* RecalcAllSnapshots returns the ctx error only when nothing failed before.
RecalcResult(r) ==
    CASE r.todo # {} /\ r.failed = {} -> CtxError(r)
      [] r.via = "rest" /\ r.ctx = "deadline" -> "timeout"
      [] OTHER -> BatchStatus(r.done, r.failed)

\* The list is worked off, or ctx has ended.
Finish(q) ==
    LET r == creq[q] IN
    /\ r.pc = "next" /\ (r.todo = {} \/ ~Alive(q))
    /\ report' = [status |-> CASE r.kind = "stale" -> StaleResult(r)
                               [] r.kind = "recalc" -> RecalcResult(r)
                               [] r.kind = "single" -> SingleResult(r)
                               [] OTHER -> RunResult(r),
                  via |-> r.via, kind |-> r.kind, due |-> r.due, base |-> r.base,
                  dropped |-> r.dropped, done |-> r.done, failed |-> r.failed, ctx |-> r.ctx]
    /\ creq' = [creq EXCEPT ![q] = Unused]
    /\ UNCHANGED <<work, pg, upstream, navStore, holdStore, crawls>>

CrawlStep ==
    \/ NextDay
    \/ \E c \in Scope[work], d \in 1..MaxDay : Publish(c, d)
    \/ \E c \in Scope[work], rows \in Disclosures : Disclose(c, rows)
    \/ \E q \in CReqs :
        \/ \E via \in {"rest", "mcp", "job"}, kind \in {"single", "stale", "held", "recalc", "holdings"} :
              Request(q, via, kind)
        \/ \E how \in {"deadline", "cancelled"} : CtxEnds(q, how)
        \/ \E c \in Secs : NextCode(q, c)
        \/ CodeFails(q)
        \/ FetchHistory(q)
        \/ LatestNavDate(q)
        \/ UpsertNavHistory(q)
        \/ RecalcSnapshot(q)
        \/ FetchHoldings(q)
        \/ FundHoldingsMatch(q)
        \/ DeleteHoldings(q)
        \/ RewriteHoldings(q)

CrawlNext ==
    \/ CrawlStep /\ report' = NoReport
    \/ \E q \in CReqs : Finish(q)

CrawlSpec == CrawlInit /\ [][CrawlNext]_crawlVars

-----------------------------------------------------------------------------
(* Properties                                                              *)

\* Types of the tables and requests; a request accounts for every code it is
\* due to cover, and nothing is stored that was never published.
CrawlTypeOK ==
    /\ pg \in BOOLEAN /\ today \in 1..MaxDay
    /\ series \in [Secs -> SUBSET (1..MaxDay)] /\ stored \in [Secs -> SUBSET (1..MaxDay)]
    /\ \A c \in Secs : stored[c] \subseteq series[c]
    /\ slice \in [Secs -> SUBSET [stock : Stocks, val : Nat, gen : 1..gen]]
    /\ \A q \in CReqs : creq[q] # Unused =>
          /\ creq[q].due \subseteq Secs
          /\ creq[q].due = creq[q].dropped \cup creq[q].todo \cup creq[q].done
                           \cup creq[q].failed \cup ({creq[q].code} \ {"none"})

\* A caller told "complete" has every code the request was due to cover: each
\* was worked on with success, and its stored series reaches the date the
\* upstream had when the request came in.  The exceptions are the code list
\* cut off at its cap, the codes a crawl of all held positions leaves failed
\* behind one success, and a REST client that was no longer there to be told
\* (navCrawlHandler, callCrawlNav, refreshRunResult, RecalcAllSnapshots).
CompleteHasCause ==
    report.status = "complete" =>
        \A c \in report.due :
            \/ /\ c \in report.done
               /\ report.kind \notin {"recalc", "holdings"} => Newest(stored[c]) >= report.base[c]
            \/ c \in report.dropped
            \/ c \in report.failed /\ report.done # {}
               /\ (report.kind \in {"held", "holdings"} \/ report.via = "job")
            \/ report.kind = "stale" /\ report.via = "rest" /\ report.ctx = "cancelled"

\* Crawls are incremental, so a date missing inside a stored series is never
\* fetched again.  A published date is missing there only because the
\* upstream published it after a newer one, or because one answer was longer
\* than the series cap (filterPointsSince, upsertNavHistory); overlapping
\* crawls, failures and ended contexts leave no hole.
HoleHasCause ==
    \A c \in Secs : \A d \in series[c] \ stored[c] :
        (stored[c] # {} /\ Min(stored[c]) < d /\ d < Max(stored[c])) => <<c, d>> \in late \cup cut

\* The stored holdings of a fund are exactly those of one answer: a rewrite
\* that fails or is cut short leaves the former ones, and stocks that left
\* the fund leave the table.  Only two rewrites that overlap on PostgreSQL
\* may leave the union of two answers (upsertFundHoldings).
MixHasCause ==
    \A c \in Secs :
        \/ slice[c] = {}
        \/ \E rows \in Disclosures : RowsOfSlice(slice[c]) = StoredRows(rows)
                                     /\ Cardinality({r.gen : r \in slice[c]}) = 1
        \/ pg /\ c \in lapped

\* What the tables hold is what the upstream answered: series without holes
\* and disclosures unmixed, save for the causes named above.
StoredAsAnswered == HoleHasCause /\ MixHasCause
=============================================================================
