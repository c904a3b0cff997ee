----------------------------- MODULE MCPlatform -----------------------------
(***************************************************************************)
(* The parts of the platform that share no table with each other, checked  *)
(* side by side: a behaviour exercises one of them, its focus, while the   *)
(* others stay in one initial state.                                       *)
(***************************************************************************)
EXTENDS OAuth, Boot, Market, Crawl, Series, Reports, Edge, TLC

CONSTANTS
    Parts,                    \* the parts that may be the focus
    u1, l1, l2, p1,           \* redirect URIs: https, loopback, loopback, http elsewhere
    b1,                       \* a base URL
    k1,                       \* a signing key
    c1, c2                    \* security codes

ASSUME PlatformAssumption ==
    Parts \subseteq {"oauth", "boot", "market", "crawl", "series", "reports", "edge"}

VARIABLE focus

platformVars == <<oauthVars, bootVars, marketVars, crawlVars, seriesVars, reportVars, edgeVars, focus>>

-----------------------------------------------------------------------------
(* OAuth *)
MCRegLists == {{l1}, {u1, p1}}
MCDocLists == {{u1}, {l1}, {u1, p1}}
MCAsks == {{}, Scopes}
MCWorkloads == {{"doc", "publish", "consent"}, {"register", "consent", "token", "revoke"},
                {"register", "consent", "token", "restart"}}

(* Boot *)
MCLegacies == {{}, {"tables"}}
MCFlaws == {{}, {"noColumn"}, {"snapDups", "orderDups"}}
MCSrcVersions == {{}, {1, 2, 3}}
MCSrcRows == {{1, 2}}

(* Crawl *)
Disclosed(s, v) == [stock |-> s, val |-> v]
MCDisclosures == {<<Disclosed("b", 1)>>, <<Disclosed("a", 1), Disclosed("a", 2)>>}
MCMaxCrawls == [series |-> 2, batch |-> 1, holdings |-> 2]
MCMaxChanges == [series |-> 3, batch |-> 2, holdings |-> 2]
MCScope == [series |-> {c1}, batch |-> {c1, c2}, holdings |-> {c1}]

(* Series *)
SeqUpTo(S, n) == UNION {[1..k -> S] : k \in 0..n}
MCNavTables == {<<a, b>> : a \in [1..3 -> {NoNav, 0, 3}],
                           b \in {<<NoNav, NoNav, 2>>, <<2, NoNav, NoNav>>, <<NoNav, 2, 2>>}}
Moves == {[date |-> d, shares |-> n, cash |-> -n] : d \in 1..3, n \in {1, -1}}
ByDate(S) == {t \in S : \A i \in 1..(Len(t) - 1) : t[i].date <= t[i + 1].date}
MCTxTables == {<<a, b>> : a \in ByDate(SeqUpTo(Moves, 2)), b \in SeqUpTo({m \in Moves : m.shares = 1}, 1)}
MCNavSeqs == SeqUpTo(1..3, 5)
MCPriceSeqs == {[i \in DOMAIN s |-> [month |-> m[i], nav |-> s[i]]] :
                   s \in SeqUpTo({1, 2, 4}, 5) \ {<<>>}, m \in {<<1, 1, 2, 3, 3>>}}
MCPlans == [mask : SeqUpTo({[lo |-> 1, hi |-> 1], [lo |-> 7, hi |-> 7], [lo |-> 2, hi |-> 4], Junk}, 2),
            start : {0, 3, 8}, end : {0, 3, 5}]
MCChanges == {-900, -800, -500, -300, -100, -99, 0, 99, 100, 299, 300, 500, 900}
MCQueries == SeqUpTo({"/", "*", "?"}, 6) \cup SeqUpTo({"$", "t", "?"}, 6)
             \cup SeqUpTo({"'", "i", "?"}, 5) \cup SeqUpTo({"-", "n", "?", "'"}, 4)

(* Reports *)
Position(held, pid, type, value, pnl) ==
    [held |-> held, pid |-> pid, type |-> type, value |-> value, pnl |-> pnl,
     worth |-> IF value = Null THEN 40 ELSE value]
MCPositions == {Position(TRUE, Null, Null, 100, -5), Position(TRUE, 1, "stock", 233, -5),
                Position(TRUE, 1, "fund", Null, 7), Position(FALSE, 1, "fund", 50, 7),
                Position(TRUE, 2, "stock", 50, -9)}
MCDetails == {Null, [type |-> "fund", market |-> "HK", ftype |-> "bond"],
              [type |-> "stock", market |-> "", ftype |-> ""]}
HoldingRow(s, w, d) == [stock |-> s, weight |-> w, date |-> d]
MCHoldingSets == {{}, {HoldingRow(1, 60, 1), HoldingRow(2, 33, 1)},
                  {HoldingRow(1, 90, 1), HoldingRow(2, 55, 2), HoldingRow(3, 0, 2)}}
MCAnswers == {{HoldingRow(1, 60, 1), HoldingRow(2, 33, 1)}, {HoldingRow(2, 45, 1), HoldingRow(3, 30, 1)}}
MCSectorMaps == {{}, {<<1, "tech">>, <<2, "tech">>, <<2, "bank">>}}
TradeRow(i, f, k, d) == [id |-> i, fund |-> f, kind |-> k, days |-> d]
MCTradeRows == {TradeRow(1, 1, "auto", 1), TradeRow(2, 1, "manual", Null), TradeRow(3, 2, "auto", 2)}

(* Edge *)
Sent(route, from, hops, forged, bearer) ==
    [route |-> route, from |-> from, hops |-> hops, forged |-> forged, bearer |-> bearer,
     cookie |-> TRUE, unsafe |-> TRUE, crossSite |-> FALSE, origin |-> "listed",
     csrf |-> TRUE, edgeKey |-> FALSE]
ByEdgeKey(r) == [r EXCEPT !.csrf = FALSE, !.edgeKey = TRUE]
MCAdjusts == {Sent("adjust", "x", <<"proxy", "proxy">>, <<"y">>, NoBearer)}
MCTraffics ==
    {MCAdjusts,
     {Sent("mcp", "x", <<"proxy">>, <<"y">>, "operator"), Sent("mcp", "x", <<>>, <<"y">>, "junk")},
     {Sent("mcp", "y", <<"proxy">>, <<>>, "jwt"), Sent("health", "y", <<"proxy">>, <<>>, NoBearer)},
     {ByEdgeKey(Sent("write", "y", <<>>, <<>>, NoBearer)), Sent("report", "y", <<"proxy">>, <<>>, NoBearer)},
     {Sent("oauth", "x", <<"proxy">>, <<"proxy">>, NoBearer), Sent("admin", "y", <<"proxy">>, <<>>, "operator")}}
MCCost == [l \in Limiters |-> 2]
MCBurst == [l \in Limiters |-> 4]

-----------------------------------------------------------------------------
\* The one initial state of a part that is not the focus.
OAuthAtRest  == workload = {"doc", "publish", "consent"} /\ base = b1 /\ ~allowWrite /\ doc = [d \in Docs |-> {u1}]
BootAtRest   == driver = "sqlite" /\ have = {} /\ versions = {} /\ flaws = {} /\ src.versions = {}
MarketAtRest == service = "fx" /\ ~rich
CrawlAtRest  == work = "series" /\ ~pg
SeriesAtRest == job = "drawdown" /\ input = <<>> /\ output = Pending
ReportsAtRest ==
    /\ rkind = "allocation" /\ position = [f \in RFunds |-> Position(FALSE, 1, "fund", 50, 7)]
    /\ detail = [f \in RFunds |-> Null] /\ holding = [f \in RFunds |-> {}]
    /\ sectorMap = {} /\ trades = {}
    /\ rpc = "start" /\ rep = <<>> /\ rwrites = 0 /\ written = {}
EdgeAtRest == traffic = MCAdjusts

\* The two base URLs are interchangeable; write access is there until a
\* restart takes it away.  Only an import into PostgreSQL reads its source; a
\* versioned one is imported into a new database.
OAuthCases == base = b1 /\ ("doc" \notin workload => allowWrite)
BootCases  == src.versions = {} \/ (driver = "pg" /\ have = {})

PlatformInit ==
    /\ focus \in Parts
    /\ OAuthInit /\ (IF focus = "oauth" THEN OAuthCases ELSE OAuthAtRest)
    /\ BootInit /\ (IF focus = "boot" THEN BootCases ELSE BootAtRest)
    /\ MarketInit /\ (focus = "market" \/ MarketAtRest)
    /\ CrawlInit /\ (focus = "crawl" \/ CrawlAtRest)
    /\ IF focus = "series" THEN SeriesInit ELSE SeriesAtRest
    /\ IF focus = "reports" THEN ReportsInit ELSE ReportsAtRest
    /\ EdgeInit /\ (focus = "edge" \/ EdgeAtRest)

PlatformNext ==
    \/ /\ focus = "oauth" /\ OAuthNext
       /\ UNCHANGED <<bootVars, marketVars, crawlVars, seriesVars, reportVars, edgeVars, focus>>
    \/ /\ focus = "boot" /\ BootNext
       /\ UNCHANGED <<oauthVars, marketVars, crawlVars, seriesVars, reportVars, edgeVars, focus>>
    \/ /\ focus = "market" /\ MarketNext
       /\ UNCHANGED <<oauthVars, bootVars, crawlVars, seriesVars, reportVars, edgeVars, focus>>
    \/ /\ focus = "crawl" /\ CrawlNext
       /\ UNCHANGED <<oauthVars, bootVars, marketVars, seriesVars, reportVars, edgeVars, focus>>
    \/ /\ focus = "series" /\ RunSeries
       /\ UNCHANGED <<oauthVars, bootVars, marketVars, crawlVars, reportVars, edgeVars, focus>>
    \/ /\ focus = "reports" /\ ReportsNext
       /\ UNCHANGED <<oauthVars, bootVars, marketVars, crawlVars, seriesVars, edgeVars, focus>>
    \/ /\ focus = "edge" /\ EdgeNext
       /\ UNCHANGED <<oauthVars, bootVars, marketVars, crawlVars, seriesVars, reportVars, focus>>

PlatformSpec == PlatformInit /\ [][PlatformNext]_platformVars

\* Every variable of the part in focus has its type: requests, rows, caches, reports.
PlatformTypeOK ==
    CASE focus = "oauth" -> OAuthTypeOK  [] focus = "boot"   -> BootTypeOK
      [] focus = "market" -> MarketTypeOK [] focus = "crawl" -> CrawlTypeOK
      [] focus = "series" -> SeriesTypeOK [] focus = "reports" -> ReportsTypeOK
      [] focus = "edge"   -> EdgeTypeOK

\* No cache outlives its lifetime by more than a fetch takes, neither the
\* market data caches nor the cache of client metadata documents.
CachesAreRecent == CachedDataIsRecent /\ DocCacheBounded

\* Requests and processes are drawn from one set.
Symmetry == Permutations(OReqs)
=============================================================================
