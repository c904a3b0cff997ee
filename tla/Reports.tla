------------------------------- MODULE Reports -------------------------------
(***************************************************************************)
(* The facts-only reports of the portfolio service: the allocation         *)
(* (allocation.go), the summary (summary.go) and the look-through of funds *)
(* to stocks (penetration.go, penetration_builders.go).                    *)
(*                                                                         *)
(* A report is several queries, and no transaction holds them together:    *)
(* between two of them a rebuild of a snapshot, an edit of a security, a   *)
(* crawl of holdings or a new trade may commit.  Each query is one step;   *)
(* written records the tables that changed since the report began.         *)
(*                                                                         *)
(* Amounts are in cents, weights of holdings in percent, the percentages   *)
(* of a report in hundredths of a percent (round2).  A security code is a  *)
(* number, for the ORDER BY that falls back on it.  Labels, names, briefs  *)
(* and the LIMITs no table reaches are left out.                           *)
(***************************************************************************)
EXTENDS Integers, Sequences, FiniteSets, FiniteSetsExt

CONSTANTS
    ReportKinds,  \* reports under study
    NRFunds,      \* rows of portfolio_snapshot
    Positions,    \* what such a row may hold
    Details,      \* what fund_details may hold for it, Null for no row
    HoldingSets,  \* what fund_holdings may hold for it: sets of [stock, weight, date]
    Answers,      \* what a crawl may be told of it: rows of one date, the last per stock
    SectorMaps,   \* contents of sector_map: sets of <<stock, sector>>
    TradeRows,    \* rows transactions may hold: [id, fund, kind, days]
    Null,         \* SQL's
    Portfolio,    \* the portfolio asked for
    ListLimit,    \* options.Limit
    MaxWrites     \* bound on writes during a report

\* A security may have no details row and no disclosure, the sector map may
\* be empty.
ASSUME ReportsAssumption ==
    /\ Null \in Details /\ {} \in HoldingSets /\ {} \in SectorMaps
    /\ NRFunds \in Nat /\ MaxWrites \in Nat /\ ListLimit \in Nat

\* The value of a holding is its shares times its NAV, so what is held is not
\* worth less than nothing, neither as stored (value) nor as the product of
\* the two columns (worth).
ASSUME PositionsAssumption ==
    /\ Null \notin Int
    /\ \A p \in Positions :
          /\ p.value \in Int \cup {Null} /\ p.pnl \in Int \cup {Null}
          /\ p.held => {p.value, p.worth} \subseteq Nat \cup {Null}

ASSUME TradesAssumption == IsFiniteSet(TradeRows)

SumWeights(rows) == SumFunction([r \in rows |-> r.weight])

\* Rows of fund_holdings.  A weight is whatever the upstream page says: nothing
\* bounds one, nor the sum of those of a date.
DisclosedRows == UNION (HoldingSets \cup Answers)
ASSUME HoldingsAssumption ==
    /\ IsFiniteSet(DisclosedRows)
    /\ \A r \in DisclosedRows : r.stock \in Int /\ r.weight \in Int /\ r.date \in Int

VARIABLES
    rkind, rpc,       \* the report asked for, the query it is at
    position, detail, \* portfolio_snapshot, fund_details
    holding,          \* fund_holdings
    sectorMap,        \* sector_map
    trades,           \* transactions
    rep,              \* what the queries so far returned
    rwrites, written  \* history: writes, and the tables written since the report began

reportVars == <<rkind, rpc, position, detail, holding, sectorMap, trades, rep, rwrites, written>>
tables     == <<position, detail, holding, sectorMap, trades>>

RFunds == 1..NRFunds

\* round2 of 100 * a / b, in hundredths.
round2(a, b) == (2 * a + b) \div (2 * b)

\* COALESCE of a column.
Or(x, y) == IF x = Null THEN y ELSE x

\* A column of the LEFT JOIN with fund_details.
Joined(f, column) == IF detail[f] = Null THEN Null ELSE detail[f][column]
\* NULLIF(column, '')
Filled(f, column) == IF Joined(f, column) = "" THEN Null ELSE Joined(f, column)

\* COALESCE(portfolio_id, 1) = ?
InPortfolio == {f \in RFunds : Or(position[f].pid, 1) = Portfolio}
\* ... AND held_shares > 0.001
HeldRows == {f \in InPortfolio : position[f].held}

\* SUM skips NULL.
SumValue(fs) == SumFunction([f \in fs |-> Or(position[f].value, 0)])
SumPNL(fs)   == SumFunction([f \in fs |-> Or(position[f].pnl, 0)])

\* The rows of a GROUP BY: the members of fs with each key that occurs.
GroupBy(fs, Key(_)) == [k \in {Key(f) : f \in fs} |-> {f \in fs : Key(f) = k}]

ReportsInit ==
    /\ rkind \in ReportKinds
    /\ position \in [RFunds -> Positions]
    /\ detail \in [RFunds -> IF rkind = "summary" THEN {Null} ELSE Details]
    /\ holding \in [RFunds -> IF rkind = "penetration" THEN HoldingSets ELSE {{}}]
    /\ sectorMap \in IF rkind = "penetration" THEN SectorMaps ELSE {{}}
    /\ trades \in IF rkind = "summary" THEN SUBSET TradeRows ELSE {{}}
    /\ rpc = "start" /\ rep = <<>> /\ rwrites = 0 /\ written = {}

-----------------------------------------------------------------------------
(* What may commit between two queries (what committed before the first is *)
(* an initial state)                                                       *)

Commit(table) ==
    /\ rwrites < MaxWrites /\ rpc \notin {"start", "done"}
    /\ rwrites' = rwrites + 1
    /\ written' = written \cup {table}
    /\ UNCHANGED <<rkind, rpc, rep>>

\* recalcFund and its kin rebuild one row of portfolio_snapshot.
SnapshotRebuilt ==
    /\ Commit("position")
    /\ \E f \in RFunds, p \in Positions : position' = [position EXCEPT ![f] = p]
    /\ UNCHANGED <<detail, holding, sectorMap, trades>>

\* SecurityWriter.Update, Create.
SecurityEdited ==
    /\ Commit("detail") /\ rkind # "summary"
    /\ \E f \in RFunds, d \in Details \ {Null} : detail' = [detail EXCEPT ![f] = d]
    /\ UNCHANGED <<position, holding, sectorMap, trades>>

\* upsertFundHoldings: the rows of the answer's date go, then its rows come, in
\* place of those of the same stock and date.
WithoutDates(rows, answer) == {r \in rows : \A q \in answer : q.date # r.date}
Upserted(rows, answer) ==
    {r \in rows : \A q \in answer : q.date # r.date \/ q.stock # r.stock} \cup answer

\* A rewrite is one transaction (g = h).  On PostgreSQL two of them can overlap:
\* neither deletes the rows of the other, so that the union of both answers stays.
HoldingsRewritten ==
    /\ Commit("holding") /\ rkind = "penetration"
    /\ \E f \in RFunds, g, h \in Answers :
          holding' = [holding EXCEPT ![f] =
                         Upserted(Upserted(WithoutDates(WithoutDates(@, g), h), g), h)]
    /\ UNCHANGED <<position, detail, sectorMap, trades>>

TradeAdded ==
    /\ Commit("trade") /\ rkind = "summary"
    /\ \E t \in TradeRows \ trades : trades' = trades \cup {t}
    /\ UNCHANGED <<position, detail, holding, sectorMap>>

\* One query: what it returns joins the report.
Query(kind, at, next, result) ==
    /\ rkind = kind /\ rpc = at
    /\ rpc' = next
    /\ rep' = Append(rep, result)
    /\ UNCHANGED <<rkind, tables, rwrites, written>>

-----------------------------------------------------------------------------
(* GetAllocation: a total, three groupings                                 *)

AllocationTotal == Query("allocation", "start", "type", SumValue(HeldRows))

typeKey(f) == Or(position[f].type, Or(Joined(f, "type"), "fund"))
marketKey(f) == Or(Filled(f, "market"), IF typeKey(f) = "fund" THEN "CN" ELSE "")
fundTypeKey(f) == Or(Filled(f, "ftype"), "unclassified")

allocationByType     == GroupBy(HeldRows, typeKey)
allocationByMarket   == GroupBy(HeldRows, marketKey)
allocationByFundType == GroupBy(HeldRows, fundTypeKey)

\* A bucket's key as marketLabels renames it: no two raw keys share one.
\* Buckets without value are dropped.
bucketizeAllocationRows(groups, total) ==
    [k \in {g \in DOMAIN groups : SumValue(groups[g]) > 0} |->
        [value  |-> SumValue(groups[k]),
         count  |-> Cardinality(groups[k]),
         weight |-> IF total > 0 THEN round2(SumValue(groups[k]) * 10000, total) ELSE 0]]

AllocationByType == Query("allocation", "type", "market",
                          bucketizeAllocationRows(allocationByType, rep[1]))
AllocationByMarket == Query("allocation", "market", "ftype",
                            bucketizeAllocationRows(allocationByMarket, rep[1]))
AllocationByFundType == Query("allocation", "ftype", "flags",
                              bucketizeAllocationRows(allocationByFundType, rep[1]))

\* bucketWeight
WeightOf(b, k) == IF k \in DOMAIN b THEN b[k].weight ELSE 0
\* The weight of the first bucket in order of value.
LeadingWeight(b) ==
    IF DOMAIN b = {} THEN 0
    ELSE b[CHOOSE k \in DOMAIN b : \A j \in DOMAIN b : b[j].value <= b[k].value].weight

allocationRiskFlags ==
    {flag \in {"stock", "market", "theme"} :
        \/ flag = "stock" /\ WeightOf(rep[2], "stock") > 8000
        \/ flag = "market" /\ LeadingWeight(rep[3]) > 7000
        \/ flag = "theme" /\ LeadingWeight(rep[4]) > 5000}

AllocationFlags == Query("allocation", "flags", "done", allocationRiskFlags)

-----------------------------------------------------------------------------
(* GetSummary: trades of the portfolio's funds, counts, contributors,      *)
(* distributions, balances                                                 *)

\* EXISTS a snapshot row of the portfolio, held or not.
Scoped == {t \in trades : t.fund \in InPortfolio}
CountBy(ts, Key(_)) == [k \in {Key(t) : t \in ts} |-> Cardinality({t \in ts : Key(t) = k})]

SummaryTrades == Query("summary", "start", "counts",
    [tx   |-> Cardinality(Scoped),
     auto |-> Cardinality({t \in Scoped : t.kind = "auto"})])

\* fillPortfolioScopedCounts
SummaryCounts == Query("summary", "counts", "contributors",
    [held |-> Cardinality(HeldRows), pnl |-> SumPNL(HeldRows), value |-> SumValue(HeldRows)])

\* ORDER BY the gain, falling back on the value, then the code.
Ahead(f, g, gain(_)) ==
    \/ gain(f) > gain(g)
    \/ gain(f) = gain(g) /\ Or(position[f].value, 0) > Or(position[g].value, 0)
    \/ /\ gain(f) = gain(g)
       /\ Or(position[f].value, 0) = Or(position[g].value, 0)
       /\ f < g
First(fs, gain(_)) == {f \in fs : \A g \in fs \ {f} : Ahead(f, g, gain)}

\* fillContributors: the best position, the worst one if it loses and is not
\* the best one too.
Gain(f) == Or(position[f].pnl, 0)
Loss(f) == -Gain(f)
fillContributors ==
    LET gainer == First(HeldRows, Gain)
        loser  == First({f \in HeldRows : Gain(f) < 0}, Loss)
    IN  [gainer |-> {<<f, Gain(f)>> : f \in gainer},
         loser  |-> {<<f, Gain(f)>> : f \in loser \ gainer}]

SummaryContributors == Query("summary", "contributors", "settlement", fillContributors)

\* fillDistributions: two queries of its own.
SummarySettlement == Query("summary", "settlement", "kinds",
    CountBy({t \in Scoped : t.days # Null}, LAMBDA t : t.days))
SummaryKinds == Query("summary", "kinds", "balances", CountBy(Scoped, LAMBDA t : t.kind))

\* fillSecurityTypeBalances
balanceKey(f) == Or(position[f].type, "fund")
SummaryBalances == Query("summary", "balances", "done",
    LET groups == GroupBy(HeldRows, balanceKey)
    IN  [k \in DOMAIN groups |-> [count |-> Cardinality(groups[k]),
                                  value |-> SumValue(groups[k]), pnl |-> SumPNL(groups[k])]])

-----------------------------------------------------------------------------
(* GetPenetration: the funds, their latest disclosures, the sectors        *)

\* penetrationFunds; a fund whose type names bonds or money is not applicable.
lookThroughType(f) == Or(Joined(f, "type"), Or(position[f].type, "fund"))
penetrationFunds ==
    LET fs == {f \in HeldRows : lookThroughType(f) = "fund"}
    IN  [f \in fs |-> [value         |-> Or(position[f].value, Or(position[f].worth, 0)),
                       notApplicable |-> Or(Joined(f, "ftype"), "") = "bond"]]

\* No fund, no further query.
PenetrationFunds ==
    Query("penetration", "start", IF DOMAIN penetrationFunds = {} THEN "done" ELSE "holdings",
          penetrationFunds)

\* Mutant of Latest: rows of every report date.
EveryDate(rows) == rows

\* penetrationLatestHoldings: of each fund the rows of its last report date.
Latest(rows) == {r \in rows : \A q \in rows : q.date <= r.date}

penetrationLatestHoldings == [f \in DOMAIN rep[1] |-> Latest(holding[f])]
PenetrationHoldings ==
    Query("penetration", "holdings", "sectors", penetrationLatestHoldings)

\* penetrationSectors: a stock that maps to one sector.
penetrationSectors ==
    [s \in {p[1] : p \in {q \in sectorMap : \A o \in sectorMap : o[1] = q[1] => o = q}} |->
        (CHOOSE p \in sectorMap : p[1] = s)[2]]
PenetrationSectors == Query("penetration", "sectors", "build", penetrationSectors)

\* The rest is computed from the three answers.  The holdings that count:
Exposed(f) == {r \in rep[2][f] : rep[1][f].value > 0 /\ r.weight > 0}
WithHoldings == {f \in DOMAIN rep[1] : Exposed(f) # {}}
LookedThrough == {r.stock : r \in UNION {Exposed(f) : f \in DOMAIN rep[1]}}
WeightIn(f, s) == SumWeights({r \in Exposed(f) : r.stock = s})
\* agg.WeightPct, and agg.Value in hundredths of a cent.
AggWeight(s) == SumFunction([f \in DOMAIN rep[1] |-> WeightIn(f, s)])
AggValue(s) == SumFunction([f \in DOMAIN rep[1] |-> rep[1][f].value * WeightIn(f, s)])
\* What several stocks carry.
SumAggValue(ss) == SumFunction([s \in ss |-> AggValue(s)])
\* report.TotalPortfolioValueCNY
LookedThroughValue == SumFunction([f \in DOMAIN rep[1] |-> rep[1][f].value])
PctOfTotal(v, scale) == IF LookedThroughValue = 0 THEN 0
                        ELSE round2(v * scale, LookedThroughValue)

\* buildPenetrationStocks: in the order asked for, the first ones.
buildPenetrationStocks(sortBy) ==
    LET Rank(s) == IF sortBy = "weight_pct" THEN AggWeight(s) ELSE 0
        Cents(s) == round2(AggValue(s), 100)
        Before(s, t) ==
            \/ Rank(s) > Rank(t)
            \/ Rank(s) = Rank(t) /\ Cents(s) > Cents(t)
            \/ Rank(s) = Rank(t) /\ Cents(s) = Cents(t) /\ s < t
        listed == {s \in LookedThrough :
                      Cardinality({t \in LookedThrough : Before(t, s)}) < ListLimit}
    IN  [s \in listed |-> [value |-> Cents(s), pct |-> PctOfTotal(AggValue(s), 100)]]

\* buildPenetrationSectors
SectorOf(s) == IF s \in DOMAIN rep[3] THEN rep[3][s] ELSE "other"
buildPenetrationSectors ==
    [x \in {SectorOf(s) : s \in LookedThrough} |->
        LET cents == round2(SumAggValue({s \in LookedThrough : SectorOf(s) = x}), 100)
        IN  [value |-> cents, pct |-> PctOfTotal(cents, 10000)]]

\* buildUnavailableFunds
buildUnavailableFunds == {f \in DOMAIN rep[1] : rep[1][f].notApplicable \/ Exposed(f) = {}}

\* buildPenetrationReportDates
buildPenetrationReportDates ==
    [f \in {g \in DOMAIN rep[1] : rep[2][g] # {}} |-> Max({r.date : r \in rep[2][f]})]

PenetrationBuild ==
    \E sortBy \in {"weight_pct", "market_value"} :
        Query("penetration", "build", "done",
              [found       |-> Cardinality(LookedThrough),
               covered     |-> WithHoldings,
               stocks      |-> buildPenetrationStocks(sortBy),
               sectors     |-> buildPenetrationSectors,
               unavailable |-> buildUnavailableFunds,
               dates       |-> buildPenetrationReportDates])

ReportsNext ==
    \/ SnapshotRebuilt \/ SecurityEdited \/ HoldingsRewritten \/ TradeAdded
    \/ AllocationTotal \/ AllocationByType \/ AllocationByMarket \/ AllocationByFundType
    \/ AllocationFlags
    \/ SummaryTrades \/ SummaryCounts \/ SummaryContributors \/ SummarySettlement
    \/ SummaryKinds \/ SummaryBalances
    \/ PenetrationFunds \/ PenetrationHoldings \/ PenetrationSectors \/ PenetrationBuild

ReportsSpec == ReportsInit /\ [][ReportsNext]_reportVars

-----------------------------------------------------------------------------
\* Types of the tables a report reads.
ReportsTypeOK ==
    /\ rkind \in ReportKinds
    /\ position \in [RFunds -> Positions] /\ detail \in [RFunds -> Details]
    /\ holding \in [RFunds -> SUBSET DisclosedRows] /\ sectorMap \in SectorMaps
    /\ trades \subseteq TradeRows
    /\ rwrites \in 0..MaxWrites
    /\ written \subseteq {"position", "detail", "holding", "trade"}

Total(b, column) == SumFunction([k \in DOMAIN b |-> b[k][column]])
\* Two sums of n values, rounded each, of the same quantity.
Near(a, b, n) == 2 * (a - b) <= n /\ 2 * (b - a) <= n

\* Unless a snapshot was rebuilt meanwhile, each grouping of the allocation
\* distributes its total, and the weights 100 %; edits of securities move a
\* position between buckets, never out of all of them.  A concentration flag
\* is raised whenever some market or theme is above its threshold, also when
\* a rebuild tore the report.
AllocationAddsUp ==
    rkind = "allocation" /\ rpc = "done" =>
        /\ "position" \notin written =>
              \A i \in 2..4 :
                  /\ Total(rep[i], "value") = rep[1]
                  /\ rep[1] > 0 => Near(Total(rep[i], "weight"), 10000, Cardinality(DOMAIN rep[i]))
        /\ "market" \in rep[5] <=> \E k \in DOMAIN rep[3] : rep[3][k].weight > 7000
        /\ "theme" \in rep[5] <=> \E k \in DOMAIN rep[4] : rep[4][k].weight > 5000

\* Unless a snapshot was rebuilt meanwhile, the balances by type add up to
\* the counts of the header and the largest loss is among the contributors;
\* unless a trade was added too, the breakdown by trade type counts every trade.
SummaryAddsUp ==
    rkind = "summary" /\ rpc = "done" =>
        /\ \A g \in rep[3].gainer, l \in rep[3].loser : g[1] # l[1] /\ g[2] >= l[2]
        /\ "position" \notin written =>
              /\ Total(rep[6], "count") = rep[2].held
              /\ Total(rep[6], "value") = rep[2].value
              /\ Total(rep[6], "pnl") = rep[2].pnl
              /\ \A f \in HeldRows : \E c \in rep[3].gainer \cup rep[3].loser :
                    Gain(f) < 0 => c[2] <= Gain(f)
              /\ "trade" \notin written =>
                    /\ SumFunction(rep[5]) = rep[1].tx
                    /\ SumFunction(rep[4]) <= rep[1].tx

\* The weight a fund disclosed for one date, and a look-through of funds that
\* disclosed more than all they have for it: rows of an upstream answer, or of
\* two whose rewrites overlapped.
WeightOn(f, date) == SumWeights({q \in rep[2][f] : q.date = date /\ q.weight > 0})
Overdisclosed(r) == \E f \in r.covered : WeightOn(f, r.dates[f]) > 100

\* Whatever is written meanwhile, the look-through attributes to the stocks of
\* each covered fund the weight it disclosed for the date the report names,
\* never more than the funds are worth unless one of them is overdisclosed.
\* Its sectors carry what its stocks carry, every fund is covered or listed
\* as unavailable (both only when it is not applicable), and every covered
\* fund has its report date.
PenetrationAddsUp ==
    rkind = "penetration" /\ rpc = "done" /\ Len(rep) > 1 =>
        LET r == rep[4]
        IN  /\ SumAggValue(LookedThrough) =
                  SumFunction([f \in r.covered |-> rep[1][f].value * WeightOn(f, r.dates[f])])
            /\ ~Overdisclosed(r) =>
                  /\ SumAggValue(LookedThrough) <= 100 * LookedThroughValue
                  /\ Total(r.stocks, "pct") <= 10000 + Cardinality(DOMAIN r.stocks)
            /\ Near(100 * Total(r.sectors, "value"), SumAggValue(LookedThrough),
                    100 * Cardinality(DOMAIN r.sectors))
            /\ r.found <= ListLimit =>
                  Near(Total(r.sectors, "value"), Total(r.stocks, "value"),
                       Cardinality(DOMAIN r.sectors) + Cardinality(DOMAIN r.stocks))
            /\ r.covered \cup r.unavailable = DOMAIN rep[1]
            /\ \A f \in r.covered \cap r.unavailable : rep[1][f].notApplicable
            /\ r.covered \subseteq DOMAIN r.dates

\* The three reports read several queries without a transaction; their parts
\* add up to their totals unless a write they name fell in between.
ReportsAddUp == AllocationAddsUp /\ SummaryAddsUp /\ PenetrationAddsUp
=============================================================================
