------------------------------- MODULE Series -------------------------------
(***************************************************************************)
(* The computations that walk a series: the portfolio timeline             *)
(* (service/portfolio/timeline.go), the drawdown and the DCA reminder of   *)
(* the alerts (service/admin/alerts.go), the backtest strategies           *)
(* (backtest*.go), the smart DCA amount (dca_compute.go) and the           *)
(* placeholder scanner under every PostgreSQL statement                    *)
(* (repository/db/open.go).  Each is sequential: a behaviour picks one and *)
(* an input, then runs it; the properties compare the result with a        *)
(* definition that does not walk.                                          *)
(*                                                                         *)
(* Dates and months are numbers; shares, NAVs and amounts are integers     *)
(* chosen so that the divisions of the code are exact.  Ratios are kept as *)
(* numerator and denominator.  Annualised returns and the Sharpe ratio are *)
(* floating point and left out.                                            *)
(***************************************************************************)
EXTENDS Integers, Sequences, FiniteSets, FiniteSetsExt

CONSTANTS
    Jobs,         \* computations under study
    NFunds, LastDate,
    YearLength,   \* dates of a year: a date d is in year d \div YearLength
    NavTables,    \* NAV of each fund and date, NoNav for no row
    TxTables,     \* per fund a sequence of [date, shares, cash], by trade time
    NavRowCap,    \* maxTimelineNavRows
    TxRowCap,     \* LIMIT of timelineTransactions
    NavSeqs,      \* series of NAVs for the drawdown
    DrawdownCap,  \* maxDrawdownNavPoints
    PriceSeqs,    \* series of [month, nav] for the backtests
    Base,         \* base amount of a backtest and of a DCA plan
    CalibMin,     \* least number of points that calibrate the grid
    Levels, Lookback, Interval,
    Costs, Prices, \* cost per share and latest NAV of a position
    Changes,      \* daily changes in hundredths of a percent
    WeekPlans,    \* DCA plans: a mask, that is parts [lo, hi] or Junk, and the
                  \* first and the last day of the plan, 0 for none
    Junk,         \* a part of a mask that is no number
    Queries       \* SQL texts as sequences of characters

VARIABLES job, input, output

seriesVars == <<job, input, output>>

SFunds == 1..NFunds
Pending == [done |-> FALSE]

\* math.Round of a/b for b > 0: half away from zero.
Round(a, b) == IF a >= 0 THEN (2 * a + b) \div (2 * b) ELSE -((2 * (-a) + b) \div (2 * b))

-----------------------------------------------------------------------------
(* GetTimeline                                                             *)

TradeDates(txs) == UNION {{txs[f][i].date : i \in DOMAIN txs[f]} : f \in SFunds}

\* A NAV of zero is a row as any other (the query does not ask for
\* unit_nav > 0).
NoNav == -1

\* CAST(date AS DATE): the date on PostgreSQL; on SQLite, where the type DATE is
\* numeric, the number the text begins with, which is the year.
Databases == {"sqlite", "pg"}
Cast(db, date) == IF db = "sqlite" THEN date \div YearLength ELSE date

\* timelineNAVRows: from the cast of the first trade on, ORDER BY date,
\* fund_code LIMIT.
timelineNAVRows(db, nav, txs) ==
    LET rows == {r \in (1..LastDate) \X SFunds :
                    /\ nav[r[2]][r[1]] # NoNav
                    /\ TradeDates(txs) # {}
                    /\ Cast(db, r[1]) >= Min({Cast(db, d) : d \in TradeDates(txs)})}
    IN  {r \in rows : Cardinality({q \in rows : \/ q[1] < r[1]
                                                \/ q[1] = r[1] /\ q[2] < r[2]}) < NavRowCap}

\* timelineTransactions: ORDER BY fund_code, trade_time LIMIT; running sums.
timelineTransactions(txs) ==
    [f \in SFunds |->
        LET before == SumFunction([g \in 1..(f - 1) |-> Len(txs[g])])
            kept   == Max({0, Min({Len(txs[f]), TxRowCap - before})})
            sums[i \in 0..kept] ==
                IF i = 0 THEN [date |-> 0, shares |-> 0, cost |-> 0]
                ELSE [date   |-> txs[f][i].date,
                      shares |-> sums[i - 1].shares + txs[f][i].shares,
                      cost   |-> sums[i - 1].cost + txs[f][i].cash]
        IN  [i \in 1..kept |-> sums[i]]]

\* sort.Strings: the members of a set in order.
Ascending(S) == [i \in 1..Cardinality(S) |-> CHOOSE d \in S : Cardinality({e \in S : e < d}) = i - 1]

\* The NAVs of a fund among the rows, by date.
navByFund(nav, rows, f) ==
    LET ds == Ascending({r[1] : r \in {q \in rows : q[2] = f}})
    IN  [i \in DOMAIN ds |-> [date |-> ds[i], nav |-> nav[f][ds[i]]]]

\* The pointer loops: consume what is dated on or before d.
Advance(points, from, d) ==
    Max({p \in from..Len(points) : \A i \in (from + 1)..p : points[i].date <= d})

\* One fund on one date: its trades, then its NAVs.
NoTimelineState == [shares |-> 0, cost |-> 0, nav |-> NoNav, tx |-> 0, np |-> 0]
CarryTo(s, points, navs, d) ==
    LET tx == Advance(points, s.tx, d)
        np == Advance(navs, s.np, d)
    IN  [shares |-> IF tx = s.tx THEN s.shares ELSE points[tx].shares,
         cost   |-> IF tx = s.tx THEN s.cost ELSE points[tx].cost,
         nav    |-> IF np = s.np THEN s.nav ELSE navs[np].nav,
         tx |-> tx, np |-> np]

GetTimeline(db, nav, txs) ==
    LET rows   == timelineNAVRows(db, nav, txs)
        points == timelineTransactions(txs)
        funds  == {r[2] : r \in rows}
        dates  == Ascending({r[1] : r \in rows})
        state[k \in 0..Len(dates)] ==
            IF k = 0 THEN [f \in funds |-> NoTimelineState]
            ELSE [f \in funds |-> CarryTo(state[k - 1][f], points[f], navByFund(nav, rows, f), dates[k])]
        held(k) == {f \in funds : state[k][f].shares > 0 /\ state[k][f].nav # NoNav}
    IN  {[date  |-> dates[k],
          value |-> SumFunction([f \in held(k) |-> state[k][f].shares * state[k][f].nav]),
          cost  |-> SumFunction([f \in held(k) |-> state[k][f].cost])] :
         k \in {j \in DOMAIN dates : held(j) # {}}}

\* Trades come by trade time, NAVs are zero or positive; a row with a NULL NAV,
\* which no writer of the table leaves and which fails the whole report, is
\* left out.
ASSUME TimelineAssumption ==
    /\ NFunds \in Nat /\ LastDate \in Nat /\ NavRowCap \in Nat \ {0} /\ TxRowCap \in Nat
    /\ YearLength \in Nat \ {0}
    /\ \A nav \in NavTables : nav \in [SFunds -> [1..LastDate -> Nat \cup {NoNav}]]
    /\ \A txs \in TxTables :
          /\ txs \in [SFunds -> Seq([date : Nat, shares : Int, cash : Int])]
          /\ \A f \in SFunds : \A i, j \in DOMAIN txs[f] : i < j => txs[f][i].date <= txs[f][j].date

-----------------------------------------------------------------------------
(* Alerts                                                                  *)

\* One point of the pass: maybe a new peak, then maybe a deeper fall.
NoDrawdown == [peak |-> -1, at |-> 0, num |-> 0, den |-> 1, from |-> 0, to |-> 0]
DrawdownStep(p, nav, at) ==
    LET newPeak == p.peak < 0 \/ nav > p.peak
        peak    == IF newPeak THEN nav ELSE p.peak
        since   == IF newPeak THEN at ELSE p.at
    IN  IF (peak - nav) * p.den > p.num * peak
        THEN [peak |-> peak, at |-> since, num |-> peak - nav, den |-> peak, from |-> since, to |-> at]
        ELSE [peak |-> peak, at |-> since, num |-> p.num, den |-> p.den, from |-> p.from, to |-> p.to]

\* maxDrawdownPct: one pass over the most recent points with a running peak.
FirstPoint(all) == Max({1, Len(all) - DrawdownCap + 1})
maxDrawdownPct(all) ==
    LET scan[k \in (FirstPoint(all) - 1)..Len(all)] ==
            IF k < FirstPoint(all) THEN NoDrawdown ELSE DrawdownStep(scan[k - 1], all[k], k)
    IN  scan[Len(all)]

\* NAVs are positive: the query asks for unit_nav > 0.
ASSUME DrawdownAssumption ==
    /\ DrawdownCap \in Nat \ {0}
    /\ \A s \in NavSeqs : s \in Seq(Nat) /\ \A i \in DOMAIN s : s[i] > 0

MaskPart(part, day) == part # Junk /\ part.lo <= day /\ day <= part.hi

\* weekdayMaskHit: the reminder; an empty mask never hits.
weekdayMaskHit(mask, day) == \E i \in DOMAIN mask : MaskPart(mask[i], day)

\* weekdayMaskHitLocal: the purchase; an empty mask means Monday to Friday.
weekdayMaskHitLocal(mask, day) ==
    IF mask = <<>> THEN day \in 1..5 ELSE \E i \in DOMAIN mask : MaskPart(mask[i], day)

ASSUME PlansAssumption == \A plan \in WeekPlans : plan.start \in Nat /\ plan.end \in Nat

\* RunDCAAutoInvest tests the dates of the plan before its mask; the alerts do
\* not read them.
InDates(plan, day) ==
    /\ plan.start # 0 => plan.start <= day
    /\ plan.end # 0 => day <= plan.end
Due(plan, day) == InDates(plan, day) /\ weekdayMaskHitLocal(plan.mask, day)
Announced(plan, day) == weekdayMaskHit(plan.mask, day)

-----------------------------------------------------------------------------
(* Backtests                                                               *)

StartPoint == [shares |-> 0, cash |-> 0, invested |-> 0, level |-> -1, month |-> -1]

BuyAt(p, nav, amount) == [p EXCEPT !.shares = @ + amount \div nav, !.cash = @ - amount,
                                   !.invested = @ + amount]
\* Mutant of SellAt: the amount asked for is credited.
SellCreditsAmount(p, nav, amount) == LET sold == Min({amount \div nav, p.shares})
                                     IN  [p EXCEPT !.shares = @ - sold, !.cash = @ + amount]

\* Never more than is held; what is sold is credited.
SellAt(p, nav, amount) == LET sold == Min({amount \div nav, p.shares})
                          IN  [p EXCEPT !.shares = @ - sold, !.cash = @ + sold * nav]

\* simDCABacktest: the first point of every month.
DCAStep(p, s, k) ==
    IF s[k].month = p.month THEN p ELSE BuyAt([p EXCEPT !.month = s[k].month], s[k].nav, Base)

\* simGridBacktest: calibrated on the first fifth; the level may be negative.
GridLevel(s, k) ==
    LET calib == Min({Len(s), Max({Len(s) \div 5, CalibMin})})
        lo == Min({s[i].nav : i \in 1..calib})
        hi == Max({s[i].nav : i \in 1..calib})
    IN  IF hi = lo THEN 0 ELSE Min({((s[k].nav - lo) * Levels) \div (hi - lo), Levels - 1})

GridStep(p, s, k) ==
    LET delta == p.level - GridLevel(s, k)
        q == [p EXCEPT !.level = GridLevel(s, k)]
    IN  IF p.level < 0 \/ delta = 0 THEN q
        ELSE IF delta > 0 THEN BuyAt(q, s[k].nav, Base * delta) ELSE SellAt(q, s[k].nav, Base * (-delta))

\* momentumPastNAV: the first point of the lookback window, else the first.
PastNAV(s, k) ==
    LET window == {i \in 1..(k - 1) : s[i].month >= s[k].month - Lookback}
    IN  IF window = {} THEN s[1].nav ELSE s[Min(window)].nav

\* simMomentumBacktest: a position at the start, then a trade per month on a
\* move of more than two percent.
MomentumStep(p, s, k) ==
    LET q == IF k = 1 THEN BuyAt(p, s[1].nav, Base) ELSE p
        n == [q EXCEPT !.month = s[k].month]
        move == (s[k].nav - PastNAV(s, k)) * 50
    IN  IF s[k].month = q.month THEN q
        ELSE IF move > PastNAV(s, k) THEN BuyAt(n, s[k].nav, Base)
        ELSE IF move < -PastNAV(s, k) THEN SellAt(n, s[k].nav, Base)
        ELSE n

\* What is missing in the fund for it to hold half the money.
Deficit(p, nav) == (p.shares * nav + p.cash) \div 2 - p.shares * nav

\* simRebalanceBacktest with half the money in the fund: every Interval
\* months, when the deviation exceeds a tenth of the base amount.
RebalanceStep(p, s, k) ==
    LET q == IF k > 1 THEN p
             ELSE [p EXCEPT !.shares = (Base \div 2) \div s[1].nav, !.cash = Base - Base \div 2,
                            !.invested = Base]
        months == s[k].month - s[1].month
        diff   == Deficit(q, s[k].nav)
        n == [q EXCEPT !.month = s[k].month]
    IN  IF ~(months > 0 /\ months % Interval = 0 /\ s[k].month # q.month) THEN q
        ELSE IF Max({diff, -diff}) * 10 <= Base THEN n
        ELSE IF diff > 0 THEN BuyAt(n, s[k].nav, diff) ELSE SellAt(n, s[k].nav, -diff)

Strategies == {"dca", "grid", "momentum", "rebalance"}
StrategyStep(strategy, p, s, k) ==
    CASE strategy = "grid" -> GridStep(p, s, k)
      [] strategy = "momentum" -> MomentumStep(p, s, k)
      [] strategy = "rebalance" -> RebalanceStep(p, s, k)
      [] OTHER -> DCAStep(p, s, k)

\* simulateBacktestStrategy: one point per NAV.
simulateBacktestStrategy(strategy, s) ==
    LET points[k \in 0..Len(s)] ==
            IF k = 0 THEN StartPoint ELSE StrategyStep(strategy, points[k - 1], s, k)
    IN  [k \in DOMAIN s |-> points[k]]

\* A month is a number of months, a NAV is positive (the query asks for
\* unit_nav > 0), and purchases come out in whole shares.
ASSUME BacktestsAssumption ==
    /\ CalibMin \in Nat \ {0} /\ Levels \in Nat \ {0}
    /\ \A s \in PriceSeqs :
          LET kept == simulateBacktestStrategy("rebalance", s)
          IN  /\ s \in Seq([month : Nat, nav : Nat \ {0}])
              /\ \A k \in DOMAIN s :
                    /\ Base % s[k].nav = 0 /\ (Base \div 2) % s[k].nav = 0
                    /\ k > 1 => Deficit(kept[k - 1], s[k].nav) % s[k].nav = 0

TotalValue(p, nav) == p.shares * nav + p.cash

\* dcaBacktestReturn, the comparison every result carries.
dcaBacktestReturn(s) ==
    LET first == {k \in DOMAIN s : k = 1 \/ s[k].month # s[k - 1].month}
    IN  [invested |-> Base * Cardinality(first),
         final |-> SumFunction([k \in first |-> Base \div s[k].nav]) * s[Len(s)].nav]

-----------------------------------------------------------------------------
(* ComputeDCAAmount.  A deviation is rounded to hundredths of a percent;   *)
(* rates are in thousandths.                                               *)

Infinite == 1000000
dcaRateTable == <<
    [lo |-> 2500, hi |-> Infinite, rate |-> 500], [lo |-> 2000, hi |-> 2500, rate |-> 525],
    [lo |-> 1500, hi |-> 2000, rate |-> 550],     [lo |-> 1000, hi |-> 1500, rate |-> 600],
    [lo |-> 750, hi |-> 1000, rate |-> 700],      [lo |-> 500, hi |-> 750, rate |-> 800],
    [lo |-> 250, hi |-> 500, rate |-> 900],       [lo |-> -250, hi |-> 250, rate |-> 1000],
    [lo |-> -500, hi |-> -250, rate |-> 1200],    [lo |-> -750, hi |-> -500, rate |-> 1400],
    [lo |-> -1000, hi |-> -750, rate |-> 1600],   [lo |-> -1500, hi |-> -1000, rate |-> 1800],
    [lo |-> -2000, hi |-> -1500, rate |-> 1900],  [lo |-> -2500, hi |-> -2000, rate |-> 1950],
    [lo |-> -Infinite, hi |-> -2500, rate |-> 2000] >>

\* The first row that contains the deviation, else 1.
computeDeviationDCARate(dev) ==
    LET hits == {i \in DOMAIN dcaRateTable : dcaRateTable[i].lo <= dev /\ dev < dcaRateTable[i].hi}
    IN  IF hits = {} THEN 1000 ELSE dcaRateTable[Min(hits)].rate

\* The first bound that holds.
computeChangePctDCARate(change) ==
    CASE change <= -800 -> 2000 [] -800 < change /\ change <= -500 -> 1600
      [] -500 < change /\ change <= -300 -> 1350 [] -300 < change /\ change <= -100 -> 1150
      [] -100 < change /\ change < 100 -> 1000 [] 100 <= change /\ change < 300 -> 850
      [] 300 <= change /\ change < 500 -> 650 [] OTHER -> 500

dcaRateSignal(rate) == IF rate > 1000 THEN "more" ELSE IF rate < 1000 THEN "less" ELSE "same"

\* The deviation of the NAV from the cost per share.
Deviation(nav, cost) == Round((nav - cost) * 10000, cost)

\* computeDCAPlanFacts.
computeDCAPlanFacts(in) ==
    LET rate == IF in.mode = "change_pct" THEN computeChangePctDCARate(in.change)
                ELSE computeDeviationDCARate(Deviation(in.nav, in.cost))
    IN  [rate |-> rate, amount |-> Round(Base * rate, 1000), signal |-> dcaRateSignal(rate)]

\* A plan is for some cents, so that an eighth of it does not round to nothing;
\* no deviation reaches the bound that stands for infinity.
ASSUME AmountsAssumption ==
    /\ Base \in Nat /\ Base >= 4
    /\ Changes \subseteq Int
    /\ \A cost \in Costs, nav \in Prices :
          /\ cost \in Nat \ {0} /\ nav \in Nat \ {0}
          /\ -Infinite <= Deviation(nav, cost) /\ Deviation(nav, cost) < Infinite

-----------------------------------------------------------------------------
(* rebind: the scanner jumps over literals and numbers what is left.  The  *)
(* end of a construct is the position after it, 0 if it has none.          *)

CharAt(q, i, c) == i <= Len(q) /\ q[i] = c

\* scanSQLString, scanQuotedIdent: a doubled quote stays inside.
QuoteEnd(q, i) ==
    LET end[j \in (i + 1)..(Len(q) + 1)] ==
            IF j > Len(q) THEN 0 ELSE IF q[j] # q[i] THEN end[j + 1]
            ELSE IF CharAt(q, j + 1, q[i]) THEN end[j + 2] ELSE j + 1
    IN  end[i + 1]

\* scanLineComment stops at the newline.
LineEnd(q, i) == Min({Len(q) + 1} \cup {j \in i..Len(q) : q[j] = "n"})

\* scanBlockComment: comments nest; end[j][depth] is the end from j on.
Opens(q, j)  == q[j] = "/" /\ CharAt(q, j + 1, "*")
Closes(q, j) == q[j] = "*" /\ CharAt(q, j + 1, "/")
BlockEnd(q, i) ==
    LET end[j \in i..(Len(q) + 1)] ==
            [depth \in Int |->
                IF j > Len(q) THEN 0
                ELSE IF Opens(q, j) THEN end[j + 2][depth + 1]
                ELSE IF Closes(q, j) THEN IF depth = 1 THEN j + 2 ELSE end[j + 2][depth - 1]
                ELSE end[j + 1][depth]]
    IN  end[i][0]

\* dollarQuoteTagAt: the length of the delimiter at i, 0 for none.
DelimiterAt(q, i) ==
    LET ends == {j \in (i + 1)..Len(q) : q[j] = "$" /\ \A k \in (i + 1)..(j - 1) : q[k] = "t"}
    IN  IF ends = {} THEN 0 ELSE Min(ends) - i + 1

\* scanDollarQuote: up to the next occurrence of the same delimiter.
DollarEnd(q, i, len) ==
    LET ends == {j \in (i + len)..(Len(q) - len + 1) :
                    SubSeq(q, j, j + len - 1) = SubSeq(q, i, i + len - 1)}
    IN  IF ends = {} THEN 0 ELSE Min(ends) + len

\* The position after what begins at i.
After(q, i) ==
    CASE q[i] \in {"'", "i"} -> QuoteEnd(q, i)
      [] q[i] = "-" /\ CharAt(q, i + 1, "-") -> LineEnd(q, i)
      [] Opens(q, i) -> BlockEnd(q, i)
      [] q[i] = "$" /\ DelimiterAt(q, i) > 0 -> DollarEnd(q, i, DelimiterAt(q, i))
      [] OTHER -> i + 1

rebind(q) ==
    LET scan[i \in 0..(Len(q) + 1)] ==   \* the parameters from position i on; 0 is an error
            IF i = 0 THEN [ok |-> FALSE, params |-> {}]
            ELSE IF i > Len(q) THEN [ok |-> TRUE, params |-> {}]
            ELSE LET rest == scan[After(q, i)]
                 IN  IF q[i] = "?" THEN [ok |-> rest.ok, params |-> rest.params \cup {i}] ELSE rest
    IN  IF \E i \in DOMAIN q : q[i] = "?" THEN scan[1] ELSE [ok |-> TRUE, params |-> {}]

\* A statement is a finite text.
ASSUME QueriesAssumption == \A q \in Queries : q \in Seq({q[i] : i \in DOMAIN q})

-----------------------------------------------------------------------------
AmountInputs ==
    [mode : {"nav_deviation"}, cost : Costs, nav : Prices, change : {0}]
    \cup [mode : {"change_pct"}, cost : {1}, nav : {1}, change : Changes]

SeriesInit ==
    /\ job \in Jobs
    /\ input \in CASE job = "timeline" -> [db : Databases, nav : NavTables, txs : TxTables]
                   [] job = "drawdown" -> NavSeqs
                   [] job = "reminder" -> WeekPlans
                   [] job = "backtest" -> [strategy : Strategies, prices : PriceSeqs]
                   [] job = "amount"   -> AmountInputs
                   [] job = "rebind"   -> Queries
    /\ output = Pending

Computed ==
    CASE job = "timeline" -> GetTimeline(input.db, input.nav, input.txs)
      [] job = "drawdown" -> maxDrawdownPct(input)
      [] job = "reminder" -> {day \in 1..7 : Announced(input, day)}
      [] job = "backtest" -> simulateBacktestStrategy(input.strategy, input.prices)
      [] job = "amount"   -> computeDCAPlanFacts(input)
      [] job = "rebind"   -> rebind(input)

RunSeries ==
    /\ output = Pending
    /\ output' = [done |-> TRUE, value |-> Computed]
    /\ UNCHANGED <<job, input>>

SeriesSpec == SeriesInit /\ [][RunSeries]_seriesVars

-----------------------------------------------------------------------------
(* Properties                                                              *)

TradesBy(f, d) == {i \in DOMAIN input.txs[f] : input.txs[f][i].date <= d}
SharesOn(f, d) == SumFunction([i \in TradesBy(f, d) |-> input.txs[f][i].shares])
CashOn(f, d)   == SumFunction([i \in TradesBy(f, d) |-> input.txs[f][i].cash])
CountsFrom == LET first == Min(TradeDates(input.txs))
              IN  IF input.db = "sqlite" THEN (first \div YearLength) * YearLength ELSE first
QuotesBy(f, d) == {e \in 1..d : input.nav[f][e] # NoNav /\ e >= CountsFrom}
HeldOn(d) == {f \in SFunds : SharesOn(f, d) > 0 /\ QuotesBy(f, d) # {}}
DayOf(d) == [date  |-> d,
             value |-> SumFunction([f \in HeldOn(d) |-> SharesOn(f, d) * input.nav[f][Max(QuotesBy(f, d))]]),
             cost  |-> SumFunction([f \in HeldOn(d) |-> CashOn(f, d)])]

\* A day of the timeline says what every fund held that day is worth at its
\* last NAV that counts, and what was paid for it; a day is missing only if it
\* has no NAV or nothing was held.  On PostgreSQL the NAVs since the portfolio's
\* first trade count, on SQLite those of the whole year of that trade.  A
\* capped query cuts off the newest days, never one in between.
TimelineIsCarryForward ==
    job = "timeline" =>
        LET quoted == {r \in (1..LastDate) \X SFunds : r[1] \in QuotesBy(r[2], LastDate)}
            whole  == Cardinality(quoted) <= NavRowCap
            last   == Max({r[1] : r \in timelineNAVRows(input.db, input.nav, input.txs)})
            want   == {DayOf(d) : d \in {r[1] : r \in {q \in quoted : (whole \/ q[1] < last)
                                                               /\ HeldOn(q[1]) # {}}}}
        IN  IF TradeDates(input.txs) = {} THEN output.value = {}
            ELSE SumFunction([f \in SFunds |-> Len(input.txs[f])]) <= TxRowCap =>
                    IF whole THEN output.value = want
                    ELSE want = {e \in output.value : e.date < last}

\* The alert's drawdown is the largest fall between any two of the most
\* recent points, and the two dates it names are such a pair.
DrawdownIsLargestFall ==
    job = "drawdown" =>
        LET r == output.value
            window == FirstPoint(input)..Len(input)
        IN  /\ \A i, j \in window : i < j => (input[i] - input[j]) * r.den <= r.num * input[i]
            /\ IF r.num = 0 THEN r.to = 0
               ELSE r.from < r.to /\ {r.from, r.to} \subseteq window
                    /\ (input[r.from] - input[r.to]) * r.den = r.num * input[r.from]

\* The reminder announces every day on which a run buys for the plan, and a day
\* on which none does only before the plan's first day or after its last; but
\* it never announces a plan without a mask, for which a run buys on weekdays.
ReminderMatchesPurchases ==
    job = "reminder" =>
        LET due == {day \in 1..7 : Due(input, day)}
        IN  IF input.mask = <<>> THEN output.value = {}
            ELSE /\ due \subseteq output.value
                 /\ \A day \in output.value \ due :
                        \/ day < input.start
                        \/ input.end # 0 /\ day > input.end

\* Trades never create money: with the price of the day, what a strategy has
\* is worth the same before and after its trade, and it never sells what it
\* does not hold.  The grid trades every change of level except out of a level
\* below its range, which it takes for a first point.
StrategiesAreSelfFinanced ==
    job = "backtest" =>
        LET s == input.prices
            p == output.value
        IN  \A k \in DOMAIN s :
              /\ p[k].shares >= 0
              /\ TotalValue(p[k], s[k].nav) =
                    IF k = 1 THEN IF input.strategy = "rebalance" THEN Base ELSE 0
                    ELSE TotalValue(p[k - 1], s[k].nav)
              /\ input.strategy = "grid" /\ k > 1 /\ p[k].level # p[k - 1].level =>
                    \/ p[k].shares # p[k - 1].shares
                    \/ p[k - 1].level < 0
                    \/ p[k].level > p[k - 1].level /\ p[k - 1].shares = 0

\* The strategy dca and the comparison DCA of the same result buy the same, yet
\* the final value of the strategy is lower by exactly the money invested,
\* because its cash starts at zero and pays for the purchases.
ComparisonOffset ==
    job = "backtest" /\ input.strategy = "dca" /\ input.prices # <<>> =>
        LET n == Len(input.prices)
            c == dcaBacktestReturn(input.prices)
        IN  /\ output.value[n].invested = c.invested
            /\ TotalValue(output.value[n], input.prices[n].nav) = c.final - c.invested

\* The cheaper the fund, the more is bought, never less than half nor more
\* than twice the base amount, and the signal says which it is.
CheaperBuysMore ==
    job = "amount" =>
        /\ 2 * output.value.amount >= Base /\ output.value.amount <= 2 * Base
        /\ output.value.signal = "more" <=> output.value.amount > Base
        /\ \A other \in AmountInputs :
              other.mode = input.mode /\ other.cost = input.cost
              /\ other.nav <= input.nav /\ other.change <= input.change
                 => computeDCAPlanFacts(other).amount >= output.value.amount

\* What a character is part of, as PostgreSQL reads from left to right: code, a
\* name (where a dollar may follow a letter), a literal, a comment of some depth
\* (two characters open or close one) or a dollar quote.
Lex(in, depth, skip, tag, since) ==
    [in |-> in, depth |-> depth, skip |-> skip, tag |-> tag, since |-> since]
Plainly(in) == Lex(in, 0, 0, <<>>, 0)
LexStep(q, m, i) ==
    CASE m.skip > 0 -> IF m.skip = 1 /\ m.in = "block" /\ m.depth = 0 THEN Plainly("code")
                       ELSE Lex(m.in, m.depth, m.skip - 1, m.tag, m.since)
      [] m.skip = 0 /\ m.in \in {"'", "i"} -> IF q[i] = m.in THEN Plainly("code") ELSE m
      [] m.skip = 0 /\ m.in = "line" -> IF q[i] = "n" THEN Plainly("code") ELSE m
      [] m.skip = 0 /\ m.in = "block" ->
            IF Opens(q, i) THEN Lex("block", m.depth + 1, 1, <<>>, 0)
            ELSE IF Closes(q, i) THEN Lex("block", m.depth - 1, 1, <<>>, 0) ELSE m
      [] m.skip = 0 /\ m.in = "dollar" ->
            LET first == i - Len(m.tag) + 1
            IN  IF first >= m.since /\ SubSeq(q, first, i) = m.tag THEN Plainly("code") ELSE m
      [] OTHER ->
            CASE q[i] = "t" \/ (q[i] = "$" /\ m.in = "name") -> Plainly("name")
              [] q[i] \in {"'", "i"} -> Plainly(q[i])
              [] q[i] = "-" /\ CharAt(q, i + 1, "-") -> Plainly("line")
              [] Opens(q, i) -> Lex("block", 1, 1, <<>>, 0)
              [] q[i] = "$" /\ m.in # "name" /\ DelimiterAt(q, i) > 0 ->
                    LET len == DelimiterAt(q, i)
                    IN  Lex("dollar", 0, len - 1, SubSeq(q, i, i + len - 1), i + len)
              [] OTHER -> Plainly("code")
LexedBy(q) ==
    LET mode[i \in 0..Len(q)] == IF i = 0 THEN Plainly("code") ELSE LexStep(q, mode[i - 1], i)
    IN  mode

\* A name in which the scanner takes a dollar for the delimiter of a quote.
DollarInName(q, mode) ==
    \E i \in DOMAIN q : mode[i - 1].in = "name" /\ q[i] = "$" /\ DelimiterAt(q, i) > 0

\* A question mark becomes a parameter exactly where PostgreSQL would read it
\* as code, and a statement is refused exactly when a literal or a comment in
\* it does not end (and it has a question mark at all), unless a name in it
\* contains what would be the delimiter of a dollar quote elsewhere.
ParametersAreCode ==
    job = "rebind" =>
        LET mode    == LexedBy(input)
            marks   == {i \in DOMAIN input : input[i] = "?"}
            AsCode(m, ins) == m.in \in ins /\ m.skip = 0
            ended   == AsCode(mode[Len(input)], {"code", "name", "line"})
        IN  \/ DollarInName(input, mode)
            \/ IF marks # {} /\ ~ended THEN ~output.value.ok
               ELSE output.value =
                       [ok |-> TRUE,
                        params |-> {i \in marks : AsCode(mode[i - 1], {"code", "name"})}]

\* Types.
SeriesTypeOK == job \in Jobs /\ output.done \in BOOLEAN

\* Every computation that walks a series agrees with its definition.
WalksMatchReference ==
    output.done =>
        /\ TimelineIsCarryForward
        /\ DrawdownIsLargestFall
        /\ ReminderMatchesPurchases
        /\ StrategiesAreSelfFinanced
        /\ ComparisonOffset
        /\ CheaperBuysMore
        /\ ParametersAreCode
=============================================================================
