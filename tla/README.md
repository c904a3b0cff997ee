# fund-dashboard: TLA+ models, checks and proofs

fund-dashboard is a Go service that keeps a ledger of fund and stock trades,
derives positions from it, refreshes prices, executes auto-invest (DCA) plans and
exposes all of it to a web client and, through MCP, to agents. This directory
holds TLA+ modules for the parts whose correctness depends on the order in which
things happen or on what a walk over a series computes, TLC configurations that check
them on small instances, and TLAPS proofs for every value of the constants. Source
paths below are relative to `src/`.

## 1. The system and its parts

| component | state | operations | hard behaviour | what makes it correct |
|---|---|---|---|---|
| snapshot rebuild (`internal/snapshot`) | `portfolio_snapshot` | `recalc` in ModeFull / ModeLight, in or outside a transaction | sums are read and written in separate statements; upsert retries | the stored position is what the ledger adds up to |
| transaction ledger (`service/admin/transactions_*`) | `transactions` | import, update, delete | the row is read before the transaction that changes it | signed columns match; every fund a row belonged to is rebuilt |
| position adjust, securities (`service/portfolio`) | `transactions`, `fund_details` and all tables naming a fund | AdjustPosition, UpsertSecurity, DeleteSecurity | balancing against a sum read earlier; cascades | no position without its rows |
| DCA (`service/portfolio/dca_*`) | `dca_plans`, `dca_plan_executions`, `transactions` | plan CRUD, RunDCAAutoInvest | the 20:00 job, backfill, catch-up and manual calls overlap | one buy per plan and due date; claim and buy together |
| price refresh (`internal/jobs/price_refresh.go`) | `nav_history`, `crawl_log` | RefreshSecurity, batch refresh, RecalcAllSnapshots | runs next to every writer | value and NAV agree |
| scheduler (`internal/jobs/scheduler.go`, `dca_backfill.go`) | `crawl_log` claims, `lastRun` | Start, Stop, ticks, catch-up | crash between claim and run, late ticks, Stop during a claim, two processes | a window runs once; a week is covered; Stop returns |
| crawls (`jobs/price_refresh.go`, `jobs/holdings_refresh.go`, `httpapi/admin_crawl.go`, `mcp/tools_read.go`) | `nav_history`, `fund_holdings` | one code, stale codes, held codes, all snapshots; as job, endpoint and tool | deadlines between two codes, partial answers, overlapping rewrites | "complete" means complete; what is stored is what was answered |
| integrity and freshness checks (`service/admin`) | none (reports) | drift, freshness, alerts | what they call drift or stale is another part's promise | they select what they say |
| database (`internal/repository/db`, `cmd/fund-migrate`) | `schema_migrations`, the schema, the imported tables | open, ensure schema, migrate, import | crash between a migration and its record; two processes; legacy data; an import that conflicts | a process that serves finds the schema its code expects; a lossy import says so |
| agent confirmations and audit (`confirmations`, `agentops`, `repository/agentstate`) | `agent_confirmations`, `agent_audit_events` | prepare, claim, record | two claimants, expiry, a failing audit store | single use; no write without a claim |
| authentication (`internal/auth`, `httpapi/auth.go`) | `auth_credentials`, `auth_sessions`, the limiter in memory | setup, login, renew, revoke, change password | check-then-act in the limiter, renewal against revocation | a revoked session stays revoked |
| OAuth server (`internal/oauth`, `httpapi/oauth.go`) | `oauth_clients`, consents, refresh tokens, the key; codes, screens and documents in memory | register, authorize, approve, exchange, refresh, revoke, verify | a code or a refresh token presented twice at once, restarts, a document that changes while it is fetched | every token was approved by a click; a refresh token has one successor |
| HTTP edge (`httpapi/ratelimit.go` and the guards) | token buckets per address and bearer | limiters and guards in router order | sweeping of idle buckets, forwarded addresses | a caller is held to its rate and pays for itself |
| market data caches (`service/portfolio/us_stock*.go`, `market_indices.go`, ...) | three in-memory caches, `indices`, `stock_realtime` | look up, fetch, store, refresh on read | overlapping fetches stored out of order, a leader that gives up | what is not called stale is recent |
| reports (`service/portfolio/allocation.go`, `summary.go`, `penetration*.go`) | none; several queries | allocation, summary, look-through | writes between the queries | the parts add up to the total |
| walks (`timeline.go`, `alerts.go`, `backtest*.go`, `dca_compute.go`, `repository/db/open.go`) | none | timeline, drawdown, reminder, backtests, amounts, placeholder scanner | caps, gaps, first points | the walk computes what its definition says |
| MCP server, agent tools | registry | tools/call | – | a tool runs only for an allowed role |
| data sources, web client, settings | none | HTTP clients, parsers | – | – |

Interactions. Everything that writes meets in the database. Trade writers call
`snapshot.recalc` (inside their own transaction, or after it); the scheduler's
jobs call the price refresh, which rebuilds every fund it touched, and then
`RunDCAAutoInvest`, which inserts buys and rebuilds again; users edit plans, rows
and securities through the API and through MCP tools meanwhile. SQLite is opened
with one connection, so statements are serialised and an open transaction excludes
everybody else; PostgreSQL lets other sessions in, which then see committed rows.
`PROJECT.json` lists the components, and under `hazards` the places where an order
of events nobody tests could go wrong, with the properties that cover each.

## 2. Modules

`Ledger` — the trade ledger and the positions stored beside it. One action per
operation that writes `transactions` or `portfolio_snapshot`. Import and
DeleteSecurity are one transaction each, so one step. UpdateTransaction and
DeleteTransaction are two: the SELECT before the transaction, and the transaction,
which works with the row as it was read. AdjustPosition, the DCA commit and a price
refresh start a rebuild outside any transaction, which is stepped statement by
statement: `ReadSums`, `ReadNav`, `ResolvePortfolio` or `ReadExistingNav`,
`WriteUpdate`, `WriteInsert` with its three attempts. `Fail` is a failing statement,
a cancelled request or the end of the process at any point between statements.
Shares are integers (1e-4) and money is in cents. Two history variables,
`ver` and `excused`, remember which funds were left behind, and by what.

`DCA` — `RunDCAAutoInvest` statement by statement for any number of concurrent runs,
and what users do at the same time. `OneConn` is SQLite, its negation PostgreSQL;
`UniqueIndex` says whether `idx_transactions_order_fund_unique` could be created
(it is best effort on a database that already holds duplicates). A plan's start,
end and weekday gates are the set of dates they let through; amounts, and the
rebuild after a commit, are `Ledger`'s.

`AutoInvest` — what auto-invest promises, and nothing of how: a plan's date is
materialized at most once, and callers are told that a date is done only when it is.
`DCA` instantiates it with its two history variables, the committed rows and the
reported orders (`InvestSpec`).

`Scheduler` — processes with their two goroutines (tick loop, startup catch-up),
the ticker channel of capacity one, the in-memory and the durable claim of a
window, `jobContext`, the jobs' due dates, `Stop` and crashes. A tick carries the
time it fired at while the clock goes on, as in the code.

`WriteGate` — what the boundary between agents and writes promises, and nothing of
how: an approval for one tool and payload, spent at most once, and at most one run
of what was approved.

`Confirmations` — how the code does it: `PrepareConfirmation` (the row, then the
audited attempt, then the token to the client), `tools/call` and the HTTP consume
route, and `ClaimConfirmation` one statement per step: Get with Verify, the
compare-and-set of `used_at`, the audited claim; then the tool and the best-effort
record of its outcome. Any statement may fail (`StatementFails`), a request may be
cancelled or the process end (`Abort`) anywhere, and the two DELETEs of the daily
sweep run at any time. A token is represented by the id it was issued with and a
payload by itself, for the hashes are taken to be injective; timestamps are
integers, as the RFC 3339 text the database compares is ordered like them but
for fractions of one second. The audit table does not store the confirmation's id:
it is carried in the model's rows as history, to say which row belongs to which
write. `grants`, `spent` and `runs` are history too, and are the variables of
`WriteGate`.

`LoginLimiter` — `auth.Limiter` with its five maps, the sweep and the escalation. Each
method holds the mutex, so it is one step of the request that calls it. A key stands
for one address, so "login" and "password" are the two keys of an address; the
global window is shared. `trip` is history.

`Sessions` — EXTENDS `LoginLimiter`: setup, login, the session guard with its sliding
renewal, logout, revocation by id and password change, one step per statement on
`auth_credentials` or `auth_sessions`. A failed comparison and its `Failure`, and the
insertion of a session and its `Success`, are one step each: one half touches only a
table and the other only the limiter, so no other request can tell them apart from two
steps. `Abort` ends a request anywhere (a failing statement, a refused header or body,
a cancelled context) and `Restart` ends the process: the limiter starts empty, the
tables stay. Ids are numbered in the order of their rows, for a token is random and
its hash is taken to be injective; `creds` keeps the passwords the single row has
held, so that a session can be compared with the one it was opened under. `gone` and
`excused` are history. The `auth_events` rows are appended best effort and read by no
operation.

`OAuth` — the authorization server. What the tables hold survives `Restart`, which may
change the base URL and the write scope; codes, screens, the cache of metadata
documents and requests in flight do not. A refresh is the read of its row, the revoking
UPDATE and the INSERT of the successor; the fetch of a document has a start and an end;
codes and screens are taken in one critical section. A signature is valid by the
identity of its key, and the comparisons of a token request with its grant (PKCE,
client, redirect URI) are one bit. `clicked`, `dropped`, `successors`, `shared` and
`moved` are history.

`Boot` — `ensureSchema` for both dialects, version by version, apply and record as two
steps; the schema is the set of structures statements leave behind, and legacy data may
prevent some of them. Then the wiring of `internal/app` up to the signing key, and
`fund-migrate`, which starts with the same migrations and copies table by table, each in
a transaction. A process may end between any two steps.

`Market` — the exchange rate, index histories, stock snapshots (each: look up, fetch,
store, with nothing coalescing the fetches) and the indices table with its singleflight.
A datum is the time it was asked for. The caches share no state, so a behaviour
exercises one of them.

`Crawl` — the crawls of prices and disclosures as job, REST request and agent tool,
under a context that ends at any point. A series is the set of its dates, a disclosure
a sequence of rows. What the caller is told is `report`; what happened upstream and in
overlapping rewrites is kept in `late`, `cut` and `lapped`.

`Series` — the sequential walks. A behaviour picks a computation and an input and runs it;
the property compares the result with a definition that does not walk: the timeline
with sums per day, the drawdown with all pairs of points, the reminder with the days
on which a run buys for the plan, the strategies with conservation of value, the amount with
its monotonicity, the placeholder scanner with the lexical state PostgreSQL gives every
character, in which a dollar that follows a letter belongs to a name. The timeline takes
the database as an input, because its date filter compares `CAST(... AS DATE)`, which is a
date on PostgreSQL and the year on SQLite (`Cast`).
Inputs are chosen such that the divisions of the code are exact; ratios are pairs.

`Reports` — allocation, summary and look-through, one query per step; between two a
snapshot rebuild, an edit, a crawl or a trade may commit. A weight of a disclosure is any
number, as the upstream page is not checked, and a crawl leaves one answer for a report
date or the union of two (`HoldingsRewritten` with two answers: rewrites that overlap on
PostgreSQL). `written` is history: what changed since the report began.

`Edge` — the five token buckets and the four guards in the order the router mounts them,
with the walk over `X-Forwarded-For`. Tokens are measured by the time it takes to earn
them, which makes refill and wait exact. `charges` (who paid when) and `promise` (which
Retry-After was given) are history.

`MCLedger`, `MCDCA`, `MCScheduler`, `MCConfirmations` and `MCSessions` instantiate their
module for TLC. `MCPlatform` does so for the seven modules from `OAuth` to `Edge`, which
share no table in what they model: each behaviour has one of them as its focus and
leaves the others in one initial state (`...AtRest`), so the run explores their sum
and not their product. Requests and processes of all parts are drawn from one set, over
which the instance is symmetric.

The theorems are in eight modules: `Sums` (lemmas on naturals, finite sets and sums),
`LedgerProofs`, `PortfolioProofs` (`Reports`, `Series` and `DCA`), `SchedulerProofs`,
`ConfirmationsProofs`, `SessionsProofs` (with the limiter), `PartsProofs` (`OAuth`, `Edge`,
`Boot` and `Market`) and `PlatformProofs` (`Crawl`, and the platform that is composed of
the parts). Operators whose comment begins with
"Mutant of" are deliberately wrong variants of the definition after them; each breaks the
property named with it in `PROJECT.json`, which shows that the property depends on
that definition.

## 3. Runs

Deadlock checking is off in all of them: the bounds end every behaviour, and an
idle server rightly does nothing.

| run | instance | properties | shows |
|---|---|---|---|
| `ledger_seq` | one request at a time, two funds, up to four operations, all of them | TypeOK, QuietMeansNoDrift, StoredRowsAgree | sequentially, the stored position of every fund is what its rows add up to after each request, and signed columns, values and order ids stay consistent |
| `ledger_conc` | two requests at once, three operations, failures, two portfolios under the legacy primary key | DriftHasCause | concurrently, a position that disagrees is about to be rebuilt, or was left by one of three named causes |
| `ledger_clobber` | adjust against refresh | QuietMeansNoDrift violated | finding 1 below |
| `dca_seq` | one run at a time, two dates, no index, all edits but dropping a security | InvestSpec, BuyHasExecution | the run implements `AutoInvest`: deleting or moving a buy never makes the backfill buy again, and nothing is reported that was not bought |
| `dca_overlap` | two concurrent runs, PostgreSQL with the index, all edits | NoDuplicateOrder, ReportedWasBought, RunsReturn | overlapping runs never double an order, never report a missed date as done, and return |
| `dca_edit` | two runs, a plan retargeted between their loads | AtMostOncePerDue violated | finding 2 |
| `scheduler_week` | one process, Sunday and Monday, one restart anywhere | TypeOK, OncePerWindow, PassCoversWeek, NeverEarly | windows run once, the preceding week is covered, today is never bought early |
| `scheduler_two` | two processes, Friday and Saturday, one failing statement | SuppressedHasCause, StopTerminates | a lost claim suppresses only what somebody runs or what is recorded lost; Stop returns |
| `scheduler_cancel` | one process, Stop during a claim | StopCancelsJobs violated | finding 3 |
| `confirmations_claims` | two requests at once, two claims, one confirmation, four tools of different policies, time 0 to 2 | TypeOK, NoBypass, GateSpec, RunsAreAudited | the boundary implements `WriteGate`, a gated run has its trail in the audit table, and no role and no missing confirmation gets around it |
| `sessions_auth` | two requests at once, four in all, two sessions, two passwords, one change, restarts, time 0 to 4 | TypeOK, ExpiryIsSliding, RevokedStaysOut, SessionsWereEarned, OldSessionsHaveCause, GlobalBound, StrikesCollectable, EscalationCarries | what was revoked stays revoked, renewal never exceeds the absolute age, nobody holds a session without a password, and the limiter escalates, forgets and bounds |
| `platform` | one of the seven parts at a time, see below | PlatformTypeOK | tables, requests, caches keep their types, and who waits for a refresh is waited for |
| | `OAuth` | TokensWereApproved, RotationHasCause, TokensSurviveRestart | no token without a click; two successors only of a token two requests held at once; restarts keep tokens valid |
| | `Boot` | BootsConverge, ImportLossReported | boots that crash, overlap or meet legacy data end with the schema and one key; a row the import drops is reported |
| | `Market` | CachesAreRecent (with the document cache of `OAuth`), StaleIndexHasCause | nothing is served as fresh beyond its lifetime and one timeout; an old index was skipped by the last refresh |
| | `Crawl` | CompleteHasCause, StoredAsAnswered | "complete" is true but for four named exceptions; no holes, no mixed disclosures but for named causes |
| | `Series` | WalksMatchReference | six computations against definitions that do not walk (where the program departs from what one would expect, the definition says exactly when, see section 4), some 25 000 inputs |
| | `Reports` | ReportsAddUp | the parts of an allocation or a summary add up unless a write came between two of its queries; the look-through attributes exactly what was disclosed for one report date, whatever is written |
| | `Edge` | LimitsHold | no key exceeds burst plus rate in any window, a caller who waits Retry-After is served, and an address pays only for what it sent itself |

Bounds, and why they are enough. Two funds are needed to move a row, two orders for
a conversion next to a plain trade, four operations for the longest interesting
sequence (trade, move, delete or re-import, adjust). The races are between two
parties, so two requests, runs or processes; three starts of two runs let a later
run see what the first two left. Two days, one on each side of a weekend boundary,
reach the weekday gates, yesterday's `crawl_log` row and the seven-day lookback,
whose dates may lie before day 0. `MaxSeq`, `MaxPlans` and the other `Max...`
constants appear in the guards of the actions they bound. Two claims of one
confirmation are the race on `used_at`; a clock of three instants with a lifetime of
one lets a row expire and both sweeps delete between any two statements. Ids of
several confirmations do not interact but through the token that is presented with
the wrong one, which the token 0 stands for; the theorems hold for any number.
A lifetime of 3 and an absolute age of 4 make a session be renewed once and then meet
its cap within five instants. Four requests are a setup, a login and two more that
race, or two failures that trip the lock and two after it; two failures trip a key and
fill the global window, and a decay of 3 instants, above the longest lock of 2, lets a
key be forgotten and trip again. The password in the environment is left to the
theorems, which cover both settings.
In `platform` two requests or processes race, and every lifetime is one instant of a
clock that reaches three, so anything can expire between any two steps and be asked for
again. OAuth has two codes, one screen, two refresh tokens and one restart, in three
workloads (documents, revocation, restart) that share the consent screen: one rotation
raced by another, or by a restart. Boot has three boots of two processes: a crash, its
replay and a rival, on a new, a legacy, a flawed and an up-to-date database. The caches
hold one entry while two keys are asked for. A crawl covers two codes of three with caps
of two and one, which cut a list, an answer and a series; the reports have two funds and
one write between queries; the walks see every series of up to five points (six
characters for the scanner) over a few values each, chosen around the thresholds of the
code. Three dates with years of two put a NAV into the year of the first trade but before
it; plans have masks of up to two parts and first and last days before, within and after
the week; the scanner's alphabet has a letter beside the dollar, so names with dollars in
them and tagged quotes both occur. Two answers for one date disclose 93 % and 75 %, and their
union 135 %. The edge has a token of two instants, a burst of two tokens and three arrivals of
two clients, one of them through one or two proxies with a forged hop.

Fairness. `RunsReturn` assumes weak fairness of each run's own steps: the Go
runtime schedules every goroutine, the connection pool serves requests in order,
and a lock wait ends when the other transaction ends. It assumes nothing of
failures, users or new runs. `StopTerminates` assumes weak fairness of each
goroutine's steps and of Stop's return; that a job's work ends is justified by the
timeout on every job context. The clock, ticks, starts, stops and crashes are unfair.

## 4. Findings

1. `ledger_clobber`: AdjustPosition's comment says that later refreshes "no longer
   clobber the override". A refresh that summed the ledger *before* the balancing
   row and writes *after* the adjust's rebuild does, until the next rebuild.
2. `dca_edit`: "Idempotent via order_id". The guard and the index compare order id
   *and* fund code, and the execution ledger is consulted only before the
   transaction, so two overlapping runs that loaded a plan before and after its
   fund was edited both buy.
3. `scheduler_cancel`: "Stop cancels in-flight jobs". A goroutine that asks
   `jobContext` after Stop has cleared the root context gets one derived from
   `context.Background()`, and Stop waits for it.

Met while modelling, without a run of their own: a rebuild writes a fund's whole
share count to one portfolio's row, so after adjusts under two portfolios both rows
hold the fund-wide sum, which the integrity check adds up; two racing updates of one
row may leave signed columns computed from the older one; a light rebuild racing a
fund's first refresh may store a NAV with a value of 0; DeleteSecurity removes the
execution marks filed under the dropped fund, also those of a plan that has since
moved to another; and the durable claim's UPDATE does not compare `latest_date`, so
two processes that both read yesterday's row both win (which is why OncePerWindow
is claimed for one process at a time). PrepareConfirmation's early check of its
stores does not keep a failing audit insert from leaving a confirmation behind that
nobody has the token of; and a confirmation prepared without a payload is hashed as
JSON `null`, which no `tools/call` can present, so only the HTTP route can use it.
A login that compared the old password just before a change opens its session after
the change has deleted the others, and a change whose second statement fails leaves
them all (the causes OldSessionsHaveCause names); of two racing renewals the one that
read the earlier clock may be written last and move the expiry back.

OAuth: `refresh` does not look at how many rows its revoking UPDATE changed, so two
overlapping refreshes of one token both get a successor (the cause RotationHasCause
names; a replay after the revocation is refused, as the comment at `flow.go:331` says).
After a change of the base URL a refreshed token keeps the audience of its grant and is
refused at /mcp. A consent whose code could not be stored stays recorded.

Boot and import: the INSERT into `schema_migrations` is plain, so of two overlapping
boots one may fail to start; a best-effort PostgreSQL repair that was skipped is
recorded and never tried again. `fund-migrate` treats `schema_migrations` and the
`oauth_*` tables like any other: a versioned source is refused without `--force` even on
a new database, and with `--force` the signing key is replaced under a running server.
The sequences are not advanced after rows were copied with their numbers.

Caches and crawls: the stock snapshot cache is keyed by symbol alone, so it answers every
range with the one that was fetched; the freshness of the indices is judged by the newest
row. The alerts call a price stale from four days on, the selection after four. The reminder
does not look at a plan's first and last day (`alerts.go:217-249`, against
`dca_run.go:138-151`), so an ended or a future plan is announced and not bought, and a plan
without a weekday mask buys on weekdays but is never announced. A crawl of held codes
says "complete" with failed codes behind one success, and a cancelled REST crawl says
"complete" where the tool says "partial". A rebuild that fails after its NAVs were stored
is not repeated until the NAV is stale again. Two rewrites of one fund's holdings that
overlap on PostgreSQL may leave the union of two answers. A date published after a newer
one, or cut off by the cap of one answer, is never fetched again.

Analytics: the DCA, grid and momentum backtests start with no cash and let it go negative,
so their total value is already the profit, and the return subtracts the investment once
more (`ComparisonOffset` states by how much the strategy differs from the comparison in
the same result); the grid takes a level below its range for a first point and skips the
sale on the way back; rebalancing counts purchases it financed itself as invested. The
timeline's caps drop the newest days and the later funds. Its filter on the first trade
compares `CAST(... AS DATE)` (`timeline.go:140-144`), which on SQLite is the year: there
the NAVs of the same year from before the first trade are carried forward and
use up the cap as well. The look-through attributes what was disclosed: neither the parser
of the upstream page (`eastmoney_holdings.go:112-162`) nor the report bounds the weights of one
date, so an answer of more than 100 %, or the union of two overlapping rewrites, attributes
more to stocks than the funds are worth (`Overdisclosed`). The top gainer may be a loser,
and of two equal worst positions neither is the top loser. The reports run without a
transaction, so groupings may disagree with the total after a write in between.

Placeholders: PostgreSQL reads a dollar after a letter as part of a name, the scanner of
`open.go` as the possible start of a dollar quote. It therefore refuses `t$t$?` as
unterminated, and the quotes it loses track of that way can make it number a `?` inside a
literal, as in `t$t$'$t$?$t$'t$t$`, although the comment at `open.go:292-293` says literal
content is never rewritten (`DollarInName` is this case). Tags with letters outside ASCII,
and line comments ended by a carriage return, are not in the model's alphabet. No statement
of the repository contains any of these.

Edge: a request the expensive limiter refuses has paid at the api limiter too, as its
comment says; a request with a valid session but no CSRF header is refused even if it
carries the edge key.

## 5. Theorems

Every theorem follows from the named `ASSUME`s of its module, with no other
assumption on constants but the hypotheses stated with it. Those of the modules say
what configuration and compilation guarantee: limits, lifetimes and caps are natural
numbers, a burst pays for a request, the longest lock is shorter than the decay of
strikes, an order a client sends is not named like one the server makes, rows a request
sends are finite batches of rows, and null values are none of the others. TLC evaluates
them on every run. Numbers of requests, processes, funds, rows, tokens and securities
are arbitrary.

The reports and the walks are about values, so their modules say more of their inputs:
- `Reports`: what is held is worth its shares times its NAV, so not less than nothing; the
  trades and the rows that may be disclosed are finite in number. Weights are any integers.
- `Series`: NAVs are positive, for the queries ask for `unit_nav > 0`; only the timeline's
  does not, so there a NAV may be zero and is carried forward like any other (a NULL one,
  which no writer of the table leaves, fails the whole report and is left out); trades come
  in the order of their dates, as `ORDER BY trade_time` returns them; the days of a plan are
  numbers, and 0 stands for none; a statement is a finite text; a plan is for
  at least four cents, so that the smallest rate does not round to nothing; the
  outer rows of the rate table end where no deviation lies. One of them is a choice of the model
  and not of the code: purchases of a backtest come out in whole shares. The code buys
  fractions in floating point, where conservation of value holds only up to rounding.

Each safety theorem rests on an inductive invariant that is stronger than what it
says; the module names it and its comment says why it is needed. Type invariants
(`Base` where the model's own TypeOK is not inductive) come first and are used by the
others. Where an invariant was not obvious, TLC checked it on an instance of section 3
before it was proved.

Sums, minima and walks are where proofs about ledgers, series and queues meet induction.
The induction theorems of the library cannot be used with the installed provers, so what
needs one is proved by the smallest counterexample: the set of naturals at which a
statement fails has a least member (`SmallestOf`), and the statement holds there. That
is enough for
- sums over any finite set (`Sums`): they are numbers, are monotone and linear, are those of the
  groups of any grouping (`SumOverGroups`), and may be taken in either order (`SumOverExchange`);
- the recursive functions of the walks (`PortfolioProofs`): one that goes forward has a value
  at every position (`WalkExists`), and so has one that jumps ahead by any distance (`JumpExists`);
  a statement that holds at the end and passes from each position to the one before
  it holds everywhere (`FromTheEnd`);
- the newest of a set of dates (`PlatformProofs`), and the window and the ladder of locks of the
  limiter (`SessionsProofs`).

`LedgerProofs`
- `LedgerTypeCorrect`: `Spec => []TypeOK`. The sums over a fund's rows are numbers,
  for the rows are finite in number and seqs are handed out once.
- `DriftAlwaysHasCause`: `DriftHasCause` where a fund has one row (`OneRow`: the legacy key
  allows no other, or there is one portfolio). `DriftInv` says that what a rebuild in
  flight carries is what the ledger sums up to, or is of a version that has gone, and
  that of every fund that is neither excused nor in step some rebuild is under way
  or still to come. Without `OneRow` it is not claimed: with two portfolios on the
  composite key a rebuild writes the fund-wide sum to one of two rows (section 4).
- `OrdersStayApart`: with the unique index, no interleaving of imports, edits, adjusts
  and DCA commits leaves two rows of one order in one fund.
- `StoredRowsAlwaysAgree`: one request at a time (`Alone`) and with the index,
  `StoredRowsAgree`, also when statements fail and requests stop half way. `AloneInv`
  is what a request knows: the row it read is the one it changes, and the NAV it
  values shares at is the one it stores. Two overlapping updates do break the signed
  columns (section 4), so `Alone` is not an artefact of the proof.
- `QuietNeverDrifts`: `Alone`, one portfolio and no failing statement, and between
  requests stored shares and cost are what the rows add up to. It is `DriftInv`
  with nothing excused: each cause needs a rival, a failure or a second portfolio.

`PortfolioProofs`, on `Reports` for any positions, details, disclosures, trades and sector maps and any
number of writes between two queries
- `ReportsTypeCorrect`: `ReportsSpec => []ReportsTypeOK`.
- `ReportsCorrect`: `ReportsSpec => []ReportsAddUp`. A report is read by several statements, so
  its parts are related only through the tables they were read from. The invariants say,
  for each query the report has reached, what the answers so far are: always of the
  right form (a leading weight was computed from the list beside it, gainers and losers
  are disjoint and ranked), and, while no table that an answer depends on was written since
  the report began, equal to what the tables hold now. `AllocationInv`: each grouping
  distributes the total (`GroupsAddUp`, because a GROUP BY partitions the held rows), and a flag is
  set exactly if the leading weight exceeds its limit, which stays true when a
  write comes between. `SummaryInv`: breakdowns count the trades of the first answer, gains and
  balances those of the second, and every loss is named or is no deeper than a named one.
  `PenetrationInv`: the rows looked at are those of one date of each fund, so what all stocks
  carry together is, fund by fund, its value times the weight it disclosed for the date the
  report names (`LookThroughRight`), and more than the funds are worth only if one
  of them disclosed over 100 % for it. Sectors and stocks carry the same sum up to half a
  unit of rounding each (`SectorsCarry`, `StocksCarry`), whatever is written meanwhile.

`PortfolioProofs`, on `Series` for any series, masks, plans, prices and statements
- `WalksCorrect`: `SeriesSpec => []WalksMatchReference`, where `SeriesInv` says that what has
  been put out is what the walk computes from the input. What each of the six computes:
  - drawdown (`DrawdownFound`): at each position the walk holds the highest NAV so far, and no fall
    between two earlier points of the window is deeper than the one it holds;
  - reminder: it names every day on which a run buys, and another one only before the plan's
    first day or after its last, unless the mask is empty;
  - amount (`AmountsRight`): rates fall along the table and rounding is monotone, so a lower
    price never means a smaller purchase; the purchase stays between half and twice the base,
    and the signal says on which side of the base it is;
  - strategies (`BacktestWalk`): a step leaves the total at today's price as it was and never
    sells more than there is; the strategy `dca` and the comparison buy in the same months, so
    they differ by the money invested (`ComparisonRight`);
  - `rebind` (`RebindRight`): the scanner jumps over whole literals, while the reference gives every
    character the lexical state of the text before it. From a position where the lexer is in
    code or in a name, both find the same parameters and the same error, as long as no name
    contains what the scanner takes for a delimiter. The argument runs
    backwards from the end of the statement (`FromTheEnd`), with one lemma per construct on what
    the lexer does between its opening and the position the scanner jumps to; names are bridged
    by showing that the lexer with and without them agree on everything but the dollar
    (`SeenStep`);
  - timeline (`TimelineRight`): the two pointers of a fund have consumed exactly the trades and
    NAVs dated by the day the walk has reached (`StatesAre`), so shares and cost are the sums of
    these trades and the NAV is the last one, and a row cap leaves off the latest rows; which
    NAVs count on which database is `SinceIs` (casts grow with the date, and a year begins at
    a multiple of its length).

`PortfolioProofs`, on `DCA` for any number of runs, plans, funds and dates
- `TypeCorrect`: `Spec => []TypeOK`.
- `OrderUnique`: `Guarded => (Spec => []NoDuplicateOrder)`, where `Guarded` is "the
  index exists, or there is one connection and rows are not moved". The invariant
  adds that two transactions never both hold the same order uncommitted, and that a
  run past its insert has no committed rival; without it the commit of one run
  could not be excluded from doubling another's row. `Recedes` isolates the steps
  that only remove rows or leave transactions, so only inserting steps need a case.
- `AtMostOnce`: on either database, with no plan retargeted and nothing moved or
  removed, a plan buys once per date. The invariant ties each bought row to its
  ledger row and to the fund of its plan, also in the copies a run has loaded.
- `ReportsAreTrue`: whatever users do, what is reported was bought; the invariant is
  that rows and marks only ever come from commits.
- `BuysAreRecorded`: `BuyHasExecution` unless rows are moved and securities dropped.
- `ImplementsPromise`: under the conditions of `AtMostOnce`, `Spec => InvestSpec`, for any
  number of overlapping runs. Only a commit adds a row, and it reports that row's order;
  the duplicate checks report and add nothing (`HistoryStep`). That the added row is the
  first of its order, and that a reported order has one, are the invariants `AtMostOnce`
  and `ReportsAreTrue` in the state after the step (`PromiseStep`).

`SchedulerProofs`
- `TypeCorrect`: the state keeps its type, including that a process that is down
  runs nothing and that a task's day lies in the calendar.
- `WindowsRunOnce`: `Single => (Spec => []OncePerWindow)`, for any calendar length,
  job set, restarts, crashes and errors. `ClaimInv` is the conjunction of a fact on
  the log (no window later than the row of its job has run) and one on each
  goroutine (what it is about to run has not run, its day is the row's, and no other
  goroutine holds the same window). It is needed because a goroutine runs its job
  several steps after its claim, when the row may have been read by another.
- `SuppressionsExplained`: `Spec => []SuppressedHasCause`, for any number of processes.
  `CauseInv` accounts for every window that the log or a process takes for claimed:
  it has run, it is lost, or some goroutine is between its claim and its run.
- `NeverAhead`: `Spec => NeverEarly`. `TimeInv` ties a task to the tick it came from: the
  tick is not in the future, and only the job of the 20:00 window, at 20:00 or later,
  reaches the day itself; all others count back from it.
- `PassesCoverWeek`: `Spec => []PassCoversWeek`. `PassInv` says of a backfill under way that
  each date it has behind it was attempted, unless a statement failed or Stop ended
  its context; what counts as disturbed is decided by the goroutine's own context.

`ConfirmationsProofs`
- `TypeCorrect`: for every registry and any number of requests.
- `ImplementsGate`: `Spec => GateSpec`. A step of `Confirmations` is Approve (the row
  is saved), Spend (the compare-and-set succeeds), Run (the tool writes) or a
  stutter. `GateInv` relates each row to its history (it is what its id was prepared
  for, and while it can be marked its id is unspent) and each request to the id it
  has claimed (spent, nothing has run, and no other request between MarkUsed and its
  tool has the same id). The last part is needed because a request runs its tool two
  statements after it marked the row, when the row itself may be swept.
- `WritesAreAudited`: `Spec => RunsAreAudited`. `TrailInv` says that a token known to
  a client has its attempt in the table, that a request about to run has its claim
  there, and that neither is older than the row, unless they are past the audit's
  retention; the sweep is the only step that deletes, and it deletes by age.
- `NeverBypassed`: `Spec => []NoBypass`. `BypassInv` adds the requests that are about to run a
  tool without a confirmation: their tool is not gated and their role reaches its scope.

`SessionsProofs`, for any number of requests, sessions, passwords and changes
- `RevokedNeverReturns`: `Spec => []RevokedStaysOut`. `Base` holds the types and that ids
  are handed out in order; without the latter a new session could take a revoked one's
  row. A touch is an UPDATE, which does nothing to a row that is gone.
- `ExpirySlides`: `SlidingInv` adds that what a touch in flight will write fits the row
  it will find: the row's `created` never changes, so a value computed earlier is still
  a complete renewal.
- `EverySessionEarned`: `EarnedInv` adds the requests about to open a session, and that
  the versions of the password form a history (`CredsGrow`, `EarnedKept`).
- `OldSessionsExplained`: inductive together with `EarnedInv`, which excludes a session
  that is older than the first password.
- `StrikesAreCollected`: the sweep drops a key's trips and its last failure together
  (`PruneKeeps`), and every other method keeps them so.
- `SessionsTypeCorrect`: `Spec => []TypeOK`, tables, requests and the five maps of the limiter.
  A window never holds as many failures as lock its key, since the one that would is
  replaced by the lock; filtering a sequence keeps its type and does not lengthen it.
- `WindowAlwaysBounded`: `Spec => []GlobalBound`. `WindowInv` reserves a place in the global
  window for each request that was let in and has not been compared yet.
- `EscalationAlwaysCarries`: `Spec => EscalationCarries`. `TripInv` says that as long as a trip
  is remembered, the counter of its key stands for the lock it set; the recursive
  doubling of `escalatedLockout` doubles from one counter to the next, up to its cap.

`PartsProofs`, on `OAuth` for any lifetimes, documents, codes, tokens and restarts, and on
`Edge` for any limits, addresses, proxies, traffic and number of requests
- `OAuthTypeCorrect`: every request, code, screen, grant and row keeps its type, and what a
  request is follows from where it stands.
- `TokensAlwaysApproved`: `ApprovedInv` says that the consent rows were clicked and that
  every grant on its way to a token (code, request in flight, refresh row) carries
  scopes approved for its client; refreshing never adds one.
- `RotationAlwaysHasCause`: `RotationInv` says that a refresh token which never had two
  requests behind it has at most one, and that once that one has revoked the row the
  token can neither be presented nor answered again.
- `TokensAlwaysSurvive`: `KeyInv` says that the key in use is the one on disk, and that
  while the base URL stands every grant and token is bound to it.
- `DocCacheAlwaysBounded`: `DocInv` relates a URI that was read and is no longer in the
  document to when it was dropped, in requests in flight and in the cache.
- `LimitsAlwaysHold`: `EdgeSpec => []LimitsHold`. The rate bound talks of every window in
  the past while a bucket holds one number, so `WindowInv` ties them: what a key has paid
  since it took any one token, that token included, plus what its bucket is worth now,
  never exceeds burst plus the time since. Refill adds to both sides, a charge moves from
  one to the other, and the sweep
  removes only buckets that are worth a full burst, which is what an absent bucket is
  worth. `PromiseInv` says that what a refused key is missing is earned by the
  promised time (a promise is dropped when somebody else takes from the key); `GateInv`
  that a request stands before the bearer's bucket only after its token was accepted;
  `ClientIsCaller` that the walk from the right over the forwarded addresses ends at the
  address that sent the request, whatever hops that address made up.

`PartsProofs`, on `Boot` and `Market` for any number of processes, requests, symbols and source rows
- `BootTypeCorrect`, `BootsAlwaysConverge`, `ImportLossAlwaysReported` share `BootInv`:
  `SchemaInv` (each version that is recorded, or that a boot has passed, left its
  effect), `OverlapInv` (two boots under way at once are both marked as overlapped,
  so one that is not finds no version recorded behind its back), `SigningInv` (a
  serving process signs with the stored key unless an import replaced that) and
  `ImportInv` (while nobody else writes, what an import finds it clears, and what it
  leaves the source has).
- `MarketTypeCorrect`, `CachedDataAlwaysRecent`, `StaleIndexAlwaysHasCause` share `MarketInv`:
  `FetchInv` (a fetch lives no longer than its client's timeout, so what it stores was
  asked for at most that long before), `FlightInv` (one request leads a refresh, and
  who waits waits for a leader) and `IndexInv` (codes no refresh has to answer for are as
  recent as the newest stamp, up to a timeout; the freshness check looks at that
  stamp alone).

`PlatformProofs`, for any securities, disclosures, caps and number of crawls
- `CrawlTypeCorrect`, `CompletionAlwaysHasCause`, `AlwaysStoredAsAnswered` share `CrawlInv`:
  `RequestInv` (done, failed and remaining codes of a request account for all it has
  to cover, and what is done has caught up with what was published before), `SeriesInv`
  (a published date older than a stored one is stored, was late or was cut off, also
  with an answer that is about to be stored), `SliceInv` and `RewriteInv` (the rows of a
  fund are those of one answer, because a rewrite deletes all there is unless another
  one is under way on PostgreSQL).
- `PlatformRunsItsParts`: `PlatformSpec => OAuthSpec /\ BootSpec /\ MarketSpec /\ CrawlSpec /\
  EdgeSpec`, so the theorems on the parts hold of the composition.
- `PlatformTypeCorrect`, `CachesAlwaysRecent`: `PlatformTypeOK` and `CachesAreRecent` of the
  `platform` run, from the theorems on the parts.

Two definitions were corrected because a proof failed on them: `Ledger.ValidUpdate` had
left out the check of an edit's direction (`transactions_update.go`), and the type of an
OAuth grant had admitted an empty set of scopes, which the code never grants.

Only model-checked are `RunsReturn` and `StopTerminates`, because liveness is outside the
prover. Every other property of every passing run is stated by a theorem.

Outside their hypotheses the conditional theorems are not claimed: section 4 describes
how overlapping requests and second portfolios break the properties of `Ledger`, and
findings 1 and 2 are runs that show it.

## 6. Not modelled

HTTP clients and the parsers of third-party formats are I/O; they appear as the answers
their callers may get (failure, partial, late, repeated). Password hashing, JSON, the SQL
drivers and `time.Ticker` are libraries and appear as what the code assumes of them.
XIRR, the Sharpe ratio and annualised returns are floating-point iterations without a
discrete core. The parsing of settings, the pages and the web client hold no state
whose order matters; nor do the dashboards, the lists and the stream of quotes, which
read. Handlers not named above parse a request and call a service that is modelled.
The status board, the WAL checkpoint and the session sweep of the daily job are left
out: nothing else reads the first, and the other two delete or move what no operation
can use any more.

## 7. Plan

All components of section 1 whose state matters are modelled, and the safety and action
properties of all passing runs are theorems. What is left:

1. The two liveness properties, which stay with TLC.
2. The conditional theorems on `Ledger` and `DCA` under weaker conditions, once the code excludes
   what section 4 describes: a rebuild that checks the version it read, and a plan
   that is read again in the transaction of its purchase.
3. A reference for backtests in floating point: value conserved up to a bound on the error.
4. When the code changes: the lines in `PROJECT.json` tell which definitions to compare first.
