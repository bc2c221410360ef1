# hey-bob: formal models

TLA+ models of the programs of this repository, the TLC configurations that check
them on small instances, and TLAPS proofs of results that hold for every instance.

Contents: 1. inventory; 2. what is hard, and what makes each part correct; 3. modules and
how they correspond to the code; 4. runs and bounds; 5. fairness; 6. what disagrees with
the code's own words; 7. proofs; 8. what is only model-checked; 9. what is not modelled;
10. plan.

## 1. Inventory

The repository holds two Go services and a web front end.

* **bob-crypto-pilot** (`agent-devs/bob-crypto-pilot`): a Gin HTTP server over one
  SQLite file. It simulates trading on three exchanges, keeps a library of
  strategies and runs tickers that fill price and indicator tables.
* **gateway-claude-discord**: a Discord bot that forwards messages of a channel to a
  `claude` process, keeps one conversation per channel over restarts, and runs cron
  jobs whose result it posts. The jobs call bob-crypto-pilot over HTTP, several at a
  time.
* **fe** (in `agent-devs/bob-crypto-pilot/fe`): a React client of the HTTP API.

`agent-docs/` and `workspace/` are prose for the agents.

| component | state | operations | interacts through | modules |
|---|---|---|---|---|
| simulated trading (`services/simulation.go`, `handlers/simulation.go`, portfolio endpoints of `handlers/strategy.go`) | tables `portfolios`, `sim_state`, `sim_trades` | trade, status, create, delete, reset, add coin, remove coin | SQL statements of concurrent requests, no transactions | `SimTrading`, `SimLedger`, `TradeMath` |
| strategy library (`handlers/strategy.go`, seed in `db/db.go`) | `strategies`, `strategy_versions`, `strategy_history`, `portfolio_strategies`, `portfolio_strategy_history` | create, update with version, delete, assign, legacy assign, clear, seed | the same, and the deletes of portfolios and coins | `StrategyLibrary` |
| schema (`db/db.go`) | tables and columns of `crypto.db` | start: ALTER, CREATE IF NOT EXISTS | every request needs the columns | `SchemaBoot` |
| conversations (gateway `session/`) | runner per channel with a Claude session id; table `sessions` | send, reset, restore after restart | per-channel mutex, child process, SQLite | `GatewaySession` |
| cron jobs (gateway `cron/`) | `jobs.json`, `Handler.jobs`, `scheduledJobs`, the scheduler | start, stop, reload, enable, disable, trigger | file, `jobsMu`, `!cron` commands, editors of the file | `CronJobs` |
| job runs (gateway `cron/handler.go` from `runJob`) | none that is shared | script, Claude, quiet hours, delivery in chunks | timers, session, Discord | `Relay` |
| relay and memory (gateway `discord/`, `memory/`) | daily files, `current-memory.md` | message handling, append a turn, archive | files without a lock | `Relay` |
| market data (`services/binance.go`, `upbit.go`, `bithumb.go`, `sync_scheduler.go`, `cmd/backfill`) | a table of daily candles per exchange, indicator columns of the Binance one | sync at boot, every night and on request, backfill | exchange APIs, SQLite transactions, no lock between goroutines | `MarketData` |
| indicators (`services/indicators.go`, the hourly tickers) | indicator columns of the daily and ticker tables | moving averages, EMA, MACD, RSI, Bollinger, ADX | functions of the price rows | `Indicators` |
| performance (`GetPerformance` of `services/simulation.go`) | none | returns over fixed periods and since creation | function of `sim_trades` and the candles | `Performance` |
| ticker loops (`services/*ticker*.go`) | ticker tables | 10 s and 10 min refresh | exchange APIs | values in `Indicators`, loops not modelled |
| front end hooks (`fe/src/hooks`) | React state | load, select, trade | HTTP, answers in any order | not modelled |

## 2. What is hard, and what makes each part correct

* Every handler of bob-crypto-pilot is a sequence of SQL statements without a
  transaction: requests interleave between statements, a statement can fail
  (`SQLITE_BUSY`), the process can die in the middle, and many errors are dropped.
* The gateway serves each Discord message and each cron job in its own goroutine; its
  state is split between memory, SQLite and `jobs.json`; systemd restarts it.
* The same fact is kept twice in many places: session id (memory, row), job list (file,
  memory, scheduler), position (units, `position` column), trade and resulting state
  (`sim_trades`, `sim_state`), strategy of a key (`portfolio_strategies`, its history),
  content of a strategy (row, versions, log).

So the properties relate two copies, or a state to an earlier one:

* *Simulated trading*: no interleaving spends more than the row held; the history is a
  chain in which each trade starts where the one before it ended; `sim_state` is what
  the last trade left; `avg_cost` is the cost the history shows; `sim_state` never
  changes without the trade that explains it; requests that take turns behave as if each
  happened at once (refinement of `SimLedger`).
* *Strategy library*: a version snapshot shows what the strategy really was; versions have
  no holes; no notes are lost; nothing refers to a strategy that is gone; the
  histories show the present.
* *Schema*: a server that serves has the columns its statements name.
* *Conversations*: a channel continues only its own conversation, never one from before an
  acknowledged reset; no two Claude processes resume one conversation; answered turns
  survive a restart; every message ends.
* *Cron jobs*: an acknowledged enable or disable holds in file and scheduler; edits of the
  file survive commands; the file is unreadable only while it is written; `!cron run`
  finds the newest definition; every command ends.
* *Market data*: candles change until their day is over, syncs overlap, and indicators
  are computed from rows read before the transaction that stores them. What a night has
  settled must stay right, and whatever went wrong the next night must repair.
* *Indicators and performance*: the same series are written out four times, with
  alignments that differ by one; a ticker must show what the table stores, no stored
  value may look at a later day, and the returns of a portfolio must reach back to its
  creation, which is written in one time zone and read in another.
* *Relay, memory and job runs*: an answer is on record before it appears in Discord;
  turns one after another are all remembered, in order, in full or as archive line; an
  answer arrives with all its text, and without cut lines or characters where its lines
  are short enough; no job speaks in its quiet hours.

`PROJECT.json` lists 39 hazards with the line where each bites and the properties that
would catch it going wrong. Where no property would, the note says why: mostly that the
code does go wrong there and no text of the repository promises otherwise.

## 3. Modules

### TradeMath, SimLedger, SimTrading (simulated trading)

`TradeMath` holds the arithmetic of one trade of `ExecuteTrade`: fee, money spent, units
bought, gross of a sale, the account after a BUY or SELL, and the row of `sim_trades`.
Amounts are integers in small units; a coin quantity is scaled by `Scale`, a fee is the
gross amount `\div` a divisor (1000 for 0.1 %). `avg_cost` is kept as the cost of the
units held (`avg_cost * units`), which has no division. The rounding of float64 is
therefore not modelled: quantities are rounded down to units instead.

`SimLedger` is the abstract specification: for each portfolio and coin an account and a
book; a trade, a reset and a removal each happen at once.

`SimTrading` is the code: a client is a request in its own goroutine, `pc[c]` names the
SQL statement it executes next, one action per statement.

| in the code | in the module |
|---|---|
| rows of `portfolios`, `sim_state`, `sim_trades` | `exchangeOf`, `state`, `trades` |
| body of the request, `feeRate`, the `*SimState` that was read | `call[c]`, `rate[c]`, `seen[c]` |
| `ExecuteTrade`: exchange lookup and price checks | `BeginTrade` |
| `GetSimState`, `InitSimState`, second `GetSimState` | `FindRow`, `MissRow`, `InitSimState`, `AnswerFromRow` |
| checks on the row (`HOLDING` without cash, amount over cash, nothing to sell) | `Refused` |
| INSERT into `sim_trades`; UPDATE of `sim_state` | `InsertTrade`; `UpdateState` |
| `CreatePortfolio` with its loop over coins | `CreatePortfolio`, `OpenCoin`, `CreateDone` |
| `ResetPortfolio`: two statements | `ResetPortfolio`, `RestoreCapital` |
| `RemoveCoinFromPortfolio`: two statements on these tables | `RemoveCoinFromPortfolio`, `PurgeTrades` |
| an error of a statement; death of the process | `FailStatement`, the `ok` argument; `Crash` |

`Exclusive` is the mode of use: TRUE when clients take turns on each portfolio.
`forgotten` is a history variable: the requests between whose INSERT and UPDATE a reset
or a removal has deleted the trade.

### StrategyLibrary (strategy library)

A client is a request; one action per SQL statement of `CreateStrategy`,
`UpdateStrategy`, `DeleteStrategy`, `PatchPortfolioStrategy`, `PatchCoinActiveStrategy`
and the deletes of `portfolio_strategies`; `Boot` is `SeedBoxHunterStrategies`. A strategy
is its name, notes and version; the numeric columns, which no decision reads, are left
out. Each statement may fail; where the handler drops the error the request goes on.

| in the code | in the module |
|---|---|
| `CreateStrategy` | `Insert`, `Fetch`, `LogRow` |
| `UpdateStrategy`: read, snapshot of changed notes, UPDATE, read, log | `ReadOld`, `Snapshot`, `Write`, `Fetch`, `LogRow` |
| `DeleteStrategy`: count of uses, row for the log, DELETE, log | `CountUses`, `Keep`, `Drop`, `LogRow` |
| `PatchPortfolioStrategy`: count, upsert, row of `portfolio_strategy_history`, ACTIVATE row of `strategy_history` | `Validate`, `Upsert`, `Track`, `Activate` |
| `PatchCoinActiveStrategy`, the legacy route: the same without `Track` | `Validate`, `Upsert`, `Activate` |
| DELETE of the assignment with a coin or portfolio | `Clear` |

`strategy_history` holds two kinds of rows: a strategy as CREATE, UPDATE or DELETE left
it (`logged`, by strategy) and the assignment an ACTIVATE made (`activated`, by key).
`was` (every content a row has had), `route` and `calm` (no two requests overlapped,
nothing failed) are history variables.

### SchemaBoot (schema)

`createTables` statement by statement at each start, on a new database or one an older
version left: two ALTERs whose errors are dropped, then CREATE TABLE IF NOT EXISTS.

### GatewaySession (conversations)

A worker is a goroutine of `onMessageCreate`. `runner[c]` is `claudeSessionID` of the
channel's `resumeRunner`, `store[c]` the row of `sessions`, `lock[c]` the channel's mutex.
Claude is external: a conversation is the set of turns it holds, and one run of the
command may continue the resumed conversation under the same or a new id, print
something that is not JSON, fail, or be ended by the 20 minute context.

| in the code | in the module |
|---|---|
| `channelMu(...).Lock()`, deferred `Unlock()` | `Lock`, `Return` |
| `getOrCreate` | `GetOrCreate` |
| `resumeRunner.send` | `ClaudeAnswers`, `ClaudePrints`, `ClaudeFails`, `ClaudeTimesOut` |
| the retry of `SendMessage` with a fresh session | `Drop` |
| `model.Upsert` | `Upsert` |
| `ResetSession` | `ResetSession` |
| death of the gateway and restart | `Crash` |

`convs`, `epoch` and `shown` are history: what Claude remembers, acknowledged resets, and
answered turns of the present conversation.

### CronJobs (cron jobs)

A worker is the goroutine of a `!cron` command. `file` and `whole` are `jobs.json`
(`whole` is FALSE between the two steps of `os.WriteFile`, and after a failure between
them), `jobs` is `Handler.jobs`, `scheduled` is `scheduledJobs` and with `ticking` the
scheduler. A job is its enabled flag and its text (schedule, payload, delivery); fields of
the file that the program does not declare are not part of it.

| in the code | in the module |
|---|---|
| `refreshJobs`, `LoadJobs`: read without the mutex, then `h.jobs = ...` under it | `ReadFile`, `Adopt` |
| `SetEnabled` from `jobsMu.Lock()`; `saveJobs` | `Toggle`; `Truncate`, `Write` |
| `reschedule`, with the mutex of `SetEnabled` or `Reload` | `Reschedule` |
| `Trigger` | `Find` |
| `main`: load and start, SIGTERM, end | `Start`, `Stop`, `Exit` |
| an editor of `jobs.json` | `Edit` |

The unlocked read of `h.jobs` in `findJob` is one step: while the number of jobs stays
the same, which the module assumes, a slice header read while it is replaced still
points to a complete list.

### Relay (relay, memory, job runs)

A worker is a goroutine, of `onMessageCreate` from the return of `SendMessage` on or of
`runJob`. Neither holds a mutex here, so all of them overlap. `daily[d]` is the file of
day d (`exists`: it has been created), `current` is `current-memory.md`: the lines of its
archive, each of which begins with "- " (and then counts as a line of the archive when
the file is read again), is a rule (which ends the archive) or other text, and the turns
kept in full. A missing, truncated or unreadable file reads as an empty one.

| in the code | in the module |
|---|---|
| `SendMessage` returned, `Append` is called | `Answered` |
| `appendDaily`: `os.Stat`, `os.OpenFile`, `Fprintf` | `Stat`, `Open`, `WriteDaily`; `DailyFails` |
| `updateCurrent`: `os.ReadFile`, `os.WriteFile` (truncates, then writes) | `ReadCurrent`, `Truncate`, `Write` |
| `archiveLine`, `parseCurrent`, the body of `updateCurrent` | `ArchiveLine`, `Parsed`, `Updated` |
| `sendChunked` | `Cut`; `PostPiece`, `PostLast`, `PostFails` |
| `ChannelMessageSend`, which encodes the message as JSON | `Post`, `Encoded` |
| `runJob`, `isQuietHour`, `deliver` | `StartJob`, `JobAnswered`, `JobFails`, `Check`; `IsQuietHour`; `Deliver` |

A text is a sequence of bytes of a few sorts (see the module), among them the two of a
character that takes two. Go's JSON encoder, which discordgo uses, puts U+FFFD (`"lost"`)
in the place of a byte that is of no whole character (`Encoded`), so a cut inside a
character shows in Discord. Answers are short, so `truncStr` cuts none of them, and no text holds the HTML comments that mark an entry.
`turns`, `pieces`, `recorded`, `unwritten`, `complete` and `calm` are history variables.

What the model makes visible without a promise to hold it against: two Appends that
overlap lose entries of `current-memory.md` (all of them, if one reads what the other has
truncated), and may leave a daily file with two headers or one in the middle; an answer
whose lines begin with "- " leaves these lines in the archive as if they were turns.

### MarketData (daily candles)

A worker is a goroutine that takes the steps of a plan one after the other: `"boot"` and
`"nightly"` of `StartDailySyncScheduler`, a client with a sync request, or `"backfill"`,
a process of its own. Time is in half days, so that 16:00 UTC (01:00 KST) lies within a
day. `candles` holds one row per day and market; the value of a candle is the time it was
asked for, or `Final(d)` once day d is over, so that an older answer can be told from a
newer one. `indicators[coin][d]` is what the stored indicators of day d were computed
from, the candles up to it: that no later one is read is `RowsStay` of `Indicators`.

| in the code | in the module |
|---|---|
| `FetchAndStore`, `FetchAndStoreUpbit`, `FetchAndStoreBithumb`: the GET; the transaction of upserts | `Fetch`; `Store` |
| `CalcAndStoreAllIndicators`: SELECT of all rows; the transaction of UPDATEs | `ReadCandles`; `StoreIndicators` |
| an error of either: logged, the next step follows | `FailStep` |
| the goroutine of `StartDailySyncScheduler` at the start | `BootPlan` |
| its loop: sleep until 01:00 KST; `runSync` | `NextNight`, `Wake`, `Sleeps`; `NightPlan` |
| `POST /sync`, `/upbit/sync`, `/bithumb/sync`; `cmd/backfill` | `Request` with `SyncPlan` |
| death of the server and restart | `Die`, `Start` |

`clean` and `settled` are history: when the night run in progress began, if nothing has
disturbed it, and the days settled by undisturbed night runs that ended the UTC day they
began.

Without a promise to hold it against: between two nights an older answer may overwrite a
newer one; `POST /sync` and the backfill change candles and leave their indicators as
they were until the night; the boot does not sync Binance.

### Indicators (technical indicators)

One operator per function of `indicators.go`, over integers with division rounding
down, the periods as constants: `StoredRows` is what `CalcAndStoreAllIndicators` writes,
`LiveRow` what `calcIndicatorsFromTable` gives a daily ticker, `HourlyRow` what the hourly
tickers compute. Since every operator divides as often as the code does and at the same
places, two places that agree here compute the same expression there. A loop of the code
that carries a value (a sum, an average) is a recursive function; the two loops of
`calcADXSeries` are `DXSeries` and `Smoothed`. `PeriodsAssumption` names what the code's
periods satisfy and the alignments rely on (12 < 26, 26 + 9 < 120, 14 < 26 + 9,
14 <= 2 * 14).

What the module makes visible: `adx14` is Wilder's ADX in `daily_prices` and a DX of
exponential averages in the tickers; the MACD of the rows before the 26th is 0 until the
table has 26 rows and is filled in afterwards; the signal line begins at index 26, not at
the 25 its comment names (`indicators.go:194`, section 6); the RSI of a market that stands
still is 100. A ticker selects 120 rows (`LatestRows`, `Window`): beyond that its EMAs,
MACD and signal line, which remember every candle since their seed, start at another
candle than the table's and differ. `LiveMatchesStored` therefore compares them with what
the table would store had it only those rows, and moving averages, RSI and bands, which
lie within the window, with the table itself. The two ADX are modelled and compared
nowhere: on real candles they differ, on both sides of the bounds at which the seeded
strategy acts (`db.go:371`), and no text says that they are the same.

### Performance (returns of a portfolio)

`GetPerformance` over slots of a day: the age of the portfolio (`LifeDays`; its
`created_at` is Korean time, of which the date is read as one of UTC, and an age of
30 days, `DefaultAge`, stands for one that cannot be read), the fixed periods
it has reached, the cutoff of each, the holdings after the latest trade before the
cutoff, the price of the latest candle up to it, and the field the return goes to.

What the module makes visible: the code does not cap the age, although
`models/simulation.go:122` says "capped at 30" (section 6); `return_life` is null on the days when the age is 1, 7 or 30, since the
return is in the field of that period; `executed_at` is in seconds, so of two trades in
one second either may count as the latest.

## 4. Runs and bounds

Passing runs (TLC explores every reachable state of the instance):

| run | states | what it shows |
|---|---|---|
| `SimTrading_turns` | 285,606 | Two clients that take turns on each of two portfolios with two coins (one protected from deletion), three requests of all seven kinds, nothing fails. `LedgerChain`, `StateMatchesLedger`, `AvgCostIsBookCost`, and `ImplementsLedger`: every behaviour is one of `SimLedger`. |
| `SimTrading_concurrent` | 455,897 | Four requests of two clients on one key interleave statement by statement, with one failing statement or death. `TypeOK` (no negative cash or units) and `PositionMatchesUnits` survive even stale reads; and `sim_state` changes only with the trade that explains it (`UpdateIsBooked`), unless a reset or removal has deleted that trade. |
| `GatewaySession` | 222,820 | Two channels, two goroutines, three messages or resets, one failing statement, one death: four safety properties and `MessagesAnswered`. |
| `StrategyLibrary` | 1,405,001 | Three requests of two clients on up to two strategies and two keys, one failing statement or restart: seven safety properties, of which five (`NotesAreKept`, `NothingDangles`, `HistoryShowsActive`, `LogShowsRow`, `ActivationShown`) speak of requests one after another. |
| `CronJobs` | 531,589 | Two commands on two jobs (and an unknown name), an edit of the file, a failing file operation, two starts: five safety properties and `CommandsAnswered`. |
| `Relay` | 3,675,196 | Two goroutines, three turns of which one may be a job's run, two answers, midnight, one failing operation or post, or one death: `MemoryInTurn`, `DailyHasAll`, `AnswersWhole`, `JobsSpeakInTime`. `maxRecent` is 1, a message 3 bytes and a day 2 hours long, so that three turns reach an archive that is read back, both kinds of cut, one of them through a character, and quiet hours over midnight. |
| `MarketData` | 192,135 | Three days of one coin on Binance, which returns two candles here, and another exchange; boot, nightly loop, a sync request or backfill, one failure or death: `SettledForGood` and `NightRepairs`. And, as functions that TLC evaluates once, in the initial state: the 5,461 tables of up to seven candles that four moves of the price make (`LiveMatchesStored`, `RowsStay`), and a portfolio created in any of 8 slots of a day, whose `created_at` can be read or not, at every time of its first four days, with two trades at any times (`ReturnsCoverLife`). |

Runs that find a violation, each a finding of section 6: `SimTrading_race`,
`SimTrading_crash`, `StrategyLibrary_delete`, `SchemaBoot`, `CronJobs_lost`.

Every property of a passing run has a mutant of the code in its module, marked
`\* Mutant`, under which TLC finds the property violated in the same instance.

*Why the bounds are enough to be useful.* All conflicts in this code are between two
requests on the same row, file or channel, so two clients suffice to interleave them; a
third request (a fourth in `SimTrading_concurrent`) lets an earlier one leave the state
that the other two disagree on (a row to trade with, an assigned strategy, a saved
session). Two keys, channels, strategies or jobs are what it takes to mix them up. One
fault falls on each statement in turn, since the model tries every place. The arithmetic
is exercised by two prices, two fee divisors and amounts "all" and "part": enough for a
BUY, an additional BUY, a refused BUY and a SELL; price 1 on a KRW exchange stands for a
price in USD, which is refused. In `MarketData` three days are one that is over when the
server starts, one that ends while it runs and one that does not; two candles per answer
let a day drop out of Binance's. The periods of the indicators are 2 and 3, in the order
of the code's; a ticker's window of six candles is longer than the longest alignment
(`Slow + Signal`, `2 * AdxPeriod + 1`) by one, and a table of seven longer than the
window; the moves of the price are two up, one down and none, and a candle's range is the
wider the farther its close is from the first. The age of a portfolio with no date is 2
days. A portfolio of up to four days passes both fixed periods (1 and 2 days) and
both ends of the nine hours, here 3 of 8 slots, between the time zones. What does not depend on the bounds is proved
(section 7).

Deadlock is not checked: every instance stops when its requests are used up.

## 5. Fairness

Three properties need it. `GatewaySession` assumes weak fairness of each worker's step
and strong fairness of `Lock`; `CronJobs` strong fairness of each worker's step, several
of which wait for `jobsMu`. This is what the Go runtime gives: a goroutine that can run
does, and `sync.Mutex` hands over to a waiter that has waited for 1 ms, so none starves.
Claude ends because `exec.CommandContext` kills it when the context ends; the assumption
is that no process Claude has left behind keeps its output pipe open, for which the
code sets no `WaitDelay`. No fairness is assumed for arrivals, deaths or edits.

`MarketData` assumes weak fairness of each goroutine's step, of the nightly timer, of the
restart (systemd) and of time. The goroutines share no lock, so one that can run goes on
being able to. That an exchange answers or refuses is an assumption on its network:
`http.Get` sets no timeout, and a connection that stays open in silence would hold
up the nightly loop for good. `NightRepairs` speaks of the state after the last fault and
request of the instance, with a night to come.

## 6. Where the code disagrees with its own words

1. `SimTrading_race`: two trades at a time on one key are computed from the same row. The
   before-snapshot of the second trade is not the state it was executed in
   (`PROJECT.md:156`), and money is spent twice.
2. `SimTrading_crash`: INSERT into `sim_trades` and UPDATE of `sim_state` are not a
   transaction. After a failure between them `sim_state` is not the present position
   (`PROJECT.md:155`).
3. `StrategyLibrary_delete`: a strategy is assigned between the count of its uses and its
   DELETE, although the comment says that a strategy in use is not deleted
   (`handlers/strategy.go:368`).
4. `SchemaBoot`: on an empty database the ALTERs come before the CREATEs, and the CREATEs
   lack the columns, so the first start serves without `portfolios.exchange` and
   `sim_trades.fee`, which `db.go:44` and `db.go:49` promise to add.
5. `CronJobs_lost`: a `!cron` command that has read `jobs.json` before another one saved
   it puts the old list back into memory and scheduler, after the other was answered
   with "crontab 반영 완료" (`discord.go:198`).

Two more are of the text only, and the run `MarketData` shows what the code does instead:

6. `max_period` is the age of the portfolio (`simulation.go:560`), not "capped at 30"
   (`models/simulation.go:122`). `ReturnsCoverLife` holds because nothing caps it: the
   return since creation is there whatever the age.
7. The signal line is seeded with `raw[26]` to `raw[34]` (`indicators.go:201`), not
   "starting from index 25" (`indicators.go:194`). `LiveMatchesStored` holds because the
   tickers begin at the same candle; its mutant is a ticker that begins where the comment
   says.

## 7. Proofs

The proofs are in the modules named `..._proofs`, which extend the module they prove
about. They hold for every number of clients, goroutines, portfolios, coins, channels,
strategies, keys, jobs, days, requests, failures and deaths; the assumptions are the
`ASSUME`s of the modules (constants are naturals or disjoint sets, capitals and fee
divisors are positive, the server starts on a day the instance has, the relay's first
hour is not after its last, the periods of the indicators are in the order of the
code's), which TLC evaluates in the runs. Every proof about a state machine has the
same shape: `Init => IInv`, one lemma per action that it keeps `IInv`, and `IInv` implies
the property. Every `IInv` was first checked by TLC as an invariant of the run.

* **SimTrading_proofs** (`TypeCorrect`, `PositionCorrect`, `UpdateCorrect`). `IInv` is
  `TypeOK`, `LocalOK` and `PositionMatchesUnits`. `TypeOK` is not inductive: that a BUY
  leaves no negative cash follows from a check made on a row read two statements before
  it is written, so `LocalOK` carries that check (`seen[c]` is a row and `GoesOn` held of
  it) up to the UPDATE. That no other request interferes with the local copy is why the
  amounts stay natural although the row may have changed. For `UpdateIsBooked`, an action
  property of any interleaving, `Booked` is added: the trade of a request that is about
  to execute its UPDATE is in the book, or its deletion is in `forgotten`.
* **SimTurns_proofs** (`ChainCorrect`, `StateCorrect`, `LedgerImplemented`, `CostCorrect`), for clients
  that take turns (`Exclusive`) and as long as nothing has failed, which is the instance
  `SimTrading_turns`. A row and its book disagree only while one request stands between
  two of its statements. `TurnsInv` therefore says: a key at which no request is
  *halfway* is settled (the row is what the last trade left, or a fresh row with an empty
  book); the copy a trade has read is still the row; a request whose first statement is
  done has left exactly the state that its second statement completes; and books are
  chains. `LedgerImplemented` is the refinement of `SimLedger`: account and book of a key
  are mapped to those after the statement that counts (the INSERT of a trade, the
  DELETE of a reset), so a request halfway is mapped to its end; then each
  action of the code is one step of `SimLedger` or none. `MaxFaults = 0` is
  the hypothesis: with a failure between the statements it does not hold
  (`SimTrading_crash`). `CostCorrect` builds on the refinement: that an account's cost is
  the cost of its book (`AllCosts`) is kept by every step of `SimLedger`, and a row on
  which nobody works is such an account. So the two statements of a trade need not be
  looked at again.
* **GatewaySession_proofs** (`SessionTypeCorrect`, `BelongsCorrect`, `NotSharedCorrect`,
  `ContextCorrect`, `SavedCorrect`). `IInv` is `TypeOK` and four facts: `Held`, a worker
  between lock and unlock holds its channel's mutex; `EpochKept`, such a worker's epoch is
  the channel's, because a reset needs the mutex; `RunnerKept`, a worker after
  `GetOrCreate` has its runner in memory; and `Owned`, every id in memory or row is of a
  conversation of the channel's own epoch. Mutual exclusion of Claude processes follows:
  within a channel from `Held`, across channels from `Owned`. For `ContextCorrect` and
  `SavedCorrect` what is stored between messages is added (`Saved`): as long as
  gateway.db has answered, row and runner agree, except between Claude's answer and the
  Upsert of the one worker that holds the mutex.
* **StrategyLibrary_proofs** (`LibraryTypeCorrect`, `SnapshotsCorrect`,
  `VersionsCorrect`). What a snapshot and an UPDATE write was read one or two statements
  earlier. `IInv` adds to the tables' facts that `was` holds what each row shows
  (`RowWas`) and, while nothing has failed, that the versions below a row's are covered by
  snapshots (`RowCovered`); and for each request what its stale copy is good for: the
  content it read is one the row had (`SeenWas`), and the versions below what it will
  write are covered (`WriteCovered`). Both only grow, so other requests cannot invalidate
  them: snapshots and contents are never deleted.
  The same module proves the five properties of requests one after another
  (`NotesCorrect`, `DanglingCorrect`, `HistoryCorrect`, `LogCorrect`,
  `ActivationCorrect`). `CalmInv` says of
  every state in which nothing has overlapped or failed: at most one request is under
  way (`Alone`), what it knows is still so (`Knows`: the row it has read, the use it has
  counted), and each strategy has its notes, its log and its uses in order except for
  what that one request still owes (`Noting`: the snapshot is written and the row not
  yet; `Logging`; `Tracking`; `Activating`). The hard case is the delete: the count of uses that found
  none still holds when the row is dropped, two statements later.
* **MarketData_proofs** (`TypeCorrect`, `SettledCorrect`). A day is settled by a night
  run that nothing disturbs and that ends the day it began. The invariant follows that
  run backwards from its end: `RunOK(c)`, for a run that began at time c, says of every
  step still in its plan what it will find (candles asked for since c and, after the
  exchange steps, the rows of every day that c closed), `FetchedSince` that an answer in
  hand was asked for after c, and `Stays` and `ForGood` that whatever another goroutine
  writes later on a day that is over, a final candle or indicators of final candles,
  leaves it as it is. This is where the proof needs that upserts of an over day carry
  `Final(d)`, whenever they were asked for after its end. A run that goes on past
  midnight UTC has asked one exchange before and one after, and settles no day that
  ended in between: that condition was missing from the model until the proof needed it.
* **CronJobs_proofs** (`TypeCorrect`, `AcksCorrect`, `EditsCorrect`, `TornCorrect`,
  `TriggerCorrect`). Two invariants. `FileOK` holds of any interleaving: a worker that
  toggles, saves or reschedules holds `jobsMu`, and the file is torn only while that
  worker is between the two steps of `os.WriteFile`, or after one failed there. `TurnOK`
  holds while commands come one after another: there is one command (`OneByOne`), what it
  has read is the file (`ReadOf`), and for each job the acknowledged flag and the newest
  text are in file, memory and scheduler, but for the copies the command has not reached
  (`AckOf`).

* **Relay_proofs** (`TypeCorrect`, `JobsCorrect`, `DailyCorrect`, `MemoryCorrect`,
  `WholeCorrect`): all safety properties of the relay. `IInv` has the types, that no two
  goroutines work on one turn (`Apart`), and that only answers of the conversation go to the
  memory and only jobs to their checks (`Roles`). Each property adds an invariant to it.
  `SpeakInv`: a job that delivers has passed its checks (`Fine`), at the hour kept with its
  turn. The two shapes of `isQuietHour` are there shown to be the set of hours `QuietHours`
  walks through, for every length of a day. `DailyInv`: a turn stands nowhere before its
  append and, unless it failed, once in the file of its day from then on. `CalmInv`: as
  long as Appends do not overlap, what is in the file, or in the hands of the goroutine
  between its steps, is what `Remembers` says of the recorded turns; the heart is
  `UpdatedIs`, that parsing a rendered memory of any length and adding a turn does it again.
  `WholeInv`: what a goroutine still has to post is what the posted messages lack of the
  answer (`Left`), whatever newlines the cuts swallow, and if all lines fit no line has
  been cut (`SameLines`). A message that was encoded is `Alike` its text, byte for byte
  but for lost ones; that is kept when newlines are dropped (`TextsAlike`) and messages
  joined (`AlikeConcat`). A text that the encoder leaves as it is (`Valid`) falls, at a
  newline, into two that it leaves as they are (`ValidParts`): so where lines fit nothing
  is lost.

* **MCMarketData_proofs** (`AnswerCovers`, `ReturnsCorrect`, `RowsCorrect`,
  `LiveCorrect`): what `Performance` and `Indicators` compute, for every length of a day,
  offset, set of periods, default age, list of moves, and table of any length; these are
  facts of functions, not of states. `AnswerCovers`, for any history of trades and any
  table of closes that reaches back far enough: the date of the longest cutoff is the one
  read from `created_at`, or the day before the present one (`LifeIs`, `CutoffIs`); at
  most one period fills each field (`PeriodOf`); and what the portfolio held at a cutoff
  exists and is one, unless two trades are of one second (`HoldingsAre`).
  `ReturnsCorrect` is its instance for the trades and closes of the run.
  `RowsCorrect`: two runs with the same seed and the same steps up to a row have the same
  values up to it (`RunAgree`), so a prefix of a table determines the averages
  (`EMASame`, `SignalSame`), Wilder's sums and the ADX of its rows (`WilderSame`,
  `ADXSame`). `LiveCorrect` uses the same `RunAgree` with one run shifted against the
  other: the MACD line of a ticker begins with the candle after the `Slow`-th of the rows
  it reads, and its signal line is the series' of those rows from there on
  (`SignalMatches`); moving averages, RSI and bands depend on no row outside the window.
  Nothing here depends on the length of a period.

`BookCost`, `Selected`, the concatenation of messages and the sums and averages of
`Indicators` are recursive functions over sequences of any length. Where a proof needs
what they compute, it first shows that a function with their steps exists and is unique,
by induction over the numbers; in `MCMarketData_proofs` each of them is a `Run`: seeds up
to some index, and beyond it a step from the value before. The
induction theorems of the library cannot be instantiated by the provers, so `SetInduction`
states induction for a set: a set of naturals with 0 and with the successor of each of
its elements has all of them, since the least number it lacks would have a predecessor.
It follows from `WFMin` and `NatLessThanWellFounded`.

## 8. Only model-checked

* The three liveness properties (`MessagesAnswered`, `CommandsAnswered`, `NightRepairs`):
  fairness and ENABLED are out of the prover's reach.
* The five disagreements of section 6, each with the behaviour TLC prints.

Every invariant and action property of a passing run is proved, and so is the refinement
of `SimLedger`. Two limits of what is proved: the candles of `LiveCorrect` and
`RowsCorrect` have a range that is determined by their close (`Candle`), which matters
for the ADX only; and `AnswerCovers` assumes that each trade leaves something, in cash or
in units.

## 9. Not modelled, and why

* The loops of the tickers: each ticker table has one goroutine that writes it, and
  replaces a row as a whole, so no order of steps can go wrong; the values they write are
  in `Indicators`. The change of the coin's own price in the answer of `GetPerformance`,
  whose cutoff and price are those of the return. The JSON of the exchanges.
* In the relay: the typing indicator, empty messages, notices of errors, characters of
  more than two bytes.
* The persistent runner (`session/persistent_session.go`): nothing calls it.
* HTTP wiring, read-only handlers and data types: they change no state; the shapes of
  their data are the records of the modules.
* The front end: nothing on the server depends on it.
* Shell scripts, builds, agent documents.
* Float64 rounding of amounts, and text: names, notes and messages are values that can
  be told apart.

## 10. Plan

What a further version would add, in this order:

1. **Front end**: the hooks whose answers may arrive for a coin the user has left.
2. **Tickers**: a bound on how far an average of a ticker is from the table's once the
   table is longer than `Window`.
