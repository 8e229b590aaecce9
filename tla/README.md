# A verification development for exchange-ts

TLA+ modules, TLC configurations and TLAPS proofs for the exchange in this
repository. Paths are relative to the repository; a file name alone, as in
`matcher.ts:136`, is a file of the package under discussion.

## 1. Inventory

The repository holds two interchangeable backends, TypeScript (`packages/`) and
Go (`packages-go/`), one UI and one simulation client. A request goes

    client -> gateway -> ledger /reserve -> engine /orders -> Redis stream engine.events
                                                                |            |
                                                             ledger      marketdata -> Redis pub/sub
                                                                                         |
    client <- WebSocket <-------------------- gateway <-----------------------------------

| component | state | operations | how it interacts |
|---|---|---|---|
| Order book, `book.ts` | two B-trees of price levels, each a linked FIFO with a cached total; index id -> (side, level, node) | rest, peekTopOrder, reduceTopOrder, cancel, get, depth | owned by the matcher; also mutated by the replayer |
| Matching engine, `matcher.ts` | book, `seq`, ids already used per user | submit (validation, idempotency, pre-checks, match loop, remainder), cancel, hooks for replay | synchronous; returns the list of events of a call |
| Event log, `eventLog.ts` | the Redis stream | append (XADD, then PUBLISH), replayInto | called by the engine service |
| Engine service, `server.ts` | the engine, the log, the `resetting` flag; handlers suspended at an `await` | POST and DELETE /orders, POST /admin/reset, boot | HTTP from the gateway, Redis |
| Ledger accounts, settler | free and locked balance per user and asset; open buys with what is still reserved | reserve, release, debit/credit, settle a trade, release a remainder | /reserve and /release from the gateway; events from the stream |
| Ledger service | mode (replay or live), consumer generation | startConsumer, routes, reset | the stream consumer |
| Stream consumer, `streamConsumer.ts` (in ledger and marketdata) | cursor, loop it is in, current page | XRANGE pages, then blocking XREAD | the stream; the service that iterates it |
| Gateway, order path | none between requests | reserve, submit, release on reject | calls ledger, then engine, then ledger |
| Gateway, WebSocket | clients, reverse map, upstream Redis subscriptions | subscribe, unsubscribe, close, fan-out | Redis pub/sub |
| Market data | L2 view, tape, 1m and 5m candles, ticker | apply an event, candle timer, L2 snapshot timer, reset | consumes the stream, publishes channels |
| UI store | L2, trades, candles, ticker, balances, open orders | reducer, bootstrap, WebSocket | gateway |
| Simulation | none | walkthroughs, resetAll | gateway and admin routes |
| Go backend | as above | as above | as above, handlers on several threads |

What makes each of them correct, and what is hard about it:

* **Book.** Its three representations describe the same orders; totals are
  exact; a queue is in order of acceptance. Hard: long sequences of partial
  fills, cancels in the middle of a queue, levels that empty.
* **Matcher.** Never crossed; trades honour limit, price and time priority;
  quantity is conserved; every call ends; the defensive throw for FOK
  (`matcher.ts:189`) is unreachable, since it would leave fills in the book
  that no event records.
* **Event log.** The events determine the engine: replay gives the same book,
  counter and idempotency set. Hard: the replayer has no `rested` event and
  infers from the next event that an order rests.
* **Engine service.** The stream is the emission order, no event is lost, a
  retry after a failure is safe, a reset leaves a clean stream. Hard: handlers
  are suspended between the appends of one call; crashes and refused appends in
  between.
* **Ledger.** Money is conserved, a balance is never negative, what an order
  reserves is used or given back, a replayed ledger equals the live one. Hard:
  the floors of partial notionals, price improvement, MARKET buys, a lagging or
  restarted consumer, a reset that runs while orders are placed.
* **Stream consumer.** Nothing skipped, nothing twice, the change from history
  to live where it should be. Hard: entries added during the change, a page that
  is exactly full, a stream deleted below the cursor.
* **Gateway.** Every reservation is matched by an order or released; the two
  maps of the fan-out and the upstream subscriptions agree. Hard: any of three
  calls fails; commands to Redis are not waited for; a connection's successor is
  there before the connection is known to be gone.
* **Market data and UI.** The view equals the engine's depth when events have
  drained, and the screen equals the view. Hard: timers interleave with awaited
  publications; snapshots race deltas.

`PROJECT.json` lists every component with its state of modelling, and under
`hazards` every hard case at the line where it bites, those no property covers
included.

## 2. The modules

| module | models | kind |
|---|---|---|
| `OrderBook` | `book.ts`, and the order record of `types.ts` | operators on a book value |
| `Matcher` | `matcher.ts` | state machine |
| `EventLog` | `replayInto` of `eventLog.ts` | operators; a fold over the stream |
| `L2Book` | `l2book.ts` of market data | operators on a view |
| `MatcherReplay` | matcher, replayer and depth view in lock-step | composition |
| `EngineServer` | engine `server.ts`, `append`, the Redis connection | composition of matcher, replay, handlers, crash and reset |
| `Ledger` | `accounts.ts`, `settler.ts` | operators on a ledger value |
| `Exchange` | the order path of the gateway, the engine, the ledger service, `resetAll` | composition of matcher and ledger |
| `Delivery` | what a consumer of the stream may rely on | abstract specification |
| `StreamConsumer` | `streamConsumer.ts` | state machine, implements `Delivery` |
| `Candles` | `tape.ts`, `candles.ts`, `ticker.ts` | operators |
| `MarketData` | market data `server.ts` | composition of consumer, view, candles, timers, screen; implements `Delivery` |
| `UiStore` | reducer and socket handler of `store.ts` | operators on a screen |
| `FanOut` | the WebSocket part of gateway `server.ts` | state machine |
| `Feed` | market data's depth, gateway, sockets, browser | composition of fan-out and store |
| `BookTheorems` | the operators of `OrderBook`; sums over finite sets, which the models write as folds | lemmas and proofs |
| `LedgerTheorems` | the operators of `Ledger`; what a stream of events adds up to | lemmas and proofs |
| `MatcherProofs`, `ReplayProofs`, `ServerProofs`, `ExchangeProofs`, `MarketProofs`, `FeedProofs` | `Matcher`, `MatcherReplay`, `EngineServer`, `Exchange`, `MarketData`, `Feed`, and the parts they compose | proofs |
| `MCMatcherReplay`, `MCEngineServer`, `MCExchange`, `MCMarketData`, `MCFeed` | | the symmetry sets, scripts and views of the runs |

### OrderBook

A book is a value `[levels, refs]`, so that the running engine, the replayer
and a restarted engine share one definition. `levels[side]` is a function from
the prices that have a level to `[queue, totalQty]`; the linked list is the
sequence `queue`, a `ListNode` is a position of it. `refs` maps an id to side
and price; the node it also holds in the code is recovered by `PositionOf`.
`totalQty` is kept by hand as in the code and not derived. `IsBest` is the
`minKey()` of a tree. The comparators of the two trees are `Better`.

Left out: rebalancing of the B-tree, order status, timestamps.

### Matcher

Variables: `book`, `seq`, `seen`, `nextId` (the source of order ids: ULIDs are
fresh, so a counter that is never reset), `order` (the incoming order while a
call runs) and `events` (the list the call builds). JavaScript does not
interrupt a call, so no action of another call is enabled while `order` is
set; a step is an iteration of the match loop, which lets the properties see
the book inside the loop.

| action | code |
|---|---|
| `RejectInvalid`, `RejectDuplicate`, `RejectPrecheck` | `matcher.ts:71-122`, in the order of the code: an invalid command does not spend its id, a failed pre-check does |
| `Accept` | `matcher.ts:95-133` |
| `Match` | the fill, `matcher.ts:153-175` |
| `StopOnSelfTrade` | the STP break and its cancel, `matcher.ts:147-180` |
| `RestRemainder`, `CancelRemainder`, `Filled` | `matcher.ts:177-194` |
| `CancelHit`, `CancelMiss` | `matcher.ts:196-202` |

`CancelRemainder` has no case for FOK: in the code that case throws. A reachable
throw would appear as a stuck call, and `FOKPromiseKept` says why there is none.
`FullyFillable` is the walk of `fullyFillable`, which stops at the first own
order.

### EventLog, L2Book and MatcherReplay

`ReplayEvent` is the body of the loop of `replayInto`, `FlushPending` its
helper, `ReplayInto` the fold over a stream with the flush at the end.
`failed` stands for the throws of `reduceTopOrder`, which make the process
exit. `L2Book` is market data's depth view, which adds an order when it is
accepted and takes it back fill by fill. `MatcherReplay` conjoins the next-state
relation of `Matcher` with `Follow`, which feeds each emitted event to a replica
and to a view.

### EngineServer

`running` is the handler inside the matcher, `todo[h]` the events its call has
still to append, `wire` the commands sent to Redis and not executed yet,
`stream` the stream; `blocks` (the event lists returned) and `givenUp` (events a
handler dropped with an error) are histories. `Request` and `Compute` are the
handlers up to the first XADD, which is sent in the same turn as the submit;
`Land` is Redis executing an XADD; `SendNext` is the append loop resuming when
both replies are back; `AppendFails` is an XADD or PUBLISH that rejects, after
which the request is answered with an error and the engine goes on;
`StartReset` and `FinishReset` are `/admin/reset` before and after its DEL is
executed; `Restart` is the process dying and booting again from
`ReplayInto(stream)`.

Abstractions: Redis executes the commands of the one connection in the order
they were sent. The reply to DEL and the code that runs on it are one step
with its execution, so nothing is appended in the short time between them. A
crash inside the matcher is the same as one before the request, since nothing
was sent. The pub/sub copy is not modelled, nothing in the engine reads it; its
failure is, since it ends the append loop. Malformed bodies and read-only routes
change no state.

### Ledger and Exchange

A ledger is a value `[balances, openBuys, thrown]`. Each method of `Accounts`
and `Settler` is an operator on it; a method that throws sets `thrown`, after
which the other operators do nothing, so a settlement that throws half way
keeps its first half, as the consumer's `try` and `catch` does
(`packages/ledger/src/server.ts:56-63`). `Apply` is one event in live or in
replay mode, `Replayed` a ledger after a replay of a whole stream, and `Rebuild`
that of a cold one. The events are records of `OrderBook`, which the matcher and
the ledger share as the services share the common package. Accounts come into
being with a fixed endowment, so they are there from the start, the fee account
included. Amounts are integers and every `/ BTC_ONE` is a floor, with `BtcOne`
and the fee rate as constants: small ones make rounding happen at small amounts.

| action of `Exchange` | code |
|---|---|
| `ReserveFunds` | the gateway's POST /api/orders up to the answer of POST /reserve |
| `Place`, `RunMatcher` | POST /orders on the engine, up to the XADD of the call's first event |
| `AppendNext` | the append loop, `packages/engine/src/server.ts:134`: one more event of the call enters the stream |
| `AppendFails` | Redis refuses one: the rest of the call is never written |
| `RollBack` | POST /release after a rejection |
| `BreakOff` | any of the two later calls fails, or the gateway dies |
| `UserCancel` | DELETE /api/orders/:orderId; its one event enters the stream at once |
| `Consume` | one event of the ledger's live loop |
| `Replay` | the history a new consumer reads, up to a point no earlier than the stream's end when it started |
| `LedgerRestart` | the ledger's process dies and boots |
| `ResetEngine`, `StartLedgerReset`, `FinishLedgerReset` | `resetAll`: the engine's /admin/reset, then the ledger's in its two halves |

Abstractions: a matcher call is not interleaved with the ledger, since its
steps touch neither stream nor ledger before the last one. With that one its
first event enters the stream; the others follow one by one (`todo`), and
the ledger, other requests and cancels run in between. An order is in the book
before the first reply is back, so its owner may cancel it then, and the cancel
enters the stream before the order's own trades. The XADD of a first event or of
a cancel and its execution are one step here, and the engine's death and the
refusal of a first event are left out: these are in `EngineServer`. A refused
reservation changes nothing and has no step. The gateway takes no new request
when the bounds on orders and sequence numbers are reached.

`overlapped` is a history that ends what the properties speak of. It is set when
a request was under way, or an append loop, as the stream or the accounts were lost, when
Redis refused an event (the book then knows of a fill or a cancel that the ledger
never hears of), and when the ledger reserved on accounts that were not those of its stream: while it was
replaying, or when the engine's half of a reset had deleted the stream and the
ledger's half had not come yet (`outdated`). In the last case a user spends what
he earned in the deleted stream; the order is in the new stream, and the ledger
that starts over has nothing to lock for it. This was met while proving
`NothingThrows`, which fails there. What goes wrong otherwise is the subject of
`ledger_restart`; `exchange_money` is about all behaviours up to that point.

### Delivery and StreamConsumer

`Delivery` is the contract: entries in the order of their XADD, none twice, none
left out unless it was deleted, all that was there at the start as history, and
once one is live all later ones are. `StreamConsumer` is the generator: a page
is read when the last one has been yielded (`FetchReplay`, `FetchLive`), a short
page ends the replay, `Yield` is one item. Entries are their positions, since
stream ids only grow, also across a DEL. The refinement mapping is
`last <- cursor, live <- (mode = "live")`.

### Candles and MarketData

`Candles` has the tape, the aggregator of one interval (trades, synthetic ticks,
flat bars for silent buckets, late trades dropped) and the ticker. In
`MarketData` a coroutine is a list of jobs in `todo`: compute something, publish
a message. `wire` has the publications sent and not yet executed; `Land` is
Redis executing one, after which its sender, which awaited it, runs to its next
publication. So an event that yields three messages takes three round trips,
between which timers and the reset run.

| action | code |
|---|---|
| `FetchPage`, `Consume` | the consumer loop, `server.ts:71-91`, with the snapshot at the start of live mode |
| `CandleTimer`, `SnapshotTimer` | `server.ts:101-112` |
| `StartReset`, `Clear`, `EndReset` | `/admin/reset`, `server.ts:142-163`: disconnect, wait, clear and start over, publish, answer |
| `Die` | the process dies; what was not executed is lost |
| `EngineLogs`, `EngineResets`, `Advance` | the stream and the clock |

There are two aggregators, for the shorter and the longer of two intervals, and
an entry of `log` is an event with the time the engine gave it. The variable
`late` is history: what each aggregator has dropped because its bar was closed,
by the code's own test; `CandlesCountTrades` excuses these trades.
What the engine logs is a script given in `MCMarketData`: a resting sell, a
MARKET buy, a buy that pays less than its limit, and after a reset an
engine with less in its book. That scripts and views agree for all orders is
`L2Agrees`. Time counts buckets of the shortest interval; the candle timer
fires at least once in a bucket, and its messages are executed within it. It may
fire again in the same bucket when it has something to do, which is after a
death or a reset has cleared the bars and a replay has opened old ones (`Fires`).

The comment at `packages/simulation/src/reset.ts:61-64` says that the first
events after a reset can be missed while a consumer subscribes again. The consumer
does not subscribe: it starts from `0-0` and reads with a cursor, and misses
nothing. The model follows the code, and `Delivers` is what it shows. This
takes it that the ids Redis gives after a DEL are larger than those before: it
makes them from its clock.

### UiStore, FanOut and Feed

`UiStore` is the reducer and what the socket handler makes of each message.
`FanOut` has the clients' channel sets `subs`, the reverse map `subscribers`,
the SUBSCRIBE and UNSUBSCRIBE `commands` on their way per channel, and what
Redis forwards, `upstream`. `Feed` composes the two: deltas and snapshots go
from market data to Redis (which keeps nothing for who is not subscribed), to
the gateway (`down`), to the browser's socket (`frames`), to the screen. A
connection may break (`LoseConnection`); the browser comes back under a new id
(`Reconnect`, `AskForFeed`), perhaps before the gateway hears of the end of the
old one (`GatewayHears`). `GatewayDies`, `EngineReset`, `MarketReset` and another
client's acts (`OtherActs`) come in between. `BootAnswered` and `BootEnds` are
the bootstrap's HTTP fetch and the moment its result, by then perhaps old, is
applied; it may also fail.

## 3. The runs

| run | asks | bounds | result |
|---|---|---|---|
| `matcher` | four order types, two users, two prices and a bad one, two quantities: tree, totals and index agree; never crossed; time and price-time priority; quantity conserved; an accepted FOK stays fillable; after every event the replica is the engine's book and counter, and the depth view the engine's depth | 3 orders, seq 4; 290,000 states | holds |
| `replay_dedup` | spent ids survive a restart | 3 orders, seq 3 | **violated** |
| `engine_serial` | one request at a time, the process dying at any moment: stream in sequence order, recovery exact | 3 orders, seq 4, 1 crash; 1,031,000 states | holds |
| `engine_live` | two handlers, a reset, a refused append: each call logged in its order and whole but for what was given up, calls opened in the order they ran, every request answered (so every matcher call ends), every reset ends | 2 orders, seq 4, fair; 378,000 states | holds |
| `engine_retry` | a retry after a refused append is safe | 1 handler, 1 refused append, no crash | **violated** |
| `exchange_money` | limit orders with a lagging ledger, append loops that others overtake, the ledger's deaths and replays, resets, requests that break off: conservation, nothing refused, locks are commitments, open buys are the book's buys, replay gives the live balances | 2 orders, seq 4, 2 faults; 2,486,000 states | holds |
| `exchange_surplus` | what a buy reserved above the price it fills at is released | 2 orders, no faults | **violated** |
| `exchange_market` | the same agreement with MARKET orders | 2 orders | **violated** |
| `ledger_restart` | a ledger that restarts rebuilds the same whenever it died | 2 orders, 1 fault | **violated** |
| `market_data` | what is published shows the depth there is; the last ticker is that of the candles; bars count each trade once without a hole; the service catches up; its consumer implements `Delivery` | page of 2, 5 entries and 1 after a reset, 2 buckets, 1 snapshot tick, 1 death or reset, fair; 161,000 states | holds |
| `market_chart` | the chart's bars run from left to right | 3 buckets, no faults | **violated** |
| `feed` | the gateway's maps and upstream subscriptions agree; no delta lost or repeated on a connection; the screen ends up with the depth | 2 connections, another client, 2 deltas, 1 fault, fair; 743,000 states | holds |

Users, client order ids and handlers are permuted by symmetry where only safety
is checked. Two users are what self-trade prevention, ownership of cancels and
maker/taker distinguish. Two prices give a level that is better, a level that is
worse and a spread; two quantities give exact, partial and multiple fills.

Bounds. `MaxOrders` limits the order records created, `MaxSeq` the sequence
number at which no new call starts (a running call still ends); the others count
crashes, resets, refused appends, faults, snapshot ticks, deltas and messages.
The counters only count: no guard of the code depends on their size. Three
orders are the least with two makers and a taker, which is where priority,
several fills per call and self-trade prevention after a fill appear. The third
price of `matcher`, 0, is the missing or bad one that validation refuses. It has no
IOC orders, which differ from LIMIT orders only in that the remainder is
canceled, as a MARKET order's is; they are in the two engine runs.

In `exchange_money` one BTC is 2 units and prices are 2 and 7, so that splitting
an order and paying a price improvement both lose a unit to rounding, while the
improvement of two units, 5, is more than rounding can leave; an endowment
of 2 BTC units and 7 USDC units is soon exhausted. One request is in
flight at a time there, while the ledger may be any number of events behind and
cancels come in between; the second order's request may be refused, rolled back
or break off. Two faults are, for example, a request that breaks off and a
ledger that dies before or after, or a reset whose ledger half is overtaken by a
death. The constraint `NotOverlapped` stops at states in which `overlapped` is
set: every invariant is conditional on that, so
nothing is hidden by not going on from there, and `ledger_restart`, which has no
constraint, shows what follows. The view of `MCExchange` drops the event list of
a call that has returned, which no guard and no property reads.

In `market_data` a page of 2 makes the replay end both on a page that is exactly
full and on a short one, and a history of 2 bars, a tape of 1 trade and a ticker
window of 1 are full during the run. With two
buckets no bar is filled in for a bucket that was passed over: that takes a
third, with which the run is too long, and is left to the proof. In `feed` the depth is one level, which a
delta sets or takes away: levels do not interact in the store or in the view.
The snapshot timer goes on for ever, and without a bound so would the queues: it
publishes only while fewer than `MaxQueued` messages are under way, in the run
when there is none. So a snapshot of the timer has deltas behind it and none
before it; a snapshot of a reset has both, as resets and deltas do not wait. With
two it holds as well (1,660,000 states, in five times the time), and
`ScreenFollows` proves the safety for any bound.

Deadlock is checked in every run but those of `MarketData`, where everything may
have been published and the engine, the clock and the faults be at their bounds.
The others do not stop at their bounds, because a cancel of an order that is not
there, or another snapshot, is always possible.

Fairness. `FairServerSpec` has weak fairness of `Compute` (a JavaScript call,
once entered, runs on), of `Land` and `FinishReset` (Redis answers) and of each
`SendNext` (the event loop runs continuations whose replies have come).
`FairMDSpec` has it of `Work`, that is of the service and Redis as a whole: some
step that is ready is taken. `FairFeedSpec` has it of the snapshot timer, of
market data's reset, which the driver calls after the engine's, of each leg of a
message, of Redis per channel, of the gateway noticing each dead connection
(the socket library reports it), of the browser's reconnect timer and of its
bootstrap. Clients, traders, administrators, the clock and all faults are not
fair.

### What the violated runs show

1. **Idempotency after a restart** (`replay_dedup`). `submit` spends a client
   order id before the POST_ONLY and FOK pre-checks, `replayInto` restores only
   ids of accepted orders. A command that was refused is executed when it is
   repeated after a restart.
2. **Price improvement after a cancel** (`exchange_surplus`). The loop at
   `server.ts:134` waits between the events of one call, so other calls come in
   between: the stream is neither in the order of `seq` nor made of the
   contiguous blocks that the comment of `replayInto` takes for granted. A buy
   takes two resting sells below its limit and its remainder rests; its owner
   cancels it while the handler is in its append loop. The stream is acceptance,
   cancel, trades. At the cancel the settler releases the remainder and drops the
   order's limit price (`settler.ts:57`); at the trades it finds no entry
   (`settler.ts:111`) and releases no surplus. It stays locked for good, and it
   is as large as the improvement. `engine_live` and `CallsKeepTheirOrder` show
   what does hold of the stream: calls are opened in the order they ran, and each
   is whole and in its own order.
3. **Retry** (`engine_retry`). The comment at `server.ts:132` says that the
   client must retry if persistence fails, and that its order id makes that
   safe. When an append is refused, the id is spent in the running engine: the
   retry is refused as a duplicate, although the trades of the call never
   happened for the rest of the system.
4. **MARKET buys** (`exchange_market`). The gateway reserves at the price the
   client sends; the engine's order has price 0 and the settler does not track
   it. If nothing trades, the cancel releases the notional of price 0, which is
   nothing, and the reservation stays locked. Replay tries to lock 0, which
   throws. So the live ledger and the one rebuilt from the stream differ, and
   the reservation is in no event. With MARKET orders `NothingThrows` and
   `LocksAreCommitments` do not hold either.
5. **A ledger that dies under a request** (`ledger_restart`). The reservation is
   gone with the process; the order is then accepted and read live, in which
   mode nothing is locked for it. The other way round, `/reserve` is served
   during the replay, and a reservation made then is locked a second time if its
   order is still read as history. The architecture document counts on the
   gateway not running during a cold start.
6. **The chart** (`market_chart`). The candle timer and a trade both roll the
   bucket and publish what they got in two series that interleave: an update of
   the older bar arrives after the newer bar, and the store, which replaces only
   the rightmost bar, appends it on the right. (The older bar comes with a
   `close` of the series that started earlier.)

Three more observations have no run of their own. `matcher.ts:241` returns false
at the first own order; the comment at `matcher.ts:223-227` and
`docs/ARCHITECTURE.md:171` say own orders are skipped. The code's version is the
one `FOKPromiseKept` needs: the mutant that skips them breaks the promise, so it
is the words that are wrong. `/admin/reset` does not wait for handlers in
their append loop; their remaining events land in the new stream. `CallsInOrder`,
`CallsLoggedWhole` and `ResetsFinish` hold in spite of it, because they speak of
the calls of the present engine and of the answer, and not of an empty stream.
And the candle timer of market data runs during the replay: a tick in the middle
of it opens the bucket of the wall clock, and every trade of an older bucket that
is replayed after it is dropped as out of order (`candles.ts:96-105`).
`CandlesCountTrades` excuses what is dropped.

What `exchange_money` says about rounding: `LocksAreCommitments` is the exact
form of "none of his USDC is stuck" (`docs/ARCHITECTURE.md:154`), which is true
of the example there and not in general. Up to two units per fill stay locked and
one per canceled buy (a cancel that overtakes its fills releases the floor of
the remainder, and they pay the floors of their parts), besides the surplus of
the fills that came behind their order's cancel (`Stranded`), and never more. What
broken requests have reserved stays locked too; the property counts it
(`Abandoned`), and does not say that it should be so. `NothingThrows`
holds all the same: what such fills pay is still locked.

What it does not reach: `overlapped` excludes requests and append loops that are
under way when a ledger or a stream is lost, and events that Redis refused. There
the accounts do go wrong; `ledger_restart` has the case of the ledger's death.

## 4. What is proved

`tlapm` checks every proof to its leaves. Users, client order ids, symbols,
handlers, clients, channels, page sizes and scripts are arbitrary. The
assumptions on constants are

* `NoOrderAssumption`: the null value is not an order;
* `LedgerAssumption`: there are finitely many users, and the account that
  collects the fees is not one of them; the unit of a BTC is positive, the fee
  rate is between 0 and 1, the endowment is not negative;
* `ExchangeAssumption`: the gateway has finitely many requests under way;
* `ConstantsAssumption`: order types are among the five; prices, quantities and
  bounds are natural numbers;
* `HandlersAssumption`: the marks for the reset's DEL and for no handler are not
  handlers;
* `PageAssumption`: a page has at least one entry;
* `LoggedAssumption`: the two scripts are sequences of events with natural
  numbers as ids, prices and quantities, and what is in the stream when the
  service starts is a beginning of the first; the bounds are natural numbers;
* `SpansAssumption`: there are two intervals, of different positive length;
* `CapacityAssumption`, `BarAssumption`: tape, history and ticker window have
  room for one entry at least; the null value is not a bar;
* `FeedAssumption`: which channels and clients there are in the feed; the other
  client has an id of its own, the null id is nobody's; a delta has a side, a
  price and a quantity.

The theorems about `Exchange` have one hypothesis more, that no order is
of the type MARKET: `exchange_market` shows that the properties fail with them.
`FeedIsBook` has the hypothesis `[]Shallow`, that no side of the view ever has
more levels than a snapshot publishes: with more, a browser that starts from a
snapshot cannot show the levels that were cut off, nor is it meant to.

| theorem | says |
|---|---|
| `TypeCorrect`, `BookAlwaysConsistent`, `NeverCrossed`, `TimePriorityKept` | `Spec => []P` for the four invariants of the book |
| `PriceTimePriorityKept` | `Spec => []PriceTimePriority` |
| `TotalsAreExact`, `QuantityIsAccounted`, `FOKPromiseHolds` | `Spec => []P` for `TotalsConsistent`, `QtyAccounted`, `FOKPromiseKept` |
| `FOKNeverLeftOver` | a running FOK order that wants more always finds an order of another user at a price it allows |
| `ReplayRebuildsEngine`, `L2ShowsBook` | `ReplaySpec => []ReplayAgrees` and `ReplaySpec => []L2Agrees` |
| `MoneyIsConserved` | `ExchangeSpec => []MoneyConserved` without MARKET orders |
| `NothingEverThrows` | `ExchangeSpec => []NothingThrows`: no settlement, release or replay is ever refused, as long as Redis has refused no event |
| `LocksAreCommitted` | `ExchangeSpec => []LocksAreCommitments`: locks in BTC exact, in USDC up to two units for each fill and one for each canceled buy, and the surplus of fills that their order's cancel overtook |
| `OpenBuysRest` | `ExchangeSpec => []OpenBuysAreResting` |
| `StreamRebuildsLedger` | `ExchangeSpec => []RebuiltFromStream`: a replay gives the live balances |
| `CallsKeepTheirOrder` | `MaxCrashes = 0` implies `ServerSpec => []CallsInOrder` |
| `RestartsAreExact` | for one handler without resets and refused appends, `ServerSpec => []RecoveryExact`: after any number of deaths, also in the middle of a call, the stream rebuilds book and counter |
| `StreamStaysInOrder`, `TypesAcrossRestarts` | under the same hypotheses `ServerSpec => []StreamInSeqOrder` and `ServerSpec => []ServerTypeOK` |
| `TypesWhileAlive` | `MaxCrashes = 0` implies `ServerSpec => []ServerTypeOK`, for any handlers, resets and refused appends |
| `CallsAreLoggedWhole` | `MaxCrashes = 0` implies `ServerSpec => []CallsLoggedWhole`, for any handlers, resets and refused appends |
| `ConsumerDelivers`, `MarketDelivers` | `StreamConsumer` and `MarketData` implement `Delivery` |
| `MarketTypes` | `MDSpec => []MDTypeOK`: also that tape and histories keep within their capacities |
| `TickerIsLast` | `MDSpec => []TickerIsCurrent` |
| `FeedIsBook` | `MDSpec /\ []Shallow => []FeedFollowsBook` |
| `CandlesAreTrades` | `MDSpec => []CandlesCountTrades` |
| `MapsAgree`, `UpstreamFollows` | the two invariants of `FanOut` |
| `FeedMapsAgree`, `FeedUpstreamFollows` | the same in `Feed` |
| `FeedTypes` | `FeedSpec => []FeedTypeOK` |
| `ScreenFollows` | `FeedSpec => []ScreenFollowsFeed`: on a connection no delta is lost or shown twice |

**The book and the matcher.** The inductive invariant is

    IInv == TypeOK /\ BookWellFormed(book) /\ IdsOld

None of its parts is inductive alone. `BookUncrossed` stands beside it: every
step keeps `IInv` and, as `StaysUncrossed` says, leaves an uncrossed book
uncrossed. It is no part of `IInv` because an engine that was rebuilt from a
stream ending in the middle of a call may have a crossed book, and what is
proved of the matcher should hold of that engine too. `RestRemainder` keeps an
uncrossed book uncrossed because nothing on the other side crosses the order's
limit, which is what the guard says of the *best* price: to conclude it for all
prices one needs the trees to be well formed. It keeps queues in order because
all resting ids are older than the incoming one: `IdsOld`. A partial fill keeps a level non-empty
with positive quantities because the fill is less than the head's remaining,
which uses `Belongs`. That the reference of every order still resolves after an
unlink needs ids to be distinct within a level, which is `QueuesInOrder`.
`BookTheorems` proves the operators of the book one by one, for any well-formed
book and without reference to the matcher, with `SideReplaced` as the lemma that
a change of one level leaves the rest of the book as it was; `MatcherProofs` has
a lemma for each action.

**Price-time priority** looks back at the trades of a call while the book has
changed since. `PInv` adds to `IInv` that the running order is what its
acceptance, the call's first event, says, and that of each trade nothing that
the index finds on the maker's side was ahead of the maker. The head of the best
level is ahead of everything; after that the index of that side only loses
orders until the call ends, so the second fact stays true. Stating it through
the index and not through the queues keeps the quantities out of it.

**Sums.** The models add quantities with the folds of the community modules,
which are recursive functions below a `CHOOSE`. `BookTheorems` replaces the
induction theorem of the library, whose parameter is an operator, by one whose
parameter is a set (`Induction`, from the well-foundedness of `<` on the
naturals) and derives from it that `Sigma(w, S)`, the sum of `w[x]` over a finite
`S`, exists, and that adding, removing or changing one element changes it by
that element's weight; `FoldIsSigma` says that the models' fold is this sum.

**Quantities.** `TotalsExact(book)` says of a book value that the total of every
level is the sum of its orders' remaining quantities. `RestQuantities`,
`UnlinkQuantities`, `ReduceQuantities` and `CancelQuantities` say what each
operation does to the sum of every level; `TotalsKept` that an operation which
changes the cached total of one level by the same amount keeps all totals
exact. `QuantityIsAccounted` rests on `CallCounted`, which adds that the order
in hand is the one its call accepted, and on the same laws for sums over the
events of the call. For `FOKPromiseHolds` the walk of the pre-check is written as
the set of orders it reaches (`Reachable`). A fill takes the first of them: the set
loses the maker or the maker's quantity, nothing that was reachable ceases to
be so, and what is left covers what is still wanted. That the set is finite
needs `BookFinite`. `FOKNeverLeftOver` follows: a set of orders whose quantities
sum to something positive has an element, so the best level crosses and its
head is not the user's own.

**Replay.** `ReplicaInv` says what the replica is between any two events
(`ReplicaOf`, which speaks of a replica, a book, a counter and the order in
hand as values, so that recovery can use it of another replica): it is
the engine's book but for the last submission, which is put on the book only when
the next event asks for it. `EngineSteps` classifies the engine's steps by the
event they emit, and for each class there is one lemma. The hard one is a
cancel: it reaches the engine's book after the last submission has rested, and
the replica's book before. `CancelCommutes` and `RestThenCancel` prove that the
order does not matter, from `SameQueuesSameBook`: two well-formed books with exact
totals and the same queues are equal, references and totals included.

**The depth view.** `Shows(v, b, o)` says that at every level the view `v`
holds what the book `b` has there plus what the order in hand `o` has left at
its limit, and that it tracks the orders of both and no others. The view treats
a cancel as a fill of all that is left (`CancelIsFill`), so there are two
operations to reason about: `DeltaEffect` and `FillEffect` say what they change,
level by level. `Priced` is needed because the view uses the price zero for "no
limit": only market orders have it and they never rest.

**The exchange.** The live ledger takes its locks from the gateway, at once, and
everything else from the stream, late; the engine knows neither. No property of
the ledger is inductive: that a trade finds its funds locked depends on what the
order reserved, on how much of it earlier fills have spent, and on an order book
that is some events ahead. The invariant

    XInv == ~overlapped => Base /\ Sound

relates all of it to ledgers that are functions of the stream alone. `History` is
the stream with the event that the running call will send first, `Unsent` the
events that wait in append loops, `Alive` the orders the engine has open, the
one in hand included, and `Before(History, i)` the ledger rebuilt from the first
`i` events.

* `Borne(History, Alive, Unsent, nextId)` is about the stream and the book, and
  no ledger that runs. The orders that are open where the stream ends are not
  those of the engine: a call's later events, and what overtakes them, enter in
  an order of their own. So `Borne` says that there is a set `W` of orders that
  the stream leaves open (`Backed`), from which the events still to be written
  lead to `Alive` (`Linked`), in whatever order they come: they take from each
  order of `W` at most what it has left, and an order whose cancel is written is
  still in `W` with just what the fills that wait take from it. A step of the matcher adds an event to `Unsent` and moves `Alive`; `AppendNext`
  takes one from there to `History` and moves `W`; a cancel moves both.
* `Backed(History, W)`. `Accounted`: at each point of the stream the next event is
  payable from the ledger rebuilt so far. `Owes`: what the ledger of the whole
  stream has locked is what the orders of `W` can still cost (`Due`), the
  surplus of fills that came behind their order's cancel (`Strand`) and a
  rounding in `0..Slack`, and its table of open buys is the buy side of those
  whose cancel is not written. A fill whose order was canceled before it is paid
  from what is still locked: the cancel released only the remainder that its
  event names, which the fills have no part in. `Owes` gives `Accounted` for the next event, and the event keeps
  `Owes`.
* `Tracks` says that the live ledger, at event `cursor`, differs from
  `Before(History, cursor)` only in that `Pending` is locked instead of free:
  the locks of the orders accepted after the cursor, the reservations of
  requests the engine has not accepted, and what broken requests have lost.
* `Funded`: `Before(History, cursor)` has `Pending` free. So replaying one more
  acceptance is possible, and takes its lock out of `Pending`; a fill or a cancel
  costs the two ledgers the same, and is payable in the live one because it is in
  the other.
* `Sound` also says how reset and replay stand: nothing is accepted, under way or
  unsent when the accounts and the stream do not belong together.

`NothingThrows` and `MoneyConserved` are conjuncts of this. For
`LocksAreCommitments`, at the end of the stream and with nothing unsent `W` is
`Alive`, `Pending` is what requests and broken requests hold, and `Owes` gives
the rest; for `RebuiltFromStream` nothing is pending; for `OpenBuysAreResting`
the live table is that of `Rebuild(stream)`. `LedgerTheorems` proves what each operation does to one balance and to the sum
of all (`Shifted`), that a fill costs a buyer its notional at the price of its
order and leaves at most two units (`floor(a) + floor(b)` against `floor(a+b)`, twice),
and the laws of replays: `Replayed` of one more event is `Apply` of it.
`ExchangeProofs` first says what each action of `Exchange` emits and how the open
orders follow, and then has a lemma for each action. `SumFunction` in the
properties is `Sigma` by `PartSum`.

**The order of calls.** An opener can be told from the event alone. `SInv` says
that the openers in the stream and those on the wire form one line in the order
of their numbers, that the call which runs will join behind it, that a handler
has at most one opener and only while its first command is on the wire, and that
nothing joins behind a DEL (requests are refused while the reset waits). The last
is what keeps the openers of an engine that was reset apart from those of its
successor. `MaxCrashes = 0` is needed: after a crash the counter resumes at the
number of the stream's last entry, which interleaved append loops may leave
below the largest, and then a new call may open with a smaller number.

**Recovery.** `Issued` is the stream and what is still to land of the one call
that runs or ran last. The invariant `RInv` says two things of it. Replayed it
is a replica of the engine: each step of the matcher adds one event, for which
`ReplicaStep` of the replay proofs holds, and an append only moves an event from
one part of `Issued` to the other. And `RecoversAnywhere`: an engine can start
from every beginning of it. `Restartable` says that the book rebuilt from it,
with the submission at its end resting in full although it may have been broken
off, is well formed with exact totals, that the ids on it are older than those
to be given out, and `Numbered` that no number in it is above the counter that
is resumed. The process may die after any append and what had not landed is
gone: the new `Issued` is one of these beginnings, and its own beginnings are
among them. After a restart in the middle of a call the rebuilt book is not the
one the engine had, and may be crossed, which the running process never allows
(`NeverCrossed`); but it is exactly what the engine continues from, so that
`RecoveryExact` holds again. The replay of a stream is a fold; its laws
(`RebuiltNone`, `RebuiltNext`) are proved like those of `Sigma`.

The theorems are about one handler, no reset and no refused append. With two
handlers the stream need not be in order, as the run `exchange_surplus` shows.
A refused append leaves the engine with a book that the stream does not
describe, and a reset in the middle of a call leaves events of the old engine in
the new stream.

**Calls logged whole.** Handlers append the events of their calls side by side,
so the stream interleaves them, and after a reset a handler of the old engine
still appends what is left of its call to the stream of the new one, whose
sequence numbers begin at 1 again. That a leftover is never taken for an event of
a new call needs the ids, which a reset keeps. `LoggingInv` holds the number `n`
that was the next id when the present engine began. An event of a present call
opens it or is about an order from `n` on (`Fresh`); a leftover opens nothing,
because no opener stands behind the DEL, and is about an order before `n`
(`Stale`). The numbers of a call ascend, and so do those of one call after
another, so no two events of present calls are equal. `Owners` gives every handler
that is appending the call it appends, no two handlers the same one, or none, when
all it has is stale. `Parts` says how much of each call is in the stream, in order
and once, and that the rest is with its owner or was given up when an append was
refused. An XADD moves one event from the owner's part to the stream's
(`LoggedNext`) and leaves every other call as it was (`LoggedOther`). The process
must live: a crash takes what handlers had in hand, and what survives that is the
subject of the recovery theorems.

**Delivery.** `ConsumerInv` says that a page continues at the cursor with
nothing but deleted entries in between, that in the live loop the history has
been read or is on the page, and that live pages start behind the history.
`MarketDelivers` follows because every step of the service is a step of its
consumer or leaves it alone.

**Market data.** The invariants below are about coroutines that stop at every
publication. `MTypes` says what one can have left to do (`Due`): publications of
what it has computed, then at most one of a few lists of jobs that it began with
(`Rests`). `Step` has a disjunct for each computation; `RunOutcome` says that a
coroutine that runs on computes at most twice before it has something to publish
or nothing left. So a proof about the service looks at five computations, not at
lists of jobs.

*The ticker.* A candle timer, the consumer and the reset all publish tickers.
`TickerInv`: where there are candles, the last ticker on its way to the screen is
that of the candles, or a coroutine has still to compute one. Whoever changes the
candles has then announced a ticker (`Announced`), and since a ticker is computed
in the same step in which it is sent, and the connection keeps its order, no old
one can overtake (`Honest`). A tick that changes an aggregator also yields an
event, so its timer does publish (`TickType`); `QuietInv` says that a timer
which has not fired has nothing to do, so that none of its jobs is overwritten.

*The depth.* An event changes the view at once and publishes its deltas one by
one, between which the timer may publish a snapshot that already has them all.
`DepthInv`: what the consumer has still to publish says what the view holds now
(`Truthful`: only the consumer changes the view, and not before it has
published), and the screen, after what is on the wire, differs from the view at
most at levels for which a delta is still to come (`Shows`). When the consumer is
idle the two are equal. A snapshot on the way only makes the screen more like
the view, provided it has all levels: `Shallow`.

*The candles.* `Charted` is the trades read of the log but for the one whose
event, trade or candle job still waits. `ChartInv`: as long as nothing was deleted
of the stream, the bars of both aggregators are multiples of their interval that
follow each other without a hole, and each bar's volume is the sum of what was
charted in its time but for what came too late (`ChartTrue`). `OnTrade` closes the
live bar and as many flat ones as there are empty buckets (`ArchivedChain`);
`OnTradeCounts` says that this, growing the live bar, and a tick, which is a trade
of nothing, all count right. A tick may run while the consumer is between a trade and
its chart: what `Pending` has is in no bar. Sums over sets of trades are again
`Sigma` (`VolumeIsSigma`).

**Fan-out.** `FanOutInv` is types and the two agreements together: whether
Redis will forward a channel is decided by the last command on its way, and a
command is sent exactly when the set of clients becomes, or may become, empty
or non-empty. Every step of `Feed` is one of `FanOut` or leaves it alone.

**The screen.** `FeedInv` adds to `FanOutInv` three things. `Connected`: a
connection that the browser has is open in the gateway, with no channels or with
all of them. `Primed`: once a snapshot was published to a connection, both depth
channels are subscribed upstream with no command on the way, the browser is
among their clients, and the bootstrap is over. Nobody can end that but a break,
a death or a reset: a command is only sent about a channel that has no other
client, and an old connection that is closed late is not the present one. And
`ScreenFollowsFeed` itself: what is under way, folded over the screen, gives the
published depth. A publication appends a message at one end (`ShownNext`), the
browser takes one from the other (`ShownFirst`), and the gateway moves one from
`down` to `frames`, which changes neither their order nor their number
(`SequencesJoined`), as the browser is a client of every channel. The laws of this
fold are proved like those of `Sigma`: `ShownLaws` unfolds the recursive function
below `FoldLeft`.

**Only model-checked.** Liveness under fairness, which the prover cannot do:
`RequestsAnswered`, `ResetsFinish`, `CatchesUp` and `Converges`. Every safety
property of a passing run is stated by a theorem, under the hypotheses of the
table. Those that need the engine's process to live, one handler, no MARKET orders
or a view that fits into a snapshot are not claimed beyond that; for handlers and
MARKET orders `exchange_surplus` and `exchange_market` show why.

## 5. Not modelled

* **The Go backend** (`packages-go/`): a second implementation of the same
  services. Its handlers run on several threads and share book and counter
  without a lock, and its match loop differs in control flow. It would need
  modules of its own with another grain of atomicity; two hazards in
  `PROJECT.json` say where it bites.
* **UI components**: rendering only.
* **UI store**: the refresh of open orders and balances, and the bootstrap of
  trades, candles and ticker. The code has no remedy for an answer that arrives
  late, so the properties one would want fail by reading; see the hazards. The
  depth, for which there is a remedy, is modelled.
* **Simulation**: the walkthroughs and the continuous loop print, wait and send
  orders, which the models send in every order. `resetAll` is in `Exchange`.
* **Overlapping resets**: every service has one `/admin/reset` at a time, as
  `resetAll` calls them.
* **Publishing during replay**: `docs/ARCHITECTURE.md` says services do not,
  market data does. The model follows the code; repeated trades and bars on a
  screen after a restart are not stated as a property.
* **The ticker's window**: the code asks for 1440 bars of a history that keeps
  500. Both are constants of `Candles`; no state makes it better or worse.
* **Parsing, printing and wire formats** (`decimal.ts` but for `notionalQuote`,
  `serializeEvent`, authentication): stateless conversions that no property is
  about.
* **Redis**: external, modelled from its use: commands of a connection execute
  in the order they were sent, streams are append-only until deleted, pub/sub
  keeps nothing. Its persistence and its clients' reconnection are left out.
