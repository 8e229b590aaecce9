------------------------------- MODULE MarketData -------------------------------
(***************************************************************************)
(* The market data service (packages/marketdata/src/server.ts): a consumer *)
(* that projects the stream engine.events to a depth view, a tape, candles *)
(* and a ticker, timers that roll idle candles and publish snapshots,      *)
(* /admin/reset, the process dying, and a browser that shows what is       *)
(* published.                                                              *)
(*                                                                         *)
(* Every publication is awaited before its coroutine goes on, and the      *)
(* coroutines share one connection: Redis executes their commands and      *)
(* answers them in the order they were sent.  A step here is what one      *)
(* coroutine does from one await to the next.                              *)
(***************************************************************************)
EXTENDS StreamConsumer, L2Book, Candles, UiStore

CONSTANTS
  Scripts,         \* what an engine may log: before its reset, and after it
  Logged,          \* events in the stream when the service starts
  SnapshotLevels,  \* levels of a side in a published snapshot
  MaxTime,         \* bound: the clock, in buckets of the shortest interval
  MaxSnapshots,    \* bound: ticks of the snapshot timer
  MaxFaults        \* bound: deaths of the process and resets of the engine

(* There are two aggregators, and the longer interval is not the shorter.  *)
ASSUME SpansAssumption ==
  Spans \subseteq Nat \ {0} /\ \E m, n \in Spans : m < n /\ Spans = {m, n}

(* The engine's events, as far as the projections read them. *)
Events ==
  [kind : {"OrderAccepted"},
   order : [orderId : Nat, side : Sides, type : {"LIMIT", "MARKET"}, price : Nat, qty : Nat]]
  \cup [kind : {"Trade"}, makerOrderId : Nat, takerOrderId : Nat, aggressor : Sides,
        price : Nat, qty : Nat]
  \cup [kind : {"OrderCanceled"}, orderId : Nat]
  \cup [kind : {"OrderRejected"}]

ASSUME LoggedAssumption ==
  /\ Scripts \in [1..2 -> Seq(Events)]
  /\ Logged \in Nat /\ Logged <= Len(Scripts[1])
  /\ MaxTime \in Nat /\ SnapshotLevels \in Nat

Shortest == Min(Spans)
Longest == Max(Spans)

(* What both aggregators return, in the order their events are published. *)
ByInterval(events) == events[Shortest] \o events[Longest]

VARIABLES
  log,        \* the events added, with the engine's time: [event, ts]
  clock,
  ticked,     \* the bucket in which the candle timer fired last
  proj,       \* the projections: [l2, tape, aggs]
  todo,       \* per coroutine, what it has still to do
  wire,       \* publications sent and not executed: [from, msg]
  reset,      \* how far /admin/reset has come
  screen,     \* the browser that has been subscribed from the start
  snapshots, restarts, resets,
  late,       \* history: per interval, trades that came when their bar was closed
  primed      \* history: this process has sent a snapshot

serviceVars == <<clock, ticked, proj, todo, wire, reset, screen,
                 snapshots, restarts, resets, late, primed>>

mdVars == <<vars, log, serviceVars>>

Consumer == <<"consumer", 0>>
Resetter == <<"reset", 0>>
Snapshots == <<"snapshots", 0>>
Timers == {"timer"} \X (1..MaxTime)
Coroutines == {Consumer, Resetter, Snapshots} \cup Timers

FreshProjections ==
  [l2 |-> FreshL2, tape |-> << >>, aggs |-> [i \in Spans |-> FreshAggregator]]

MDInit ==
  /\ added = Logged /\ purged = 0 /\ known = Logged /\ Start
  /\ log = [i \in 1..Logged |-> [event |-> Scripts[1][i], ts |-> 0]]
  /\ clock = 0 /\ ticked = 0
  /\ proj = FreshProjections
  /\ todo = [c \in Coroutines |-> << >>]
  /\ wire = << >>
  /\ reset = "no"
  /\ screen = EmptyScreen
  /\ snapshots = 0 /\ restarts = 0 /\ resets = 0
  /\ late = [n \in Spans |-> {}] /\ primed = FALSE

-----------------------------------------------------------------------------
(* What a coroutine does is a list of jobs: a message to publish, or       *)
(* something to compute first that yields messages.                        *)

Job(name) == [do |-> name]
JobOn(name, i) == [do |-> name, at |-> i]
Publish(msg) == [do |-> "publish", msg |-> msg]
PublishAll(msgs) == [i \in DOMAIN msgs |-> Publish(msgs[i])]

DepthMessage(d) == [channel |-> "book", side |-> d.side, price |-> d.price, qty |-> d.qty]

(* l2.apply, then its deltas; a trade goes on to tape, candles and ticker. *)
ApplyEvent(s, i) ==
  LET ev     == log[i].event
      deltas == DeltasOf(s.proj.l2, ev)
  IN [s EXCEPT
       !.proj.l2 = ApplyL2(@, ev),
       !.jobs = PublishAll([k \in DOMAIN deltas |-> DepthMessage(deltas[k])])
                \o (IF ev.kind = "Trade"
                    THEN <<JobOn("trade", i), JobOn("candles", i), Job("ticker")>> ELSE << >>)]

PublishTrade(s, i) ==
  [s EXCEPT !.proj.tape = PushTape(@, i),
            !.jobs = <<Publish([channel |-> "trades", trade |-> i])>> \o Tail(@)]

(* Both aggregators take the trade, then the events of both are published. *)
ChartTrade(s, i) ==
  LET ev  == log[i].event
      ts  == log[i].ts
      evs == [n \in Spans |-> OnTradeEvents(s.proj.aggs[n], n, ev.price, ev.qty, ts)]
  IN [s EXCEPT
       !.proj.aggs = [n \in Spans |-> OnTrade(@[n], n, ev.price, ev.qty, ts)],
       !.late = [n \in Spans |-> @[n] \cup {k \in {i} : TooLate(s.proj.aggs[n], n, ts)}],
       !.jobs = PublishAll(ByInterval(evs)) \o Tail(@)]

PublishTicker(s) ==
  [s EXCEPT !.jobs = <<Publish([channel |-> "ticker",
      ticker |-> ComputeTicker(s.proj.aggs[Shortest])])>> \o Tail(@)]

PublishL2Snapshot(s) ==
  [s EXCEPT !.jobs = <<Publish([channel |-> "book:snapshot",
      levels |-> Snapshot(s.proj.l2, SnapshotLevels)])>> \o Tail(@)]

Compute(s) ==
  IF s.jobs = << >> THEN s
  ELSE LET job == s.jobs[1]
       IN CASE job.do = "apply"    -> ApplyEvent(s, job.at)
            [] job.do = "trade"    -> PublishTrade(s, job.at)
            [] job.do = "candles"  -> ChartTrade(s, job.at)
            [] job.do = "ticker"   -> PublishTicker(s)
            [] job.do = "snapshot" -> PublishL2Snapshot(s)
            [] job.do = "publish"  -> s

(* From one await to the next: compute what comes first, or after it when  *)
(* there is nothing to publish, and send it behind what is on the wire.    *)
Run(c, p, jobs, before) ==
  \E half \in {Compute([proj |-> p, jobs |-> jobs, late |-> late])} :
  \E s \in {Compute(half)} :
    /\ proj' = s.proj
    /\ late' = s.late
    /\ IF s.jobs = << >> THEN todo' = [todo EXCEPT ![c] = << >>] /\ wire' = before
       ELSE /\ todo' = [todo EXCEPT ![c] = Tail(s.jobs)]
            /\ wire' = Append(before, [from |-> c, msg |-> s.jobs[1].msg])
    /\ primed' = (primed \/ (s.jobs # << >> /\ s.jobs[1].msg.channel = "book:snapshot"))

Done(c) == todo[c] = << >> /\ \A i \in DOMAIN wire : wire[i].from # c

(* Mutant: a reply does not wake its sender. *)
LandUnanswered ==
  /\ wire # << >>
  /\ screen' = Receive(screen, wire[1].msg)
  /\ wire' = Tail(wire)
  /\ UNCHANGED <<vars, log, clock, ticked, proj, todo, reset, snapshots, restarts, resets,
                 late, primed>>

(* Redis executes a PUBLISH: the browser sees it, and the sender, who gets *)
(* its replies in the order of the commands, goes on.                      *)
Land ==
  /\ wire # << >>
  /\ screen' = Receive(screen, wire[1].msg)
  /\ Run(wire[1].from, proj, todo[wire[1].from], Tail(wire))
  /\ UNCHANGED <<vars, log, clock, ticked, reset, snapshots, restarts, resets>>

-----------------------------------------------------------------------------
(* The consumer.  A reset disconnects it: it ends at its next read. *)

FetchPage ==
  /\ reset # "disconnected"
  /\ Done(Consumer)
  /\ Fetch
  /\ UNCHANGED <<log, serviceVars>>

(* The next entry of the page, after a snapshot if it is the first live one. *)
Consume ==
  /\ Done(Consumer)
  /\ Yield
  /\ Run(Consumer, proj,
       IF mode = "replay" /\ mode' = "live"
       THEN <<Job("snapshot"), JobOn("apply", cursor')>> ELSE <<JobOn("apply", cursor')>>, wire)
  /\ UNCHANGED <<log, clock, ticked, reset, screen, snapshots, restarts, resets>>

(* The candle timer fires many times in a bucket, and does something only  *)
(* when a bar is behind the clock: once, or again after a death or a reset *)
(* has cleared the bars and a replay has opened old ones.                  *)
Fires(rolled) == ticked < clock \/ (clock > 0 /\ rolled # << >> /\ Done(<<"timer", clock>>))

(* Mutant: rolled candles are published without the ticker. *)
CandleTimerOnly ==
  LET evs == [n \in Spans |-> TickEvents(proj.aggs[n], n, clock)]
  IN /\ Fires(ByInterval(evs))
     /\ ticked' = clock
     /\ Run(<<"timer", clock>>,
            [proj EXCEPT !.aggs = [n \in Spans |-> Tick(@[n], n, clock)]],
            PublishAll(ByInterval(evs)), wire)
     /\ UNCHANGED <<vars, log, clock, reset, screen, snapshots, restarts, resets>>

CandleTimer ==
  LET all == ByInterval([n \in Spans |-> TickEvents(proj.aggs[n], n, clock)])
  IN /\ Fires(all)
     /\ ticked' = clock
     /\ Run(<<"timer", clock>>,
            [proj EXCEPT !.aggs = [n \in Spans |-> Tick(@[n], n, clock)]],
            IF all = << >> THEN << >> ELSE Append(PublishAll(all), Job("ticker")), wire)
     /\ UNCHANGED <<vars, log, clock, reset, screen, snapshots, restarts, resets>>

SnapshotTimer ==
  /\ snapshots < MaxSnapshots
  /\ snapshots' = snapshots + 1
  /\ Run(Snapshots, proj, <<Job("snapshot")>>, wire)
  /\ UNCHANGED <<vars, log, clock, ticked, reset, screen, restarts, resets>>

(* /admin/reset: disconnect the consumer, wait for it to end, clear, start *)
(* another, publish the empty view, answer.                                *)
StartReset ==
  /\ reset = "no" /\ purged > 0 /\ resets = 0
  /\ resets' = resets + 1
  /\ reset' = "disconnected"
  /\ UNCHANGED <<vars, log, clock, ticked, proj, todo, wire, screen, snapshots, restarts,
                 late, primed>>

Clear ==
  /\ reset = "disconnected"
  /\ Drained /\ Done(Consumer)
  /\ Restart
  /\ Run(Resetter, FreshProjections, <<Job("snapshot"), Job("ticker")>>, wire)
  /\ reset' = "cleared"
  /\ UNCHANGED <<log, clock, ticked, screen, snapshots, restarts, resets>>

EndReset ==
  /\ reset = "cleared" /\ Done(Resetter)
  /\ reset' = "no"
  /\ UNCHANGED <<vars, log, clock, ticked, proj, todo, wire, screen, snapshots, restarts,
                 resets, late, primed>>

Faults == restarts + Cardinality({purged} \ {0})

(* The process dies; what Redis had not executed is lost. *)
Die ==
  /\ Faults < MaxFaults
  /\ restarts' = restarts + 1
  /\ Restart
  /\ proj' = FreshProjections
  /\ todo' = [c \in Coroutines |-> << >>]
  /\ wire' = << >> /\ reset' = "no" /\ late' = [n \in Spans |-> {}] /\ primed' = FALSE
  /\ UNCHANGED <<log, clock, ticked, screen, snapshots, resets>>

-----------------------------------------------------------------------------
(* Outside the service. *)

(* The engine logs its next event, or is reset and starts anew. *)
EngineLogs ==
  LET script == Scripts[IF purged = 0 THEN 1 ELSE 2]
  IN /\ added - purged < Len(script)
     /\ log' = Append(log, [event |-> script[added - purged + 1], ts |-> clock])
     /\ Add
     /\ UNCHANGED serviceVars

EngineResets ==
  /\ purged = 0 /\ added > 0 /\ Faults < MaxFaults
  /\ Purge
  /\ UNCHANGED <<log, serviceVars>>

(* The candle timer fires, and Redis answers, within a bucket's time. *)
Advance ==
  /\ clock < MaxTime
  /\ ticked = clock /\ \A t \in Timers : Done(t)
  /\ clock' = clock + 1
  /\ UNCHANGED <<vars, log, ticked, proj, todo, wire, reset, screen, snapshots, restarts,
                 resets, late, primed>>

MDNext ==
  \/ Land
  \/ FetchPage \/ Consume
  \/ CandleTimer \/ SnapshotTimer
  \/ StartReset \/ Clear \/ EndReset
  \/ Die
  \/ EngineLogs \/ EngineResets \/ Advance

MDSpec == MDInit /\ [][MDNext]_mdVars

Work == Land \/ FetchPage \/ Consume \/ Clear \/ EndReset

(* Redis answers, and the event loop runs something that is ready. *)
FairMDSpec == MDSpec /\ WF_mdVars(Work)

-----------------------------------------------------------------------------
(* Properties. *)

MDTypeOK ==
  /\ added \in Nat /\ purged \in 0..added /\ cursor \in 0..added
  /\ Len(log) = added
  /\ clock \in 0..MaxTime /\ ticked \in 0..clock
  /\ reset \in {"no", "disconnected", "cleared"}
  /\ \A i \in DOMAIN proj.tape : log[proj.tape[i]].event.kind = "Trade"
  /\ \A i \in DOMAIN wire : wire[i].from \in Coroutines
  /\ Len(proj.tape) <= TapeCapacity
  /\ \A n \in Spans : Len(proj.aggs[n].history) <= HistoryCapacity

(* What is on the wire or still to be done arrives if it is a message. *)
Arrive(w, x) == IF "msg" \in DOMAIN x THEN Receive(w, x.msg) ELSE w

(* From the first snapshot a process sends, a browser that applies what is *)
(* still under way shows the view the service has, whatever timers, deltas *)
(* and resets interleave on the connection (server.ts:32-52, 110-112).     *)
FeedFollowsBook ==
  primed => FoldLeft(Arrive, screen, wire \o todo[Consumer]).book = proj.l2.levels

Idle == wire = << >> /\ \A c \in Coroutines : todo[c] = << >>

(* When all is published, the ticker on the screen is that of the candles  *)
(* the service has: no publisher's last word is older than the candles     *)
(* another has rolled since (server.ts:46-49, 65, 106, 158).               *)
TickerIsCurrent ==
  Idle /\ (Bars(proj.aggs[Shortest]) # << >> \/ (resets > 0 /\ reset = "no" /\ restarts = 0)) =>
    screen.ticker = ComputeTicker(proj.aggs[Shortest])

Projected == {i \in (purged + 1)..cursor : log[i].event.kind = "Trade"}

VolumeOf(trades) == MapThenSumSet(LAMBDA i : log[i].event.qty, trades)

(* A bar of either interval counts each trade of its time once, but for    *)
(* those that came when it was closed already; the bars follow each other  *)
(* without a hole, and there is one once there was a trade                 *)
(* (candles.ts:61-120).                                                    *)
CandlesCountTrades ==
  Idle /\ purged = 0 => \A n \in Spans :
    LET bars == Bars(proj.aggs[n])
        within(b) == {i \in Projected \ late[n] : BucketOf(log[i].ts, n) = b.bucketStart}
    IN /\ \A k \in DOMAIN bars :
            /\ bars[k].volume = VolumeOf(within(bars[k]))
            /\ k > 1 => bars[k].bucketStart = bars[k - 1].bucketStart + n
       /\ Projected # {} => Len(bars) > 0

(* On every chart the rightmost bar is the live one, which an update can   *)
(* change in place, and time runs from left to right (candles.ts:18-19).   *)
ChartInOrder ==
  restarts = 0 /\ resets = 0 => \A n \in Spans :
    LET chart == screen.candles[n]
    IN \A k \in DOMAIN chart : k > 1 => chart[k].bucketStart > chart[k - 1].bucketStart

(* When the engine goes quiet, what it has logged and not deleted gets     *)
(* projected and every reset ends, whatever deaths, timers and publications *)
(* came in between (server.ts:69-97, 142-163).                             *)
CatchesUp == <>[](reset = "no" /\ (cursor = added \/ purged = added))

(* The consumer delivers as StreamConsumer's abstract specification says.  *)
Delivers == Abstract!Spec
=============================================================================
