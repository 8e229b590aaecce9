--------------------------------- MODULE Feed ---------------------------------
(***************************************************************************)
(* The depth on its way to a browser: market data publishes deltas and     *)
(* snapshots to Redis, the gateway fans them out, and the store in the     *)
(* browser (packages/ui/src/store.ts) applies them, next to the snapshot   *)
(* it has fetched over HTTP when it started.                               *)
(*                                                                         *)
(* Connections break and are set up again under a new id, which the        *)
(* gateway may hear of before it hears that the old one is gone; the       *)
(* gateway dies; another client comes and goes; the exchange is reset.     *)
(***************************************************************************)
EXTENDS FanOut, UiStore

CONSTANTS
  Sockets,      \* the ids of the browser's connections
  Other,        \* another client of the gateway
  NoSocket,     \* the browser is not connected
  Deltas,       \* what may happen to a level: [side, price, qty]
  MaxDeltas,    \* bound: deltas published
  MaxFaults,    \* bound: lost connections, deaths of the gateway, resets
  MaxMessages,  \* bound: what the other client does
  MaxQueued     \* bound: messages under way when another snapshot is due

ASSUME FeedAssumption ==
  /\ Channels = {"book", "book:snapshot", "events"}
  /\ Clients = Sockets \cup {Other} /\ Other \notin Sockets
  /\ NoSocket \notin Clients
  /\ Deltas \subseteq [side : Sides, price : Nat, qty : Nat]

VARIABLES
  market,     \* side -> price -> quantity: the depth as published
  down,       \* messages from Redis to the gateway
  frames,     \* messages from the gateway to the browser's socket
  socket,     \* that socket's id
  screen,
  boot,       \* the snapshot fetched at the start: [stage, levels]
  resetting,  \* the engine has been reset, market data not yet
  deltas, faults, messages,
  primed      \* history: a snapshot was published to this connection

browserVars == <<frames, socket, screen, boot>>
boundVars == <<deltas, faults, messages>>
feedVars == <<fanOutVars, market, down, browserVars, resetting, boundVars, primed>>

NoLevels == [s \in Sides |-> EmptyMap]

FeedInit ==
  /\ FanOutInit
  /\ market = NoLevels
  /\ down = << >> /\ frames = << >>
  /\ socket = NoSocket
  /\ screen = EmptyScreen
  /\ boot = [stage |-> "asked", levels |-> NoLevels]
  /\ resetting = FALSE
  /\ deltas = 0 /\ faults = 0 /\ messages = 0
  /\ primed = FALSE

-----------------------------------------------------------------------------
(* Market data and the engine.  Redis keeps no message for who is not      *)
(* subscribed.                                                             *)

Published(msg) == IF msg.channel \in upstream THEN Append(down, msg) ELSE down

DeltaOf(d) == [channel |-> "book", side |-> d.side, price |-> d.price, qty |-> d.qty]

SnapshotOf(levels) == [channel |-> "book:snapshot", levels |-> levels]

(* The browser gets everything about the depth that is published now.      *)
Watching ==
  /\ boot.stage = "done"
  /\ \A ch \in {"book", "book:snapshot"} :
       ch \in upstream /\ commands[ch] = << >> /\ socket \in subscribers[ch]

PublishDelta(d) ==
  /\ deltas < MaxDeltas
  /\ deltas' = deltas + 1
  /\ market' = [market EXCEPT ![d.side] =
       IF d.qty = 0 THEN Restrict(@, DOMAIN @ \ {d.price}) ELSE Put(@, d.price, d.qty)]
  /\ down' = Published(DeltaOf(d))
  /\ UNCHANGED <<fanOutVars, browserVars, resetting, faults, messages, primed>>

(* The snapshot timer. *)
PublishSnapshot ==
  /\ Len(down) + Len(frames) < MaxQueued
  /\ down' = Published(SnapshotOf(market))
  /\ primed' = (primed \/ Watching)
  /\ UNCHANGED <<fanOutVars, market, browserVars, resetting, boundVars>>

EngineReset ==
  /\ ~resetting /\ faults < MaxFaults
  /\ faults' = faults + 1
  /\ resetting' = TRUE
  /\ down' = Published([channel |-> "events", kind |-> "Reset"])
  /\ primed' = FALSE
  /\ UNCHANGED <<fanOutVars, market, browserVars, deltas, messages>>

MarketReset ==
  /\ resetting
  /\ resetting' = FALSE
  /\ market' = NoLevels
  /\ down' = Published(SnapshotOf(NoLevels))
  /\ primed' = (primed \/ Watching)
  /\ UNCHANGED <<fanOutVars, browserVars, boundVars>>

-----------------------------------------------------------------------------
(* The gateway. *)

Forward ==
  /\ down # << >>
  /\ down' = Tail(down)
  /\ frames' = IF socket \in Recipients(Head(down).channel)
               THEN Append(frames, Head(down)) ELSE frames
  /\ UNCHANGED <<fanOutVars, market, socket, screen, boot, resetting, boundVars, primed>>

RedisExecutes(ch) ==
  /\ Execute(ch)
  /\ UNCHANGED <<market, down, browserVars, resetting, boundVars, primed>>

(* The gateway hears that a connection of the browser is gone. *)
GatewayHears(c) ==
  /\ c # socket
  /\ Close(c)
  /\ UNCHANGED <<market, down, browserVars, resetting, boundVars, primed>>

GatewayDies ==
  /\ faults < MaxFaults
  /\ faults' = faults + 1
  /\ GatewayRestart
  /\ down' = << >> /\ frames' = << >> /\ socket' = NoSocket /\ primed' = FALSE
  /\ UNCHANGED <<market, screen, boot, resetting, deltas, messages>>

OtherActs ==
  /\ messages < MaxMessages
  /\ messages' = messages + 1
  /\ \/ Connect(Other) \/ Close(Other)
     \/ \E ch \in Channels : Subscribe(Other, {ch}) \/ Unsubscribe(Other, {ch})
  /\ UNCHANGED <<market, down, browserVars, resetting, deltas, faults, primed>>

-----------------------------------------------------------------------------
(* The browser. *)

Reconnect ==
  /\ socket = NoSocket
  /\ \E c \in Sockets : Connect(c) /\ socket' = c
  /\ UNCHANGED <<market, down, frames, screen, boot, resetting, boundVars, primed>>

(* onopen asks for all channels; the message reaches the gateway. *)
AskForFeed ==
  /\ socket \in open /\ subs[socket] = {}
  /\ Subscribe(socket, Channels)
  /\ UNCHANGED <<market, down, browserVars, resetting, boundVars, primed>>

Show ==
  /\ frames # << >>
  /\ screen' = Receive(screen, Head(frames))
  /\ frames' = Tail(frames)
  /\ UNCHANGED <<fanOutVars, market, down, socket, boot, resetting, boundVars, primed>>

LoseConnection ==
  /\ socket # NoSocket /\ faults < MaxFaults
  /\ faults' = faults + 1
  /\ socket' = NoSocket /\ frames' = << >> /\ primed' = FALSE
  /\ UNCHANGED <<fanOutVars, market, down, screen, boot, resetting, deltas, messages>>

(* The bootstrap fetches the depth, once, and applies it when all it has   *)
(* asked for is there; if anything fails it applies nothing.               *)
BootAnswered ==
  /\ boot.stage = "asked"
  /\ boot' = [stage |-> "answered", levels |-> market]
  /\ UNCHANGED <<fanOutVars, market, down, frames, socket, screen, resetting, boundVars, primed>>

BootEnds ==
  /\ boot.stage = "answered"
  /\ boot' = [stage |-> "done", levels |-> NoLevels]
  /\ screen' \in {screen, SetSnapshot(screen, boot.levels)}
  /\ UNCHANGED <<fanOutVars, market, down, frames, socket, resetting, boundVars, primed>>

FeedNext ==
  \/ \E d \in Deltas : PublishDelta(d)
  \/ PublishSnapshot
  \/ EngineReset \/ MarketReset
  \/ Forward
  \/ \E ch \in Channels : RedisExecutes(ch)
  \/ \E c \in Sockets : GatewayHears(c)
  \/ GatewayDies \/ OtherActs
  \/ Reconnect \/ AskForFeed \/ Show \/ LoseConnection
  \/ BootAnswered \/ BootEnds

FeedSpec == FeedInit /\ [][FeedNext]_feedVars

(* Timers fire, Redis and the servers answer, sockets deliver, and the     *)
(* gateway closes what is gone; nobody has to trade, break or reset.       *)
FairFeedSpec ==
  /\ FeedSpec
  /\ WF_feedVars(PublishSnapshot) /\ WF_feedVars(MarketReset)
  /\ WF_feedVars(Forward) /\ WF_feedVars(Show)
  /\ \A ch \in Channels : WF_feedVars(RedisExecutes(ch))
  /\ \A c \in Sockets : WF_feedVars(GatewayHears(c))
  /\ WF_feedVars(Reconnect) /\ WF_feedVars(AskForFeed)
  /\ WF_feedVars(BootAnswered) /\ WF_feedVars(BootEnds)

-----------------------------------------------------------------------------
(* Properties. *)

FeedTypeOK ==
  /\ open \subseteq Clients /\ upstream \subseteq Channels
  /\ socket \in Sockets \cup {NoSocket}
  /\ frames # << >> => socket \in open
  /\ \A s \in Sides : \A p \in DOMAIN screen.book[s] : screen.book[s][p] > 0

(* From the first snapshot that is published to a connection of the        *)
(* browser, it shows, when it has received what is under way, the depth as *)
(* published: no delta is lost or shown twice on that connection, whatever *)
(* other clients and older connections of the same browser do in between   *)
(* (gateway/src/server.ts:181-199, 228-256, store.ts:236-288).             *)
ScreenFollowsFeed ==
  primed => FoldLeft(Receive, screen, frames \o down).book = market

(* When trading stops, the screen ends up with the depth and stays with    *)
(* it, although the bootstrap may apply an older snapshot on top of newer  *)
(* deltas, a reset may clear the screen before market data has been reset, *)
(* and what is published while the browser is away is lost                 *)
(* (store.ts:174, 273; marketdata/src/server.ts:110).                      *)
Converges == <>[](screen.book = market)
=============================================================================
