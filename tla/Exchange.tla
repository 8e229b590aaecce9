------------------------------- MODULE Exchange -------------------------------
(***************************************************************************)
(* An order's way through the exchange: the gateway's POST /api/orders     *)
(* (packages/gateway/src/server.ts), which reserves on the ledger, submits *)
(* to the engine and releases when the engine refuses; the engine; and the *)
(* ledger's consumer, which applies the stream at its own pace             *)
(* (packages/ledger/src/server.ts).                                        *)
(*                                                                         *)
(* A request is three calls to other services, and everything else may run *)
(* between them.  The steps of a matcher call touch neither the stream nor *)
(* the ledger before its last one, so nothing else needs to run between    *)
(* them.  The first event of a call enters the stream as the call returns, *)
(* the others one by one (packages/engine/src/server.ts): the ledger, other *)
(* requests and the cancel of the very order run in between.               *)
(*                                                                         *)
(* The ledger's process dies and rebuilds its accounts, and the driver     *)
(* resets first the engine and then the ledger                             *)
(* (packages/simulation/src/reset.ts), while requests go on.  Redis may    *)
(* refuse an event; that it refuses the first one of a call, and that the  *)
(* engine dies, is in EngineServer.                                        *)
(***************************************************************************)
EXTENDS Matcher, Ledger

CONSTANTS
  Requests,     \* requests the gateway handles at a time
  NoRequest,    \* no request is inside the matcher
  MaxFaults     \* bound: requests that break off after the reservation,
                \* deaths of the ledger and resets of the exchange

ASSUME ExchangeAssumption ==
  IsFiniteSet(Requests) /\ NoRequest \notin Requests

VARIABLES
  ledger,     \* the live ledger
  stream,     \* the stream engine.events
  cursor,     \* how many events of the stream the ledger has applied
  phase,      \* whether the ledger's consumer still replays
  known,      \* how many events the stream had when that consumer started
  reset,      \* how far a reset of the exchange has come
  faults,
  requests,   \* what the gateway knows of each request
  todo,       \* per request, the events of its call not yet in the stream
  caller,     \* the request inside the matcher, or NoRequest
  errors,     \* settlements and releases that threw
  abandoned,  \* history: <<user, asset, amount>> reserved and never submitted
  outdated,   \* history: the stream was deleted and the accounts were not
  overlapped  \* history: stream or accounts were lost under a request, the
              \* ledger reserved on accounts that were not the stream's, or
              \* the stream is short of an event Redis refused

ledgerVars == <<cursor, phase, known, reset, faults>>

exchangeVars ==
  <<ledger, stream, ledgerVars, requests, todo, caller, errors, abandoned, outdated,
    overlapped>>

allVars == <<vars, exchangeVars>>

NotServing == [stage |-> "none"]

ExchangeInit ==
  /\ Init
  /\ ledger = FreshLedger
  /\ stream = << >>
  /\ cursor = 0 /\ phase = "live" /\ known = 0
  /\ reset = "no" /\ faults = 0
  /\ requests = [g \in Requests |-> NotServing]
  /\ todo = [g \in Requests |-> << >>]
  /\ caller = NoRequest
  /\ errors = 0
  /\ abandoned = << >>
  /\ outdated = FALSE /\ overlapped = FALSE

InFlightRequests == {g \in Requests : requests[g] # NotServing}

(* The calls whose append loop is under way. *)
Appending == {g \in Requests : todo[g] # << >>}

ReservationOf(cmd) == ReserveForOrder(cmd.side, cmd.price, cmd.qty)

(* POST /reserve.  A refusal answers 402 and leaves nothing behind; the     *)
(* ledger refuses while it is resetting, but not while it replays.          *)
ReserveFunds(g) ==
  /\ Idle
  /\ reset # "ledger"
  /\ seq < MaxSeq /\ nextId <= MaxOrders
  /\ requests[g] = NotServing /\ todo[g] = << >>
  /\ \E cmd \in Command :
       LET funds == ReservationOf(cmd)
       IN /\ CanReserve(ledger, cmd.userId, funds.asset, funds.amount)
          /\ ledger' = Reserve(ledger, cmd.userId, funds.asset, funds.amount)
          /\ requests' = [requests EXCEPT ![g] = [stage |-> "reserved", cmd |-> cmd]]
  /\ overlapped' = (overlapped \/ phase = "replay" \/ outdated)
  /\ UNCHANGED <<vars, stream, ledgerVars, todo, caller, errors, abandoned, outdated>>

(* The engine has returned, and the handler sends its first event at once.  *)
(* The gateway is answered after the last one; it goes on only if the one   *)
(* event is a rejection.                                                    *)
Return(g) ==
  IF order' # NoOrder
  THEN caller' = g /\ UNCHANGED <<stream, todo, requests>>
  ELSE /\ caller' = NoRequest
       /\ stream' = Append(stream, Head(events'))
       /\ todo' = [todo EXCEPT ![g] = Tail(events')]
       /\ requests' = [requests EXCEPT ![g] =
            IF events'[1].kind = "OrderRejected"
            THEN [@ EXCEPT !.stage = "rejected"] ELSE NotServing]

(* POST /orders on the engine. *)
Place(g) ==
  /\ requests[g].stage = "reserved"
  /\ Submit(requests[g].cmd)
  /\ Return(g)
  /\ UNCHANGED <<ledger, ledgerVars, errors, abandoned, outdated, overlapped>>

RunMatcher ==
  /\ caller # NoRequest
  /\ MatchLoop
  /\ Return(caller)
  /\ UNCHANGED <<ledger, ledgerVars, errors, abandoned, outdated, overlapped>>

(* The append loop of a handler goes on. *)
AppendNext(g) ==
  /\ Idle
  /\ todo[g] # << >>
  /\ stream' = Append(stream, Head(todo[g]))
  /\ todo' = [todo EXCEPT ![g] = Tail(@)]
  /\ UNCHANGED <<vars, ledger, ledgerVars, requests, caller, errors, abandoned, outdated,
                 overlapped>>

(* Redis refuses an event: the rest of the call is never written, and the   *)
(* gateway, which finds no events in the answer, gives nothing back.        *)
AppendFails(g) ==
  /\ Idle
  /\ todo[g] # << >>
  /\ faults < MaxFaults /\ faults' = faults + 1
  /\ todo' = [todo EXCEPT ![g] = << >>]
  /\ overlapped' = TRUE
  /\ UNCHANGED <<vars, ledger, stream, cursor, phase, known, reset, requests, caller,
                 errors, abandoned, outdated>>

Thrown(l) == errors' = IF l.thrown THEN errors + 1 ELSE errors

(* POST /release after a rejection.  The gateway does not look at the       *)
(* answer: a ledger that is resetting refuses, and loses the lock anyway.   *)
RollBack(g) ==
  LET funds == ReservationOf(requests[g].cmd)
  IN /\ Idle
     /\ requests[g].stage = "rejected"
     /\ IF reset = "ledger" THEN UNCHANGED <<ledger, errors>>
        ELSE /\ ledger' = Release([ledger EXCEPT !.thrown = FALSE],
                                  requests[g].cmd.userId, funds.asset, funds.amount)
             /\ Thrown(ledger')
     /\ requests' = [requests EXCEPT ![g] = NotServing]
     /\ UNCHANGED <<vars, stream, ledgerVars, todo, caller, abandoned, outdated,
                    overlapped>>

(* The next call of the request fails, or the gateway dies: nobody gives    *)
(* the reservation back.                                                    *)
BreakOff(g) ==
  LET funds == ReservationOf(requests[g].cmd)
  IN /\ Idle
     /\ requests[g] # NotServing
     /\ faults < MaxFaults /\ faults' = faults + 1
     /\ abandoned' = Append(abandoned, <<requests[g].cmd.userId, funds.asset, funds.amount>>)
     /\ requests' = [requests EXCEPT ![g] = NotServing]
     /\ UNCHANGED <<vars, ledger, stream, cursor, phase, known, reset, todo, caller,
                    errors, outdated, overlapped>>

(* DELETE /api/orders/:orderId goes to the engine only.  Its one event is   *)
(* sent at once, behind whatever the loops have sent so far.                *)
UserCancel(user, id) ==
  /\ Cancel(user, id)
  /\ stream' = stream \o events'
  /\ UNCHANGED <<ledger, ledgerVars, requests, todo, caller, errors, abandoned, outdated,
                 overlapped>>

-----------------------------------------------------------------------------
(* The ledger's consumer.  It applies a page in the turn it arrives in; a   *)
(* page in live mode may be a single event.                                 *)

Listening == Idle /\ reset # "ledger"

Consume ==
  /\ Listening /\ phase = "live"
  /\ cursor < Len(stream)
  /\ ledger' = Apply(ledger, stream[cursor + 1], "live")
  /\ Thrown(ledger')
  /\ cursor' = cursor + 1
  /\ UNCHANGED <<vars, stream, phase, known, reset, faults, requests, todo, caller,
                 abandoned, outdated, overlapped>>

(* The history, read at some moment after the consumer started. *)
Replay ==
  /\ Listening /\ phase = "replay"
  /\ \E k \in known..Len(stream) :
       /\ ledger' = Replayed(ledger, SubSeq(stream, 1, k))
       /\ errors' = errors +
            Cardinality({i \in 1..k : Replayed(ledger, SubSeq(stream, 1, i)).thrown})
       /\ cursor' = k
  /\ phase' = "live"
  /\ UNCHANGED <<vars, stream, known, reset, faults, requests, todo, caller,
                 abandoned, outdated, overlapped>>

(* What a new consumer on empty accounts starts from. *)
StartOver ==
  /\ ledger' = FreshLedger
  /\ cursor' = 0 /\ phase' = "replay" /\ known' = Len(stream)
  /\ abandoned' = << >> /\ outdated' = FALSE
  /\ overlapped' = (overlapped \/ InFlightRequests # {})

LedgerRestart ==
  /\ Idle /\ faults < MaxFaults
  /\ faults' = faults + 1
  /\ StartOver
  /\ reset' = IF reset = "ledger" THEN "no" ELSE reset
  /\ UNCHANGED <<vars, stream, requests, todo, caller, errors>>

-----------------------------------------------------------------------------
(* resetAll: the engine's /admin/reset, then the ledger's. *)

ResetEngine ==
  /\ Idle /\ reset = "no" /\ faults < MaxFaults
  /\ faults' = faults + 1
  /\ reset' = "engine"
  /\ stream' = << >>
  /\ book' = EmptyBook /\ seq' = 0 /\ seen' = {} /\ events' = << >>
  /\ cursor' = 0 /\ known' = 0
  /\ outdated' = TRUE
  /\ overlapped' = (overlapped \/ InFlightRequests # {} \/ Appending # {})
  /\ UNCHANGED <<nextId, order, ledger, phase, requests, todo, caller, errors, abandoned>>

(* The consumer is disconnected; it reads nothing more. *)
StartLedgerReset ==
  /\ Idle /\ reset = "engine"
  /\ reset' = "ledger"
  /\ UNCHANGED <<vars, ledger, stream, cursor, phase, known, faults, requests,
                 todo, caller, errors, abandoned, outdated, overlapped>>

(* Mutant: the consumer goes on where it was. *)
FinishKeepingCursor ==
  /\ Idle /\ reset = "ledger"
  /\ reset' = "no"
  /\ ledger' = FreshLedger
  /\ abandoned' = << >> /\ outdated' = FALSE
  /\ overlapped' = (overlapped \/ InFlightRequests # {})
  /\ UNCHANGED <<vars, stream, cursor, phase, known, faults, requests, todo, caller, errors>>

FinishLedgerReset ==
  /\ Idle /\ reset = "ledger"
  /\ reset' = "no"
  /\ StartOver
  /\ UNCHANGED <<vars, stream, faults, requests, todo, caller, errors>>

ExchangeNext ==
  \/ \E g \in Requests : \/ ReserveFunds(g) \/ Place(g) \/ RollBack(g) \/ BreakOff(g)
                        \/ AppendNext(g) \/ AppendFails(g)
  \/ RunMatcher
  \/ \E user \in Users, id \in 1..MaxOrders : UserCancel(user, id)
  \/ Consume \/ Replay
  \/ LedgerRestart
  \/ ResetEngine \/ StartLedgerReset \/ FinishLedgerReset

ExchangeSpec == ExchangeInit /\ [][ExchangeNext]_allVars

-----------------------------------------------------------------------------
(* Properties. *)

(* The ledger has caught up with the engine, and no request was under way  *)
(* when it lost its accounts or rebuilt them.                              *)
CaughtUp ==
  Idle /\ Appending = {} /\ phase = "live" /\ reset = "no" /\ cursor = Len(stream)

Drained == CaughtUp /\ ~overlapped

Quiet == CaughtUp /\ InFlightRequests = {}

Total(holders, asset) ==
  SumFunction([u \in holders |-> FreeOf(ledger, u, asset) + LockedOf(ledger, u, asset)])

(* No asset is created or destroyed: not by fees, by rounding, by price    *)
(* improvement, restarts and resets; a settlement that throws half way     *)
(* would (settler.ts:79).                                                  *)
MoneyConserved ==
  ~overlapped => \A a \in Assets : Total(Holders, a) = Cardinality(Holders) * InitialBalances[a]

(* Nothing the settler or the gateway does to a balance is ever refused:   *)
(* what an order pays, and what is given back, was locked for it, in       *)
(* whatever order reservations, fills, cancels and rejections interleave,   *)
(* and wherever a reset or the death of the ledger falls between requests.  *)
(* Provided that Redis has refused no event: the book knows of a fill or a  *)
(* cancel then that the ledger never hears of.                              *)
(* Not so when users go on between the two halves of a reset: they spend    *)
(* what they earned before it, and the ledger cannot replay that.           *)
NothingThrows == ~overlapped => errors = 0

InFlight(u, asset) ==
  SumFunction([g \in {x \in InFlightRequests :
                        /\ requests[x].cmd.userId = u
                        /\ ReservationOf(requests[x].cmd).asset = asset}
                 |-> ReservationOf(requests[g].cmd).amount])

Abandoned(u, asset) ==
  SumFunction([i \in {x \in DOMAIN abandoned :
                        abandoned[x][1] = u /\ abandoned[x][2] = asset}
                 |-> abandoned[i][3]])

OpenOrders(u, side) == {o \in RestingOn(book, side) : o.userId = u}

(* What the open orders of a user can still cost, request by request.      *)
Committed(u, asset) ==
  SumFunction([o \in OpenOrders(u, IF asset = "USDC" THEN "buy" ELSE "sell")
                 |-> ReserveForOrder(o.side, o.price, o.remaining).amount])
  + InFlight(u, asset) + Abandoned(u, asset)

FillsOf(u) == {i \in DOMAIN stream : stream[i].kind = "Trade" /\ Buyer(stream[i]) = u}

BuyCancelsOf(u) ==
  {i \in DOMAIN stream : /\ stream[i].kind = "OrderCanceled"
                         /\ stream[i].side = "buy" /\ stream[i].userId = u}

(* What rounding can leave locked: a unit where a fill is split off its     *)
(* order and one in its surplus, and a unit where a cancel is split off     *)
(* fills that it has overtaken.                                             *)
RoundingOf(u) == 2 * Cardinality(FillsOf(u)) + Cardinality(BuyCancelsOf(u))

Stranded(u) ==
  SumFunction([i \in {x \in FillsOf(u) : LateFill(stream, x)} |-> LostSurplus(stream, i)])

(* When the ledger has caught up, what a user has locked is what its open   *)
(* orders and requests can still cost, what the gateway has reserved and    *)
(* lost sight of, which nobody gives back, and the surplus of the fills     *)
(* that a cancel overtook, which nobody gives back either.  In BTC it is    *)
(* that exactly; in USDC it is at most what rounding leaves behind.         *)
LocksAreCommitments ==
  Drained => \A u \in Users :
    /\ LockedOf(ledger, u, "BTC") = Committed(u, "BTC")
    /\ LockedOf(ledger, u, "USDC") - Committed(u, "USDC") - Stranded(u)
         \in 0..RoundingOf(u)

(* The settler releases what a buy has reserved above the price it fills at *)
(* (settler.ts:31-32): not if the cancel of the order overtakes the fill.   *)
SurplusReleased ==
  Drained => \A u \in Users :
    LockedOf(ledger, u, "USDC") - Committed(u, "USDC") <= RoundingOf(u)

(* The settler's own table of open buys is the buy side of the book.        *)
OpenBuysAreResting ==
  Drained =>
    ledger.openBuys =
      [id \in {o.orderId : o \in RestingOn(book, "buy")} |->
         [price |-> GetOrder(book, id).price, remaining |-> GetOrder(book, id).remaining]]

AgreesWithStream == Rebuild(stream).balances = ledger.balances

(* A ledger rebuilt from the stream alone has the balances of the live one  *)
(* (docs/ARCHITECTURE.md:7), but for reservations the gateway has lost:     *)
(* also after the ledger has died, and after the exchange has been reset    *)
(* while users were canceling their orders.                                 *)
RebuiltFromStream == Quiet /\ ~overlapped /\ abandoned = << >> => AgreesWithStream

(* A ledger that comes back rebuilds the same whenever it died: no gateway  *)
(* reserves while it does (docs/ARCHITECTURE.md:75).                        *)
RestartIsRebuild == Quiet /\ abandoned = << >> => AgreesWithStream
=============================================================================
