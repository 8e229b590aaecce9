----------------------------- MODULE EngineServer ----------------------------
(***************************************************************************)
(* The engine service (packages/engine/src/server.ts): concurrent request  *)
(* handlers around the matcher, the append loop that writes a call's       *)
(* events to the Redis stream one at a time, /admin/reset, and the process *)
(* dying and rebuilding its engine from the stream.                        *)
(*                                                                         *)
(* A handler calls the matcher and sends its first XADD without giving up  *)
(* the thread; then it waits for the replies to the XADD and the PUBLISH   *)
(* of one event before it sends the next event, and other handlers run in  *)
(* between.  Redis executes the commands of the one connection in the      *)
(* order they were sent.  The pub/sub copy is not modelled: nothing in the *)
(* engine reads it.                                                        *)
(***************************************************************************)
EXTENDS Matcher, EventLog

CONSTANTS
  Handlers,    \* requests that can be in flight at a time
  NoHandler,   \* no handler is inside the matcher
  MaxCrashes,  \* bound: restarts of the process
  MaxResets,   \* bound: calls of /admin/reset
  MaxFailures  \* bound: commands Redis refuses

ASSUME HandlersAssumption == "DEL" \notin Handlers /\ NoHandler \notin Handlers

VARIABLES
  running,    \* the handler whose matcher call is under way, or NoHandler
  todo,       \* per handler, the events of its call not yet in the stream
  wire,       \* commands sent to Redis and not yet executed: the handler
              \* whose next event is being added, or "DEL"
  stream,     \* the stream engine.events
  resetting,  \* /admin/reset is waiting for Redis
  up,         \* the process serves requests
  crashes,
  resets,
  failures,
  blocks,     \* history: the event lists the present engine has returned
  givenUp     \* history: the events a handler still had when it gave up

serverVars == <<running, todo, wire, stream, resetting, up, crashes, resets,
                failures, blocks, givenUp>>

allVars == <<vars, serverVars>>

ServerInit ==
  /\ Init
  /\ running = NoHandler
  /\ todo = [h \in Handlers |-> << >>]
  /\ wire = << >>
  /\ stream = << >>
  /\ resetting = FALSE
  /\ up = TRUE
  /\ crashes = 0
  /\ resets = 0 /\ failures = 0
  /\ blocks = << >> /\ givenUp = {}

OnWire(command) == command \in ToSet(wire)

(* Mutant: the handler gives up the thread before it sends the first XADD. *)
HandOverDeferred(h) ==
  IF order' # NoOrder
  THEN running' = h /\ UNCHANGED <<todo, wire, blocks>>
  ELSE /\ running' = NoHandler
       /\ todo' = [todo EXCEPT ![h] = events']
       /\ wire' = wire
       /\ blocks' = IF events' = << >> THEN blocks ELSE Append(blocks, events')

(* The matcher has returned: the handler sends the XADD of the first event *)
(* in the same turn.  Until then it keeps the thread.                      *)
HandOver(h) ==
  IF order' # NoOrder
  THEN running' = h /\ UNCHANGED <<todo, wire, blocks>>
  ELSE /\ running' = NoHandler
       /\ todo' = [todo EXCEPT ![h] = events']
       /\ wire' = IF events' = << >> THEN wire ELSE Append(wire, h)
       /\ blocks' = IF events' = << >> THEN blocks ELSE Append(blocks, events')

(* POST /orders and DELETE /orders/:orderId. *)
Request(h) ==
  /\ up /\ ~resetting
  /\ running = NoHandler
  /\ todo[h] = << >>
  /\ \/ \E cmd \in Command : Submit(cmd)
     \/ \E user \in Users, id \in 1..MaxOrders : Cancel(user, id)
  /\ HandOver(h)
  /\ UNCHANGED <<stream, resetting, up, crashes, resets, failures, givenUp>>

Compute ==
  /\ running # NoHandler
  /\ MatchLoop
  /\ HandOver(running)
  /\ UNCHANGED <<stream, resetting, up, crashes, resets, failures, givenUp>>

(* Mutant: an XADD is sent again although Redis had executed it. *)
LandTwice ==
  /\ wire # << >> /\ Head(wire) # "DEL"
  /\ LET ev == Head(todo[Head(wire)]) IN stream' = stream \o <<ev, ev>>
  /\ todo' = [todo EXCEPT ![Head(wire)] = Tail(@)]
  /\ wire' = Tail(wire)
  /\ UNCHANGED <<vars, running, resetting, up, crashes, resets, failures, blocks, givenUp>>

(* Redis executes an XADD; the request is answered after its last event. *)
Land ==
  /\ wire # << >> /\ Head(wire) # "DEL"
  /\ stream' = Append(stream, Head(todo[Head(wire)]))
  /\ todo' = [todo EXCEPT ![Head(wire)] = Tail(@)]
  /\ wire' = Tail(wire)
  /\ UNCHANGED <<vars, running, resetting, up, crashes, resets, failures, blocks, givenUp>>

(* The replies for one event are back: the loop sends the next. *)
SendNext(h) ==
  /\ running = NoHandler
  /\ todo[h] # << >> /\ ~OnWire(h)
  /\ wire' = Append(wire, h)
  /\ UNCHANGED <<vars, running, todo, stream, resetting, up, crashes, resets, failures,
                 blocks, givenUp>>

(* Mutant: the append loop goes on behind the event that failed. *)
SkipFailed(h) ==
  /\ failures < MaxFailures
  /\ running = NoHandler
  /\ todo[h] # << >>
  /\ IF OnWire(h) THEN Head(wire) = h /\ wire' = Tail(wire) ELSE wire' = wire
  /\ todo' = [todo EXCEPT ![h] = Tail(@)]
  /\ givenUp' = givenUp \cup {Head(todo[h])}
  /\ failures' = failures + 1
  /\ UNCHANGED <<vars, running, stream, resetting, up, crashes, resets, blocks>>

(* Redis refuses the XADD of an event, or the PUBLISH that follows it: the *)
(* request is answered with an error, and the rest of its events is never  *)
(* written.  The engine keeps what the call has done to the book.          *)
AppendFails(h) ==
  /\ failures < MaxFailures
  /\ running = NoHandler
  /\ todo[h] # << >>
  /\ IF OnWire(h) THEN Head(wire) = h /\ wire' = Tail(wire) ELSE wire' = wire
  /\ todo' = [todo EXCEPT ![h] = << >>]
  /\ givenUp' = givenUp \cup ToSet(todo[h])
  /\ failures' = failures + 1
  /\ UNCHANGED <<vars, running, stream, resetting, up, crashes, resets, blocks>>

(* /admin/reset: refuse new requests and delete the stream; when Redis has *)
(* answered, start with a new engine.  Handlers in the middle of their     *)
(* append loop are not waited for.                                         *)
StartReset ==
  /\ up /\ ~resetting /\ resets < MaxResets
  /\ running = NoHandler
  /\ resetting' = TRUE
  /\ resets' = resets + 1
  /\ wire' = Append(wire, "DEL")
  /\ UNCHANGED <<vars, running, todo, stream, up, crashes, failures, blocks, givenUp>>

(* Mutant: the reset deletes the stream again and again. *)
FinishResetNever ==
  /\ wire # << >> /\ Head(wire) = "DEL"
  /\ running = NoHandler
  /\ wire' = Append(Tail(wire), "DEL")
  /\ stream' = << >>
  /\ UNCHANGED <<vars, resetting, blocks, givenUp, running, todo, up, crashes, resets, failures>>

FinishReset ==
  /\ wire # << >> /\ Head(wire) = "DEL"
  /\ running = NoHandler
  /\ wire' = Tail(wire)
  /\ stream' = << >>
  /\ book' = EmptyBook /\ seq' = 0 /\ seen' = {} /\ events' = << >>
  /\ resetting' = FALSE
  /\ blocks' = << >> /\ givenUp' = {}
  /\ UNCHANGED <<nextId, order, running, todo, up, crashes, resets, failures>>

(* Mutant: the sequence counter is not resumed. *)
RestartFromZero ==
  LET r == ReplayInto(stream)
  IN /\ up /\ running = NoHandler /\ crashes < MaxCrashes
     /\ crashes' = crashes + 1
     /\ up' = ~r.failed
     /\ book' = r.book /\ seq' = 0 /\ seen' = r.seen /\ events' = << >>
     /\ todo' = [h \in Handlers |-> << >>]
     /\ wire' = << >>
     /\ resetting' = FALSE
     /\ UNCHANGED <<nextId, order, running, stream, resets, failures, blocks, givenUp>>

(* The process dies, what was not executed by Redis is lost, and a new     *)
(* process replays the stream before it listens; if the replay throws it   *)
(* exits.  Dying inside the matcher is dying before the request.           *)
Restart ==
  LET r == ReplayInto(stream)
  IN /\ up /\ running = NoHandler /\ crashes < MaxCrashes
     /\ crashes' = crashes + 1
     /\ up' = ~r.failed
     /\ book' = r.book /\ seq' = r.lastSeq /\ seen' = r.seen /\ events' = << >>
     /\ todo' = [h \in Handlers |-> << >>]
     /\ wire' = << >>
     /\ resetting' = FALSE
     /\ UNCHANGED <<nextId, order, running, stream, resets, failures, blocks, givenUp>>

ServerNext ==
  \/ \E h \in Handlers : Request(h) \/ SendNext(h) \/ AppendFails(h)
  \/ Compute
  \/ Land
  \/ StartReset
  \/ FinishReset
  \/ Restart

ServerSpec == ServerInit /\ [][ServerNext]_allVars

(* The event loop runs what is ready, and Redis answers. *)
FairServerSpec ==
  /\ ServerSpec
  /\ WF_allVars(Compute)
  /\ WF_allVars(Land)
  /\ WF_allVars(FinishReset)
  /\ \A h \in Handlers : WF_allVars(SendNext(h))

-----------------------------------------------------------------------------
(* Properties. *)

Quiet == running = NoHandler /\ \A h \in Handlers : todo[h] = << >>

ServerTypeOK ==
  /\ TypeOK
  /\ running \in Handlers \cup {NoHandler}
  /\ todo \in [Handlers -> Seq(Event)]
  /\ wire \in Seq(Handlers \cup {"DEL"})
  /\ stream \in Seq(Event)
  /\ resetting \in BOOLEAN /\ up \in BOOLEAN
  /\ blocks \in Seq(Seq(Event))

(* With nothing in flight, a restart changes nothing a user can see: the   *)
(* stream rebuilds the very book and counter the engine has, also when     *)
(* the engine itself was rebuilt from a stream that ends in the middle of  *)
(* a call (eventLog.ts:94-158).                                            *)
RecoveryExact ==
  Quiet /\ ~resetting =>
    LET r == ReplayInto(stream)
    IN ~r.failed /\ r.book = book /\ r.lastSeq = seq

(* The stream is in the order of the sequence numbers.                     *)
StreamInSeqOrder ==
  \A i, j \in DOMAIN stream : i < j => stream[i].seq < stream[j].seq

(* The first event of each call is logged in the order the calls ran, even *)
(* though the later ones interleave: no order is logged as accepted before *)
(* an order the matcher accepted earlier.                                  *)
CallsInOrder ==
  LET First(ev) == \E b \in DOMAIN blocks : blocks[b][1] = ev
  IN \A i, j \in DOMAIN stream :
       i < j /\ First(stream[i]) /\ First(stream[j]) => stream[i].seq < stream[j].seq

(* The first k events of a call are in the stream s, in their order and    *)
(* each once, and no others of it.                                         *)
LoggedUpTo(s, call, k) ==
  /\ {i \in DOMAIN call : call[i] \in ToSet(s)} = 1..k
  /\ \A p, q \in DOMAIN s : \A i, j \in DOMAIN call :
       s[p] = call[i] /\ s[q] = call[j] => (p < q <=> i < j)

(* What a call emitted is in the stream in its own order, each event once, *)
(* and what is missing is the end of it: still in the hands of a handler,  *)
(* or given up when an append failed.  The append loops of concurrent      *)
(* handlers and failures in the middle of one lose, repeat and reorder     *)
(* nothing within a call (server.ts:134, 147).                             *)
CallsLoggedWhole ==
  \A b \in DOMAIN blocks : \E k \in 0..Len(blocks[b]) :
    LET missing == SubSeq(blocks[b], k + 1, Len(blocks[b]))
    IN /\ LoggedUpTo(stream, blocks[b], k)
       /\ \/ missing = << >>
          \/ \E h \in Handlers : todo[h] = missing
          \/ ToSet(missing) \subseteq givenUp

(* A client order id is spent only if the events of its order are in the   *)
(* stream or are still being written, so that a client whose request was   *)
(* not answered may retry under the same id (server.ts:132-133).           *)
RetrySafe ==
  \A b \in DOMAIN blocks :
    LET first == blocks[b][1]
    IN first.kind = "OrderAccepted"
         /\ <<first.order.userId, first.order.clientOrderId>> \in seen
       => ToSet(blocks[b]) \subseteq
            ToSet(stream) \cup UNION {ToSet(todo[h]) : h \in Handlers}

(* Every request that reached the matcher is answered, and every reset     *)
(* ends, whatever else is in flight.                                       *)
RequestsAnswered ==
  \A h \in Handlers : (running = h \/ todo[h] # << >>) ~> (running # h /\ todo[h] = << >>)

ResetsFinish == resetting ~> ~resetting
=============================================================================
