-------------------------------- MODULE FanOut --------------------------------
(***************************************************************************)
(* The gateway's WebSocket fan-out (packages/gateway/src/server.ts): each  *)
(* client has its set of channels, a reverse map has the clients of each   *)
(* channel, and one Redis connection is subscribed upstream to a channel   *)
(* while somebody wants it.                                                *)
(*                                                                         *)
(* SUBSCRIBE and UNSUBSCRIBE are sent and not waited for.  Redis executes  *)
(* those of one channel in the order they were sent; the order between     *)
(* channels is left open, for what it does to one does not depend on       *)
(* another.                                                                *)
(***************************************************************************)
EXTENDS Sequences, Naturals

CONSTANTS
  Channels,  \* the gateway's channel names
  Clients    \* client ids; a connection gets one that is not in use

VARIABLES
  open,         \* the clients with a socket
  subs,         \* client -> its channels
  subscribers,  \* channel -> its clients
  commands,     \* channel -> commands sent to Redis and not yet executed
  upstream      \* the channels Redis forwards to the gateway

fanOutVars == <<open, subs, subscribers, commands, upstream>>

FanOutInit ==
  /\ open = {}
  /\ subs = [c \in Clients |-> {}]
  /\ subscribers = [ch \in Channels |-> {}]
  /\ commands = [ch \in Channels |-> << >>]
  /\ upstream = {}

Connect(c) ==
  /\ c \notin open
  /\ open' = open \cup {c}
  /\ subs' = [subs EXCEPT ![c] = {}]
  /\ UNCHANGED <<subscribers, commands, upstream>>

Send(channels, command) ==
  commands' = [ch \in Channels |->
    IF ch \in channels THEN Append(commands[ch], command) ELSE commands[ch]]

(* Mutant: whether a channel is new is asked after the client was added. *)
SubscribeLate(c, channels) ==
  /\ c \in open
  /\ subscribers' = [ch \in Channels |->
       IF ch \in channels THEN subscribers[ch] \cup {c} ELSE subscribers[ch]]
  /\ subs' = [subs EXCEPT ![c] = subs[c] \cup channels]
  /\ Send({ch \in channels : subscribers'[ch] = {}}, "SUBSCRIBE")
  /\ UNCHANGED <<open, upstream>>

(* The first client of a channel has it subscribed upstream. *)
Subscribe(c, channels) ==
  /\ c \in open
  /\ subscribers' = [ch \in Channels |->
       IF ch \in channels THEN subscribers[ch] \cup {c} ELSE subscribers[ch]]
  /\ subs' = [subs EXCEPT ![c] = subs[c] \cup channels]
  /\ Send({ch \in channels : subscribers[ch] = {}}, "SUBSCRIBE")
  /\ UNCHANGED <<open, upstream>>

(* Mutant: whoever leaves takes the upstream subscription along. *)
LeaveForAll(c, channels) ==
  /\ subscribers' = [ch \in Channels |->
       IF ch \in channels THEN subscribers[ch] \ {c} ELSE subscribers[ch]]
  /\ Send(channels, "UNSUBSCRIBE")
  /\ UNCHANGED upstream

(* A channel that is left without clients is given up, also when this      *)
(* client had not been one of them.                                        *)
Leave(c, channels) ==
  /\ subscribers' = [ch \in Channels |->
       IF ch \in channels THEN subscribers[ch] \ {c} ELSE subscribers[ch]]
  /\ Send({ch \in channels : subscribers[ch] \subseteq {c}}, "UNSUBSCRIBE")
  /\ UNCHANGED upstream

Unsubscribe(c, channels) ==
  /\ c \in open
  /\ subs' = [subs EXCEPT ![c] = subs[c] \ channels]
  /\ Leave(c, channels)
  /\ UNCHANGED open

(* Mutant: a client that goes stays in the reverse map. *)
CloseForgetting(c) ==
  /\ c \in open
  /\ open' = open \ {c}
  /\ subs' = [subs EXCEPT ![c] = {}]
  /\ UNCHANGED <<subscribers, commands, upstream>>

(* The socket of a client closes. *)
Close(c) ==
  /\ c \in open
  /\ open' = open \ {c}
  /\ subs' = [subs EXCEPT ![c] = {}]
  /\ Leave(c, subs[c])

(* Redis executes the next command on a channel. *)
Execute(ch) ==
  /\ commands[ch] # << >>
  /\ upstream' = IF Head(commands[ch]) = "SUBSCRIBE" THEN upstream \cup {ch}
                 ELSE upstream \ {ch}
  /\ commands' = [commands EXCEPT ![ch] = Tail(commands[ch])]
  /\ UNCHANGED <<open, subs, subscribers>>

(* The gateway dies, and with it its sockets and its Redis connection. *)
GatewayRestart ==
  /\ open' = {}
  /\ subs' = [c \in Clients |-> {}]
  /\ subscribers' = [ch \in Channels |-> {}]
  /\ commands' = [ch \in Channels |-> << >>]
  /\ upstream' = {}

(* Who a message that arrives from Redis is sent to. *)
Recipients(ch) == subscribers[ch] \cap open

FanOutNext ==
  \/ \E c \in Clients :
       \/ Connect(c) \/ Close(c)
       \/ \E channels \in SUBSET Channels : Subscribe(c, channels) \/ Unsubscribe(c, channels)
  \/ \E ch \in Channels : Execute(ch)
  \/ GatewayRestart

FanOutSpec == FanOutInit /\ [][FanOutNext]_fanOutVars

-----------------------------------------------------------------------------
(* Properties. *)

(* The two maps, which three handlers update by hand, say the same; nobody *)
(* who has left is still in one of them (server.ts:175-176, 228-256).      *)
SubsAgree ==
  \A c \in Clients, ch \in Channels :
    c \in subscribers[ch] <=> c \in open /\ ch \in subs[c]

(* What Redis will have subscribed when it has executed all it was sent.   *)
WillForward(ch) ==
  IF commands[ch] = << >> THEN ch \in upstream
  ELSE commands[ch][Len(commands[ch])] = "SUBSCRIBE"

(* When Redis has executed what it was sent, it forwards exactly the       *)
(* channels that have clients, although no command is waited for and the   *)
(* first client may come while the last one's UNSUBSCRIBE is under way     *)
(* (server.ts:201-213).                                                    *)
UpstreamAgrees == \A ch \in Channels : WillForward(ch) <=> subscribers[ch] # {}
=============================================================================
