------------------------------ MODULE EventsHub ------------------------------
(***************************************************************************)
(* The events of superol1n: the hub (modules/events/hub.go), the webhooks  *)
(* that broadcast on it, the websocket handlers that subscribe to it, and  *)
(* the app at the other end, which reconnects and shows what it receives   *)
(* (websocket_service.dart, events_provider.dart).                         *)
(*                                                                         *)
(* A connection is one socket of the app and the wsHandler that serves it. *)
(* An event is named by the webhook request that broadcasts it.  The model *)
(* is of these components on net/http's own ResponseWriter, which can be   *)
(* hijacked; Gateway says what the server's middleware makes of it.        *)
(***************************************************************************)
EXTENDS Naturals, FiniteSets, Sequences, SequencesExt

CONSTANTS
    MaxConnections,  \* bound on the connections, used in order
    Webhooks,     \* the webhook requests of Sonarr and Radarr
    Capacity,     \* buffer of a subscriber's channel (32)
    Kept,         \* how many events the app keeps (200)
    MaxFailures   \* bound on connection attempts that fail

ASSUME BoundsAssumption == /\ MaxConnections \in Nat \ {0}
                           /\ Capacity \in Nat \ {0}
                           /\ Kept \in Nat \ {0}
                           /\ MaxFailures \in Nat

VARIABLES
    \* The gateway.
    clients,   \* h.clients
    buf,       \* the buffered channel of a connection
    closed,    \* channels that are closed
    handler,   \* where wsHandler is
    hook,      \* where webhookHandler is
    todo,      \* channels that Broadcast has still to visit
    \* The app.
    socket,    \* the socket as the network and the app see it
    timers,    \* reconnects that are scheduled
    shown,     \* EventsProvider.events, the newest first
    disposed,  \* "yes" after EventsProvider.dispose
    failures   \* connection attempts that failed

Connections == 1 .. MaxConnections

gateway == <<clients, buf, closed, handler, hook, todo>>
app     == <<timers, shown, disposed, failures>>
vars == <<clients, buf, closed, handler, hook, todo,
          socket, timers, shown, disposed, failures>>

\* EventsProvider's constructor connects.
Init ==
    /\ clients = {}
    /\ buf = [c \in Connections |-> <<>>]
    /\ closed = {}
    /\ handler = [c \in Connections |-> "none"]
    /\ hook = [b \in Webhooks |-> "none"]
    /\ todo = [b \in Webhooks |-> {}]
    /\ socket = [c \in Connections |-> IF c = 1 THEN "connecting" ELSE "unused"]
    /\ timers = 0
    /\ shown = <<>>
    /\ disposed = "no"
    /\ failures = 0

-----------------------------------------------------------------------------
(***************************************************************************)
(* The hub's RWMutex.  A goroutine in "adding" or "removing" has called    *)
(* Lock; it waits for the readers, and RLock waits for it.                 *)
(***************************************************************************)
NoReader == \A b \in Webhooks : hook[b] # "sending"

NoWriter == \A c \in Connections : handler[c] \notin {"adding", "removing"}

(***************************************************************************)
(* wsHandler                                                               *)
(***************************************************************************)
Goto(c, from, to) ==
    /\ handler[c] = from
    /\ handler' = [handler EXCEPT ![c] = to]

Upgrade(c) ==
    /\ socket[c] = "connecting"
    /\ socket' = [socket EXCEPT ![c] = "open"]
    /\ Goto(c, "none", "adding")
    /\ UNCHANGED <<clients, buf, closed, hook, todo, app>>

Subscribe(c) ==
    /\ NoReader
    /\ Goto(c, "adding", "loop")
    /\ clients' = clients \cup {c}
    /\ UNCHANGED <<buf, closed, hook, todo, socket, app>>

\* events.insert(0, ...), then removeLast when there are too many.  After
\* dispose the controller is closed, and what add throws is swallowed.
Show(e) ==
    IF disposed = "yes" THEN shown' = shown
    ELSE shown' = SubSeq(<<e>> \o shown, 1, IF Len(shown) < Kept THEN Len(shown) + 1 ELSE Kept)

\* WriteMessage.  A write to a connection that broke may still succeed.
Write(c) ==
    /\ buf[c] # <<>>
    /\ buf' = [buf EXCEPT ![c] = Tail(@)]
    /\ \/ /\ socket[c] = "open"
          /\ Goto(c, "loop", "loop")
          /\ Show(Head(buf[c]))
       \/ /\ socket[c] # "open"
          /\ \/ Goto(c, "loop", "loop")
             \/ Goto(c, "loop", "removing")
          /\ UNCHANGED shown
    /\ UNCHANGED <<clients, closed, hook, todo, socket, timers, disposed, failures>>

\* ReadMessage or a ping fails.
SeesGone(c) ==
    /\ socket[c] \in {"cut", "closed"}
    /\ Goto(c, "loop", "removing")
    /\ UNCHANGED <<clients, buf, closed, hook, todo, socket, app>>

\* Mutant: the channel stays in the map.
UnsubscribeForgets(c) ==
    /\ NoReader
    /\ Goto(c, "removing", "closing")
    /\ UNCHANGED <<clients, buf, closed, hook, todo, socket, app>>

\* Mutant: the entry is deleted without the lock.
UnsubscribeUnlocked(c) ==
    /\ Goto(c, "removing", "closing")
    /\ clients' = clients \ {c}
    /\ UNCHANGED <<buf, closed, hook, todo, socket, app>>

Unsubscribe(c) ==
    /\ NoReader
    /\ Goto(c, "removing", "closing")
    /\ clients' = clients \ {c}
    /\ UNCHANGED <<buf, closed, hook, todo, socket, app>>

\* close(ch), outside the lock, and then conn.Close.
Close(c) ==
    /\ Goto(c, "closing", "gone")
    /\ closed' = closed \cup {c}
    /\ UNCHANGED <<clients, buf, hook, todo, socket, app>>

(***************************************************************************)
(* webhookHandler and Broadcast                                            *)
(***************************************************************************)
\* A body that cannot be read is refused.
Receive(b) ==
    /\ hook[b] = "none"
    /\ \/ hook' = [hook EXCEPT ![b] = "locking"]
       \/ hook' = [hook EXCEPT ![b] = "refused"]
    /\ UNCHANGED <<clients, buf, closed, handler, todo, socket, app>>

RLock(b) ==
    /\ hook[b] = "locking"
    /\ NoWriter
    /\ hook' = [hook EXCEPT ![b] = "sending"]
    /\ todo' = [todo EXCEPT ![b] = clients]
    /\ UNCHANGED <<clients, buf, closed, handler, socket, app>>

\* Mutant: the select has no default.
SendBlocks(b, c) ==
    /\ hook[b] = "sending"
    /\ c \in todo[b]
    /\ Len(buf[c]) < Capacity
    /\ todo' = [todo EXCEPT ![b] = @ \ {c}]
    /\ buf' = [buf EXCEPT ![c] = Append(@, b)]
    /\ UNCHANGED <<clients, closed, handler, hook, socket, app>>

\* A channel that is full drops the event.
Send(b, c) ==
    /\ hook[b] = "sending"
    /\ c \in todo[b]
    /\ todo' = [todo EXCEPT ![b] = @ \ {c}]
    /\ buf' = IF Len(buf[c]) < Capacity
                THEN [buf EXCEPT ![c] = Append(@, b)]
                ELSE buf
    /\ UNCHANGED <<clients, closed, handler, hook, socket, app>>

\* RUnlock and 204
Answer(b) ==
    /\ hook[b] = "sending"
    /\ todo[b] = {}
    /\ hook' = [hook EXCEPT ![b] = "answered"]
    /\ UNCHANGED <<clients, buf, closed, handler, todo, socket, app>>

-----------------------------------------------------------------------------
(***************************************************************************)
(* The app                                                                 *)
(***************************************************************************)
Newest == CHOOSE c \in Connections :
             /\ socket[c] # "unused"
             /\ \A d \in Connections : d > c => socket[d] = "unused"

\* WebSocketService.connect, when a timer fires: also after dispose.
Connect(c) ==
    /\ timers > 0
    /\ c = Newest + 1
    /\ timers' = timers - 1
    /\ socket' = [socket EXCEPT ![c] = "connecting"]
    /\ UNCHANGED <<gateway, shown, disposed, failures>>

\* The gateway is down or refuses: the stream of the socket ends with an
\* error and is then done, and both callbacks reconnect.
ConnectFails(c) ==
    /\ socket[c] = "connecting"
    /\ failures < MaxFailures
    /\ failures' = failures + 1
    /\ socket' = [socket EXCEPT ![c] = "closed"]
    /\ timers' = timers + 2
    /\ UNCHANGED <<gateway, shown, disposed>>

\* The network, or the end of wsHandler, cuts the connection; neither end
\* need know.
Cut(c) ==
    /\ socket[c] = "open"
    /\ socket' = [socket EXCEPT ![c] = "cut"]
    /\ UNCHANGED <<gateway, app>>

\* Mutant: no reconnect when the stream ends.
DoneIgnored(c) ==
    /\ socket[c] = "cut"
    /\ socket' = [socket EXCEPT ![c] = "closed"]
    /\ UNCHANGED <<gateway, app>>

\* Mutant: the end of a socket reaches onError as well.
DoneTwice(c) ==
    /\ socket[c] = "cut"
    /\ socket' = [socket EXCEPT ![c] = "closed"]
    /\ timers' = timers + 2
    /\ UNCHANGED <<gateway, shown, disposed, failures>>

\* onDone
Done(c) ==
    /\ socket[c] = "cut"
    /\ socket' = [socket EXCEPT ![c] = "closed"]
    /\ timers' = timers + 1
    /\ UNCHANGED <<gateway, shown, disposed, failures>>

ClearEvents ==
    /\ disposed = "no"
    /\ shown' = <<>>
    /\ UNCHANGED <<gateway, socket, timers, disposed, failures>>

\* dispose closes the newest socket, whose onDone still reconnects.
Dispose ==
    /\ disposed = "no"
    /\ disposed' = "yes"
    /\ IF socket[Newest] \in {"connecting", "open", "cut"}
         THEN /\ socket' = [socket EXCEPT ![Newest] = "closed"]
              /\ timers' = timers + 1
         ELSE UNCHANGED <<socket, timers>>
    /\ UNCHANGED <<gateway, shown, failures>>

-----------------------------------------------------------------------------
WsHandler(c) == \/ Subscribe(c)
                \/ Write(c)
                \/ SeesGone(c)
                \/ Unsubscribe(c)
                \/ Close(c)

Webhook(b) == RLock(b) \/ (\E c \in Connections : Send(b, c)) \/ Answer(b)

Network(c) == Upgrade(c) \/ ConnectFails(c) \/ Cut(c)

App(c) == Connect(c) \/ Done(c)

Next == \/ \E c \in Connections : WsHandler(c) \/ Network(c) \/ App(c)
        \/ \E b \in Webhooks : Receive(b) \/ Webhook(b)
        \/ ClearEvents
        \/ Dispose

Spec == Init /\ [][Next]_vars

\* Goroutines that can move are scheduled.  A client that does not read may
\* hold up WriteMessage, so Write owes nothing; a ping that is not answered
\* shows that a connection is gone.
FairSpec ==
    /\ Spec
    /\ \A b \in Webhooks : WF_vars(Webhook(b))
    /\ \A c \in Connections :
          WF_vars(Subscribe(c) \/ SeesGone(c) \/ Unsubscribe(c) \/ Close(c))

-----------------------------------------------------------------------------
(***************************************************************************)
(* Properties                                                              *)
(***************************************************************************)
\* Every variable has its type.
TypeOK ==
    /\ clients \subseteq Connections
    /\ buf \in [Connections -> Seq(Webhooks)]
    /\ closed \subseteq Connections
    /\ handler \in [Connections -> {"none", "adding", "loop", "removing", "closing", "gone"}]
    /\ hook \in [Webhooks -> {"none", "locking", "sending", "answered", "refused"}]
    /\ todo \in [Webhooks -> SUBSET Connections]
    /\ socket \in [Connections -> {"unused", "connecting", "open", "cut", "closed"}]
    /\ timers \in Nat
    /\ shown \in Seq(Webhooks)
    /\ disposed \in {"no", "yes"}
    /\ failures \in Nat

\* Broadcast never sends on a closed channel, though Unsubscribe closes it
\* outside the lock: what it deletes under the lock no broadcast will visit.
NeverSendsOnClosed == \A b \in Webhooks : todo[b] \cap closed = {}

\* The map holds the channels of the handlers in their loop or waiting to
\* leave it; channels are closed when their handlers have left, and a
\* broadcast visits only channels of the map.
HubInv ==
    /\ \A c \in Connections :
          /\ c \in clients <=> handler[c] \in {"loop", "removing"}
          /\ c \in closed <=> handler[c] = "gone"
          /\ Len(buf[c]) <= Capacity
    /\ \A b \in Webhooks : /\ todo[b] # {} => hook[b] = "sending"
                           /\ todo[b] \subseteq clients

\* A broadcast in progress, the map and the handlers agree on every channel,
\* and no send meets a closed one.
HubOK == TypeOK /\ HubInv /\ NeverSendsOnClosed

\* The app always has one way to an event, open or scheduled, and one more
\* for every connection attempt that failed, since onError and onDone each
\* reconnect; dispose does not end them.
Live(c) == socket[c] \in {"connecting", "open", "cut"}

ReconnectsConserved ==
    Cardinality({c \in Connections : Live(c)}) + timers = 1 + failures

\* While no attempt has failed, the app shows no event twice, whatever breaks
\* and is connected anew.
ShownOnce == failures = 0 => IsInjective(shown)

(***************************************************************************)
(* Why an event is shown once.  A broadcast gives it to a channel at most  *)
(* once, and while no attempt to connect has failed one socket is live: as *)
(* long as it may still bring an event, no earlier socket has brought it.  *)
(***************************************************************************)
Pending(b, c) == b \in ToSet(buf[c]) \/ c \in todo[b]

\* A channel has nothing before its handler is in the map.
EmptyUntilSubscribed ==
    \A c \in Connections :
        /\ handler[c] \in {"none", "adding"} => buf[c] = <<>>
        /\ socket[c] = "unused" => handler[c] = "none"

\* A broadcast that has still to visit a channel has not put its event there.
SentOnce ==
    \A c \in Connections :
        /\ IsInjective(buf[c])
        /\ \A b \in Webhooks : c \in todo[b] => b \notin ToSet(buf[c])

\* An event is nowhere before its broadcast has the lock.
NothingBeforeLock ==
    \A b \in Webhooks :
        hook[b] \in {"none", "locking", "refused"} =>
            b \notin ToSet(shown) /\ \A c \in Connections : b \notin ToSet(buf[c])

PendingIsNew ==
    failures = 0 =>
        \A c \in Connections : \A b \in Webhooks :
            Live(c) /\ Pending(b, c) => b \notin ToSet(shown)

OnceInv == /\ EmptyUntilSubscribed
           /\ SentOnce
           /\ NothingBeforeLock
           /\ PendingIsNew
           /\ ShownOnce

\* The inductive invariant, together with ReconnectsConserved.
Inv == HubOK /\ OnceInv

\* A webhook that was received is answered, whatever the clients do: one that
\* reads nothing, connections that come and go.
WebhooksAnswered == \A b \in Webhooks : hook[b] = "locking" ~> hook[b] = "answered"

\* The channel of a connection that is gone leaves the hub.
GoneIsForgotten ==
    \A c \in Connections : c \in clients /\ socket[c] = "closed" ~> c \notin clients
=============================================================================
