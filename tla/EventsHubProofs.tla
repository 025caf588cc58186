--------------------------- MODULE EventsHubProofs ---------------------------
(***************************************************************************)
(* Proofs about EventsHub for any number of connections and webhooks.      *)
(***************************************************************************)
EXTENDS EventsHub, FiniteSetTheorems, SequenceLemmas, TLAPS

\* The list of shown events stays a list of events.
LEMMA ShowType ==
    ASSUME NEW e \in Webhooks, TypeOK, Show(e)
    PROVE  shown' \in Seq(Webhooks)
<1>1. CASE disposed = "yes"
  BY <1>1 DEF Show, TypeOK
<1>2. CASE disposed # "yes"
  <2> DEFINE all  == <<e>> \o shown
             last == IF Len(shown) < Kept THEN Len(shown) + 1 ELSE Kept
  <2>1. all \in Seq(Webhooks) /\ Len(all) = Len(shown) + 1 /\ Len(shown) \in Nat
    BY DEF TypeOK
  <2>2. last \in Nat /\ last <= Len(all)
    BY <2>1, BoundsAssumption
  <2>3. shown' = SubSeq(all, 1, last)
    BY <1>2 DEF Show
  <2>4. \A i \in 1 .. last : all[i] \in Webhooks
    BY <2>1, <2>2
  <2>5. SubSeq(all, 1, last) \in Seq(Webhooks)
    BY <2>1, <2>2, <2>4
  <2> QED BY <2>3, <2>5
<1> QED BY <1>1, <1>2

-----------------------------------------------------------------------------
\* The steps of wsHandler keep the invariant.
LEMMA HandlerStep ==
    ASSUME HubOK, NEW c \in Connections, WsHandler(c)
    PROVE  HubOK'
<1> USE DEF HubOK, HubInv, NeverSendsOnClosed
<1>1. CASE Subscribe(c)
  <2>1. TypeOK'
    BY <1>1 DEF Subscribe, Goto, TypeOK, app
  <2>2. HubInv' /\ NeverSendsOnClosed'
    BY <1>1 DEF Subscribe, Goto, TypeOK, NoReader, app
  <2> QED BY <2>1, <2>2
<1>2. CASE Write(c)
  <2>1. /\ buf' \in [Connections -> Seq(Webhooks)]
        /\ \A d \in Connections : Len(buf'[d]) <= Capacity
    BY <1>2, BoundsAssumption DEF Write, TypeOK
  <2>2. Head(buf[c]) \in Webhooks
    BY <1>2 DEF Write, TypeOK
  <2>3. shown' \in Seq(Webhooks)
    BY <1>2, <2>2, ShowType DEF Write, TypeOK
  <2>4. handler[c] = "loop" /\ handler' \in {[handler EXCEPT ![c] = "loop"], [handler EXCEPT ![c] = "removing"]}
    BY <1>2 DEF Write, Goto
  <2>5. TypeOK'
    BY <1>2, <2>1, <2>3, <2>4 DEF Write, TypeOK
  <2>6. HubInv' /\ NeverSendsOnClosed'
    BY <1>2, <2>1, <2>4 DEF Write, TypeOK
  <2> QED BY <2>5, <2>6
<1>3. CASE SeesGone(c)
  BY <1>3 DEF SeesGone, Goto, TypeOK, app
<1>4. CASE Unsubscribe(c)
  <2>1. \A b \in Webhooks : hook[b] # "sending" /\ todo[b] = {}
    BY <1>4 DEF Unsubscribe, NoReader, TypeOK
  <2>2. TypeOK'
    BY <1>4 DEF Unsubscribe, Goto, TypeOK, app
  <2>3. HubInv' /\ NeverSendsOnClosed'
    BY <1>4, <2>1 DEF Unsubscribe, Goto, TypeOK, app
  <2> QED BY <2>2, <2>3
<1>5. CASE Close(c)
  <2>1. c \notin clients
    BY <1>5 DEF Close, Goto
  <2>2. TypeOK'
    BY <1>5 DEF Close, Goto, TypeOK, app
  <2>3. HubInv' /\ NeverSendsOnClosed'
    BY <1>5, <2>1 DEF Close, Goto, TypeOK, app
  <2> QED BY <2>2, <2>3
<1> QED BY <1>1, <1>2, <1>3, <1>4, <1>5 DEF WsHandler

\* The steps of a webhook and its broadcast keep it.
LEMMA BroadcastStep ==
    ASSUME HubOK, NEW b \in Webhooks, Receive(b) \/ Webhook(b)
    PROVE  HubOK'
<1> USE DEF HubOK, HubInv, NeverSendsOnClosed
<1>1. CASE Receive(b)
  <2>1. hook' \in [Webhooks -> {"none", "locking", "sending", "answered", "refused"}]
    BY <1>1 DEF Receive, TypeOK
  <2>2. \A d \in Webhooks : todo[d] # {} => hook'[d] = "sending"
    <3> SUFFICES ASSUME NEW d \in Webhooks, todo[d] # {}
                 PROVE  hook'[d] = "sending"
      OBVIOUS
    <3>1. hook[d] = "sending"
      OBVIOUS
    <3>2. d # b
      BY <1>1, <3>1 DEF Receive
    <3> QED BY <1>1, <3>1, <3>2 DEF Receive, TypeOK
  <2>3. UNCHANGED <<clients, buf, closed, handler, todo, socket, timers, shown, disposed, failures>>
    BY <1>1 DEF Receive, app
  <2> QED BY <2>1, <2>2, <2>3 DEF TypeOK
<1>2. CASE RLock(b)
  <2>1. clients \cap closed = {}
    BY DEF TypeOK
  <2>2. TypeOK'
    BY <1>2 DEF RLock, TypeOK, app
  <2>3. HubInv' /\ NeverSendsOnClosed'
    BY <1>2, <2>1 DEF RLock, TypeOK, app
  <2> QED BY <2>2, <2>3
<1>3. ASSUME NEW c \in Connections, Send(b, c)
      PROVE  HubOK'
  <2>1. /\ buf' \in [Connections -> Seq(Webhooks)]
        /\ \A d \in Connections : Len(buf'[d]) <= Capacity
    BY <1>3, BoundsAssumption DEF Send, TypeOK
  <2>2. TypeOK'
    BY <1>3, <2>1 DEF Send, TypeOK, app
  <2>3. HubInv' /\ NeverSendsOnClosed'
    BY <1>3, <2>1 DEF Send, TypeOK, app
  <2> QED BY <2>2, <2>3
<1>4. CASE Answer(b)
  BY <1>4 DEF Answer, TypeOK, app
<1> QED BY <1>1, <1>2, <1>3, <1>4 DEF Webhook

\* The network and the app leave the hub alone.
LEMMA OutsideStep ==
    ASSUME HubOK,
           \/ \E c \in Connections : Network(c) \/ App(c)
           \/ ClearEvents
           \/ Dispose
    PROVE  HubOK'
<1> USE DEF HubOK, HubInv, NeverSendsOnClosed
<1>1. ASSUME NEW c \in Connections, Upgrade(c)
      PROVE  HubOK'
  BY <1>1 DEF Upgrade, Goto, TypeOK, app
<1>2. ASSUME NEW c \in Connections, ConnectFails(c)
      PROVE  HubOK'
  BY <1>2 DEF ConnectFails, TypeOK, gateway
<1>5. ASSUME NEW c \in Connections, Cut(c)
      PROVE  HubOK'
  BY <1>5 DEF Cut, TypeOK, gateway, app
<1>6. ASSUME NEW c \in Connections, Connect(c)
      PROVE  HubOK'
  BY <1>6 DEF Connect, TypeOK, gateway
<1>7. ASSUME NEW c \in Connections, Done(c)
      PROVE  HubOK'
  BY <1>7 DEF Done, TypeOK, gateway
<1>3. CASE ClearEvents
  BY <1>3 DEF ClearEvents, TypeOK, gateway
<1>4. CASE Dispose
  BY <1>4 DEF Dispose, TypeOK, gateway
<1> QED BY <1>1, <1>2, <1>3, <1>4, <1>5, <1>6, <1>7 DEF Network, App

-----------------------------------------------------------------------------
\* The invariant of the hub holds for every number of connections and
\* webhooks, every capacity and any behaviour of clients and network.
THEOREM HubInvariance == Spec => []HubOK
<1>1. Init => HubOK
  BY BoundsAssumption DEF Init, HubOK, TypeOK, HubInv, NeverSendsOnClosed, Connections
<1>2. HubOK /\ [Next]_vars => HubOK'
  <2> SUFFICES ASSUME HubOK, [Next]_vars PROVE HubOK'
    OBVIOUS
  <2>1. CASE Next
    BY <2>1, HandlerStep, BroadcastStep, OutsideStep DEF Next
  <2>2. CASE UNCHANGED vars
    BY <2>2 DEF vars, HubOK, TypeOK, HubInv, NeverSendsOnClosed
  <2> QED BY <2>1, <2>2
<1> QED BY <1>1, <1>2, PTL DEF Spec

\* No broadcast sends on a closed channel, though channels are closed outside
\* the lock.
THEOREM NoSendOnClosed == Spec => []NeverSendsOnClosed
<1>1. HubOK => NeverSendsOnClosed
  BY DEF HubOK
<1> QED BY <1>1, HubInvariance, PTL

-----------------------------------------------------------------------------
(***************************************************************************)
(* Ways to an event: sockets that live and reconnects that are scheduled.  *)
(***************************************************************************)
LiveSet == {c \in Connections : Live(c)}

IsNewest(c) == /\ socket[c] # "unused"
               /\ \A d \in Connections : d > c => socket[d] = "unused"

\* The conserved sum, and that connections are used in order.
LiveInv == /\ TypeOK
           /\ Cardinality(LiveSet) + timers = 1 + failures
           /\ \E c \in Connections : IsNewest(c)

\* There is a newest connection.
LEMMA NewestIs == ASSUME LiveInv
                  PROVE  Newest \in Connections /\ IsNewest(Newest)
  BY DEF LiveInv, Newest, IsNewest

\* The live sockets can be counted.
LEMMA LiveFinite ==
    IsFiniteSet(LiveSet) /\ Cardinality(LiveSet) \in Nat
<1>1. IsFiniteSet(Connections)
  BY FS_Interval, BoundsAssumption DEF Connections
<1>2. LiveSet \subseteq Connections
  BY DEF LiveSet
<1> QED BY <1>1, <1>2, FS_Subset, FS_CardinalityType

\* A step that leaves the sockets and the counts alone
LEMMA LiveIdle ==
    ASSUME LiveInv, TypeOK', UNCHANGED <<socket, timers, failures>>
    PROVE  LiveInv'
  BY DEF LiveInv, LiveSet, Live, IsNewest

\* A socket that lives on, in another state
LEMMA LiveMoves ==
    ASSUME LiveInv, TypeOK', NEW c \in Connections, Live(c),
           NEW s \in {"connecting", "open", "cut"},
           socket' = [socket EXCEPT ![c] = s],
           UNCHANGED <<timers, failures>>
    PROVE  LiveInv'
<1>1. LiveSet' = LiveSet
  BY DEF LiveInv, TypeOK, LiveSet, Live
<1>2. \A d \in Connections : socket'[d] = "unused" <=> socket[d] = "unused"
  BY DEF LiveInv, TypeOK, Live
<1>3. \E d \in Connections : IsNewest(d)'
  BY <1>2 DEF LiveInv, IsNewest
<1> QED BY <1>1, <1>3 DEF LiveInv

\* A socket that ends
LEMMA LiveEnds ==
    ASSUME LiveInv, TypeOK', NEW c \in Connections, Live(c),
           socket' = [socket EXCEPT ![c] = "closed"],
           \/ timers' = timers + 1 /\ failures' = failures
           \/ timers' = timers + 2 /\ failures' = failures + 1
    PROVE  LiveInv'
<1>1. LiveSet' = LiveSet \ {c} /\ c \in LiveSet
  BY DEF LiveInv, TypeOK, LiveSet, Live
<1>2. Cardinality(LiveSet') = Cardinality(LiveSet) - 1
  BY <1>1, LiveFinite, FS_RemoveElement
<1>3. \A d \in Connections : socket'[d] = "unused" <=> socket[d] = "unused"
  BY DEF LiveInv, TypeOK, Live
<1>4. \E d \in Connections : IsNewest(d)'
  BY <1>3 DEF LiveInv, IsNewest
<1>5. timers \in Nat /\ failures \in Nat
  BY DEF LiveInv, TypeOK
<1>6. Cardinality(LiveSet') + timers' = 1 + failures'
  BY <1>2, <1>5, LiveFinite DEF LiveInv
<1> QED BY <1>4, <1>6 DEF LiveInv

\* A reconnect
LEMMA LiveBegins ==
    ASSUME LiveInv, TypeOK', NEW c \in Connections, Connect(c)
    PROVE  LiveInv'
<1>1. /\ Newest \in Connections
      /\ \A d \in Connections : d > Newest => socket[d] = "unused"
      /\ c = Newest + 1
  BY NewestIs DEF Connect, IsNewest
<1>2. socket[c] = "unused" /\ socket' = [socket EXCEPT ![c] = "connecting"]
  BY <1>1, BoundsAssumption DEF Connect, Connections
<1>3. LiveSet' = LiveSet \cup {c} /\ c \notin LiveSet
  BY <1>2 DEF LiveInv, TypeOK, LiveSet, Live
<1>4. Cardinality(LiveSet') = Cardinality(LiveSet) + 1
  BY <1>3, LiveFinite, FS_AddElement
<1>5. timers \in Nat /\ timers' = timers - 1 /\ failures' = failures
  BY DEF LiveInv, TypeOK, Connect
<1>6. Cardinality(LiveSet') + timers' = 1 + failures'
  BY <1>4, <1>5, LiveFinite DEF LiveInv
<1>7. \A d \in Connections : d > c => d > Newest
  BY <1>1, BoundsAssumption DEF Connections
<1>8. IsNewest(c)'
  BY <1>1, <1>2, <1>7 DEF IsNewest, LiveInv, TypeOK
<1> QED BY <1>6, <1>8 DEF LiveInv

\* Connections are used in order, and live sockets and timers are one more than the failures.
LEMMA LiveInvariance == Spec => []LiveInv
<1>1. Init => LiveInv
  <2> SUFFICES ASSUME Init PROVE LiveInv
    OBVIOUS
  <2>1. TypeOK /\ 1 \in Connections
    BY BoundsAssumption DEF Init, TypeOK, Connections
  <2>2. LiveSet = {1}
    BY <2>1 DEF Init, LiveSet, Live
  <2>3. Cardinality(LiveSet) = 1
    BY <2>2, FS_Singleton
  <2>4. IsNewest(1)
    BY <2>1 DEF Init, IsNewest, Connections
  <2> QED BY <2>1, <2>3, <2>4 DEF LiveInv, Init
<1>2. LiveInv /\ HubOK' /\ [Next]_vars => LiveInv'
  <2> SUFFICES ASSUME LiveInv, HubOK', [Next]_vars PROVE LiveInv'
    OBVIOUS
  <2>t. TypeOK'
    BY DEF HubOK
  <2>1. ASSUME NEW c \in Connections, WsHandler(c) PROVE LiveInv'
    <3>1. UNCHANGED <<socket, timers, failures>>
      BY <2>1 DEF WsHandler, Subscribe, Write, SeesGone, Unsubscribe, Close, app
    <3> QED BY <3>1, <2>t, LiveIdle
  <2>2. ASSUME NEW b \in Webhooks, Receive(b) \/ Webhook(b) PROVE LiveInv'
    <3>1. UNCHANGED <<socket, timers, failures>>
      BY <2>2 DEF Receive, Webhook, RLock, Send, Answer, app
    <3> QED BY <3>1, <2>t, LiveIdle
  <2>3. ASSUME NEW c \in Connections, Upgrade(c) PROVE LiveInv'
    BY <2>3, <2>t, LiveMoves DEF Upgrade, Live, app
  <2>4. ASSUME NEW c \in Connections, ConnectFails(c) PROVE LiveInv'
    BY <2>4, <2>t, LiveEnds DEF ConnectFails, Live
  <2>5. ASSUME NEW c \in Connections, Cut(c) PROVE LiveInv'
    BY <2>5, <2>t, LiveMoves DEF Cut, Live, app
  <2>6. ASSUME NEW c \in Connections, Connect(c) PROVE LiveInv'
    BY <2>6, <2>t, LiveBegins
  <2>7. ASSUME NEW c \in Connections, Done(c) PROVE LiveInv'
    BY <2>7, <2>t, LiveEnds DEF Done, Live
  <2>8. CASE ClearEvents
    BY <2>8, <2>t, LiveIdle DEF ClearEvents
  <2>9. CASE Dispose
    <3>1. CASE Live(Newest)
      BY <2>9, <3>1, <2>t, NewestIs, LiveEnds DEF Dispose, Live
    <3>2. CASE ~Live(Newest)
      BY <2>9, <3>2, <2>t, LiveIdle DEF Dispose, Live
    <3> QED BY <3>1, <3>2
  <2>10. CASE UNCHANGED vars
    BY <2>10, <2>t, LiveIdle DEF vars
  <2> QED BY <2>1, <2>2, <2>3, <2>4, <2>5, <2>6, <2>7, <2>8, <2>9, <2>10
          DEF Next, Network, App
<1> QED BY <1>1, <1>2, HubInvariance, PTL DEF Spec

\* The app never loses its last way to an event and never has two while no
\* attempt to connect has failed.
THEOREM ReconnectsCounted == Spec => []ReconnectsConserved
<1>1. LiveInv => ReconnectsConserved
  BY DEF LiveInv, ReconnectsConserved, LiveSet
<1> QED BY <1>1, LiveInvariance, PTL

-----------------------------------------------------------------------------
(***************************************************************************)
(* An event is shown once.                                                 *)
(***************************************************************************)
\* While no attempt has failed there is one socket or one scheduled reconnect.
LEMMA OneLive ==
    ASSUME LiveInv, failures = 0
    PROVE  /\ \A c, d \in Connections : Live(c) /\ Live(d) => c = d
           /\ timers > 0 => \A c \in Connections : ~Live(c)
<1>1. /\ Cardinality(LiveSet) \in Nat /\ IsFiniteSet(LiveSet) /\ timers \in Nat
      /\ Cardinality(LiveSet) + timers = 1
  BY LiveFinite DEF LiveInv, TypeOK
<1>2. ASSUME NEW c \in Connections, NEW d \in Connections, Live(c), Live(d), c # d
      PROVE  FALSE
  <2>1. {c, d} \subseteq LiveSet
    BY <1>2 DEF LiveSet
  <2>2. IsFiniteSet({c}) /\ Cardinality({c}) = 1
    BY FS_Singleton
  <2>3. Cardinality({c} \cup {d}) = 2
    <3>1. d \notin {c}
      BY <1>2
    <3>2. Cardinality({c} \cup {d}) = Cardinality({c}) + 1
      BY <2>2, <3>1, FS_AddElement
    <3> QED BY <2>2, <3>2
  <2>4. {c} \cup {d} = {c, d}
    OBVIOUS
  <2>5. 2 <= Cardinality(LiveSet)
    BY <1>1, <2>1, <2>3, <2>4, FS_Subset
  <2> QED BY <1>1, <2>5
<1>3. ASSUME timers > 0
      PROVE  LiveSet = {}
  <2>1. Cardinality(LiveSet) = 0
    BY <1>1, <1>3
  <2> QED BY <1>1, <2>1, FS_EmptySet
<1> QED BY <1>2, <1>3 DEF LiveSet

\* A step that moves no event and makes no socket live
LEMMA OnceQuiet ==
    ASSUME OnceInv, UNCHANGED <<buf, todo, shown, failures>>,
           \A b \in Webhooks : hook'[b] \in {"none", "locking", "refused"} =>
                                 hook[b] \in {"none", "locking", "refused"},
           \A c \in Connections :
              /\ handler'[c] \in {"none", "adding"} => handler[c] \in {"none", "adding"}
              /\ socket'[c] = "unused" => handler'[c] = "none"
              /\ Live(c)' => Live(c)
    PROVE  OnceInv'
  BY DEF OnceInv, EmptyUntilSubscribed, SentOnce, NothingBeforeLock, PendingIsNew,
         Pending, ShownOnce

\* The steps of a websocket handler queue no event a second time.
LEMMA OnceHandler ==
    ASSUME HubOK, OnceInv, NEW c \in Connections,
           Subscribe(c) \/ SeesGone(c) \/ Unsubscribe(c) \/ Close(c) \/ Upgrade(c)
    PROVE  OnceInv'
<1> USE DEF HubOK, TypeOK, Goto, app, Live
<1>1. UNCHANGED <<buf, todo, shown, failures, hook>>
  BY DEF Subscribe, SeesGone, Unsubscribe, Close, Upgrade
<1>2. \A d \in Connections :
         /\ handler'[d] \in {"none", "adding"} => handler[d] \in {"none", "adding"}
         /\ socket'[d] = "unused" => handler'[d] = "none"
         /\ Live(d)' => Live(d)
  <2>1. \A d \in Connections : socket[d] = "unused" => handler[d] = "none"
    BY DEF OnceInv, EmptyUntilSubscribed
  <2>2. CASE Upgrade(c)
    BY <2>1, <2>2 DEF Upgrade
  <2>3. CASE Subscribe(c)
    BY <2>1, <2>3 DEF Subscribe
  <2>4. CASE SeesGone(c) \/ Unsubscribe(c) \/ Close(c)
    BY <2>1, <2>4 DEF SeesGone, Unsubscribe, Close
  <2> QED BY <2>2, <2>3, <2>4
<1> QED BY <1>1, <1>2, OnceQuiet

\* Nor do the steps of a webhook before and after its broadcast,
LEMMA OnceWebhook ==
    ASSUME HubOK, OnceInv, NEW b \in Webhooks, Receive(b) \/ Answer(b)
    PROVE  OnceInv'
<1>1. UNCHANGED <<buf, todo, shown, failures, handler, socket>>
  BY DEF Receive, Answer, app
<1>2. \A d \in Webhooks : hook'[d] \in {"none", "locking", "refused"} =>
                             hook[d] \in {"none", "locking", "refused"}
  BY DEF Receive, Answer, HubOK, TypeOK
<1>3. \A d \in Connections : socket[d] = "unused" => handler[d] = "none"
  BY DEF OnceInv, EmptyUntilSubscribed
<1> QED BY <1>1, <1>2, <1>3, OnceQuiet DEF Live

\* Taking the lock: the event is nowhere yet.
LEMMA OnceLock ==
    ASSUME HubOK, OnceInv, NEW b \in Webhooks, RLock(b)
    PROVE  OnceInv'
<1>1. /\ UNCHANGED <<clients, buf, closed, handler, socket, timers, shown, failures>>
      /\ todo' = [todo EXCEPT ![b] = clients]
      /\ hook' = [hook EXCEPT ![b] = "sending"]
      /\ hook[b] = "locking"
  BY DEF RLock, app
<1>2. b \notin ToSet(shown) /\ \A c \in Connections : b \notin ToSet(buf[c])
  BY <1>1 DEF OnceInv, NothingBeforeLock
<1>3. EmptyUntilSubscribed' /\ ShownOnce'
  BY <1>1 DEF OnceInv, EmptyUntilSubscribed, ShownOnce
<1>4. SentOnce'
  BY <1>1, <1>2 DEF OnceInv, SentOnce, HubOK, TypeOK
<1>5. NothingBeforeLock'
  BY <1>1 DEF OnceInv, NothingBeforeLock, HubOK, TypeOK
<1>6. PendingIsNew'
  BY <1>1, <1>2 DEF OnceInv, PendingIsNew, Pending, Live, HubOK, TypeOK
<1> QED BY <1>3, <1>4, <1>5, <1>6 DEF OnceInv

\* nor a send, because the channel is new to this broadcast.
LEMMA OnceSend ==
    ASSUME HubOK, OnceInv, NEW b \in Webhooks, NEW c \in Connections, Send(b, c)
    PROVE  OnceInv'
<1>1. /\ UNCHANGED <<clients, closed, handler, hook, socket, timers, shown, failures>>
      /\ todo' = [todo EXCEPT ![b] = @ \ {c}]
      /\ c \in todo[b] /\ hook[b] = "sending"
      /\ buf' = [buf EXCEPT ![c] = Append(@, b)] \/ buf' = buf
  BY DEF Send, app
<1>2. /\ buf \in [Connections -> Seq(Webhooks)]
      /\ todo \in [Webhooks -> SUBSET Connections]
      /\ handler[c] \in {"loop", "removing"}
  BY <1>1 DEF HubOK, HubInv, TypeOK
<1>3. b \notin ToSet(buf[c]) /\ IsInjective(buf[c])
  BY <1>1 DEF OnceInv, SentOnce
<1>4. /\ ToSet(Append(buf[c], b)) = ToSet(buf[c]) \cup {b}
      /\ IsInjective(Append(buf[c], b))
  BY <1>2, <1>3, AppendElements, AppendInjection
<1>5. \A d \in Connections :
         /\ IsInjective(buf'[d])
         /\ ToSet(buf'[d]) \subseteq ToSet(buf[d]) \cup {b}
         /\ d # c => buf'[d] = buf[d]
  BY <1>1, <1>2, <1>4 DEF OnceInv, SentOnce
<1>6. \A e \in Webhooks : \A d \in Connections :
         d \in todo'[e] <=> d \in todo[e] /\ ~(e = b /\ d = c)
  BY <1>1, <1>2
<1>7. EmptyUntilSubscribed' /\ ShownOnce'
  BY <1>1, <1>2, <1>5 DEF OnceInv, EmptyUntilSubscribed, ShownOnce
<1>8. SentOnce'
  BY <1>5, <1>6 DEF OnceInv, SentOnce
<1>9. NothingBeforeLock'
  BY <1>1, <1>5 DEF OnceInv, NothingBeforeLock
<1>10. PendingIsNew'
  BY <1>1, <1>5, <1>6 DEF OnceInv, PendingIsNew, Pending, Live
<1> QED BY <1>7, <1>8, <1>9, <1>10 DEF OnceInv

\* What is shown after an event that was not
LEMMA ShowOnce ==
    ASSUME TypeOK, NEW e \in Webhooks, Show(e)
    PROVE  /\ ToSet(shown') \subseteq ToSet(shown) \cup {e}
           /\ IsInjective(shown) /\ e \notin ToSet(shown) => IsInjective(shown')
<1>1. CASE disposed = "yes"
  BY <1>1 DEF Show
<1>2. CASE disposed # "yes"
  <2> DEFINE n == IF Len(shown) < Kept THEN Len(shown) + 1 ELSE Kept
  <2>1. shown \in Seq(Webhooks) /\ Len(shown) \in Nat
    BY LenProperties DEF TypeOK
  <2>2. /\ <<e>> \o shown \in Seq(Webhooks)
        /\ Len(<<e>> \o shown) = Len(shown) + 1
        /\ ToSet(<<e>> \o shown) = ToSet(shown) \cup {e}
        /\ IsInjective(shown) /\ e \notin ToSet(shown) => IsInjective(<<e>> \o shown)
    BY <2>1, PrependElements
  <2>3. n \in 0 .. Len(<<e>> \o shown)
    BY <2>1, <2>2, BoundsAssumption
  <2>4. shown' = SubSeq(<<e>> \o shown, 1, n)
    BY <1>2 DEF Show
  <2> HIDE DEF n
  <2> QED BY <2>2, <2>3, <2>4, PrefixElements
<1> QED BY <1>1, <1>2

\* Only the live socket's channel reaches the app, and once only.
LEMMA OnceWrite ==
    ASSUME HubOK, LiveInv, OnceInv, NEW c \in Connections, Write(c)
    PROVE  OnceInv'
<1> DEFINE e == Head(buf[c])
<1>1. /\ UNCHANGED <<clients, closed, hook, todo, socket, timers, failures>>
      /\ buf' = [buf EXCEPT ![c] = Tail(@)]
      /\ handler[c] = "loop" /\ buf[c] # <<>>
      /\ handler' \in {[handler EXCEPT ![c] = "loop"], [handler EXCEPT ![c] = "removing"]}
      /\ \/ socket[c] = "open" /\ Show(e)
         \/ shown' = shown
  BY DEF Write, Goto
<1>2. /\ buf \in [Connections -> Seq(Webhooks)]
      /\ handler \in [Connections -> {"none", "adding", "loop", "removing", "closing", "gone"}]
      /\ hook \in [Webhooks -> {"none", "locking", "sending", "answered", "refused"}]
      /\ failures \in Nat
  BY DEF HubOK, TypeOK
<1>3. /\ e \in Webhooks /\ e \in ToSet(buf[c])
      /\ ToSet(Tail(buf[c])) \subseteq ToSet(buf[c])
      /\ IsInjective(Tail(buf[c])) /\ e \notin ToSet(Tail(buf[c]))
  <2>1. IsInjective(buf[c]) /\ buf[c] \in Seq(Webhooks)
    BY <1>2 DEF OnceInv, SentOnce
  <2>2. e \in Webhooks
    BY <1>1, <2>1, HeadTailProperties
  <2> QED BY <1>1, <2>1, <2>2, TailElements
<1> HIDE DEF e
<1>u. hook' = hook /\ todo' = todo /\ socket' = socket /\ failures' = failures
  BY <1>1
<1>4. \A d \in Connections : /\ IsInjective(buf'[d])
                              /\ ToSet(buf'[d]) \subseteq ToSet(buf[d])
  <2>1. \A d \in Connections : IsInjective(buf[d])
    BY DEF OnceInv, SentOnce
  <2> QED BY ONLY <1>1, <1>2, <1>3, <2>1
<1>5. EmptyUntilSubscribed'
  BY <1>1, <1>2 DEF OnceInv, EmptyUntilSubscribed
<1>6. SentOnce'
  <2>1. SentOnce
    BY DEF OnceInv
  <2>2. ASSUME NEW d \in Connections
        PROVE  /\ IsInjective(buf'[d])
               /\ \A b \in Webhooks : d \in todo'[b] => b \notin ToSet(buf'[d])
    BY <2>1, <1>u, <1>4 DEF SentOnce
  <2> QED BY <2>2 DEF SentOnce
<1>7. CASE shown' = shown
  <2>1. NothingBeforeLock' /\ ShownOnce'
    BY <1>u, <1>4, <1>7 DEF OnceInv, NothingBeforeLock, ShownOnce
  <2>2. PendingIsNew'
    BY <1>u, <1>4, <1>7 DEF OnceInv, PendingIsNew, Pending, Live
  <2> QED BY <1>5, <1>6, <2>1, <2>2 DEF OnceInv
<1>8. CASE socket[c] = "open" /\ Show(e)
  <2>1. hook[e] \in {"sending", "answered"}
    BY <1>2, <1>3 DEF OnceInv, NothingBeforeLock
  <2>2. ToSet(shown') \subseteq ToSet(shown) \cup {e}
    BY <1>3, <1>8, ShowOnce DEF HubOK
  <2>3. NothingBeforeLock'
    BY <1>u, <1>4, <2>1, <2>2 DEF OnceInv, NothingBeforeLock
  <2>4. ASSUME failures = 0
        PROVE  /\ IsInjective(shown')
               /\ \A d \in Connections : \A b \in Webhooks :
                     Live(d)' /\ Pending(b, d)' => b \notin ToSet(shown')
    <3>1. Live(c) /\ \A d \in Connections : Live(d) => d = c
      BY <1>8, <2>4, OneLive DEF Live
    <3>2. e \notin ToSet(shown) /\ IsInjective(shown)
      BY <1>3, <2>4, <3>1 DEF OnceInv, PendingIsNew, Pending, ShownOnce
    <3>3. IsInjective(shown')
      BY <1>3, <1>8, <3>2, ShowOnce DEF HubOK
    <3>4. \A b \in Webhooks : Pending(b, c)' => Pending(b, c) /\ b # e
      <4>1. c \notin todo[e] /\ buf'[c] = Tail(buf[c])
        BY <1>1, <1>2, <1>3 DEF OnceInv, SentOnce
      <4> QED BY <1>1, <1>3, <4>1 DEF Pending
    <3>5. \A b \in Webhooks : Pending(b, c)' => b \notin ToSet(shown')
      BY <2>2, <2>4, <3>1, <3>4 DEF OnceInv, PendingIsNew
    <3> QED BY <1>1, <3>1, <3>3, <3>5 DEF Live
  <2>5. PendingIsNew' /\ ShownOnce'
    BY <1>1, <2>4 DEF PendingIsNew, ShownOnce
  <2> QED BY <1>5, <1>6, <2>3, <2>5 DEF OnceInv
<1> QED BY <1>1, <1>7, <1>8

\* The app: a socket begins with nothing, or one ends, or the list is cleared.
LEMMA OnceApp ==
    ASSUME HubOK, LiveInv, OnceInv,
           \/ \E c \in Connections : ConnectFails(c) \/ Cut(c) \/ App(c)
           \/ ClearEvents
           \/ Dispose
    PROVE  OnceInv'
<1> USE DEF gateway, app
<1>1. ASSUME NEW c \in Connections, ConnectFails(c)
      PROVE  OnceInv'
  <2>1. /\ UNCHANGED <<buf, todo, shown, handler, hook>>
        /\ socket' = [socket EXCEPT ![c] = "closed"]
        /\ failures' # 0
    BY <1>1 DEF ConnectFails, HubOK, TypeOK
  <2> QED BY <2>1 DEF OnceInv, EmptyUntilSubscribed, SentOnce, NothingBeforeLock,
                      PendingIsNew, ShownOnce, HubOK, TypeOK
<1>2. ASSUME NEW c \in Connections, Connect(c)
      PROVE  OnceInv'
  <2>1. /\ UNCHANGED <<buf, todo, shown, handler, hook, failures>>
        /\ socket' = [socket EXCEPT ![c] = "connecting"]
        /\ socket[c] = "unused"
    BY <1>2, NewestIs, BoundsAssumption DEF Connect, IsNewest, Connections
  <2>2. handler[c] = "none" /\ buf[c] = <<>>
    BY <2>1 DEF OnceInv, EmptyUntilSubscribed
  <2>3. \A b \in Webhooks : ~Pending(b, c)
    BY <2>2 DEF Pending, ToSet, HubOK, HubInv
  <2>4. EmptyUntilSubscribed' /\ SentOnce' /\ NothingBeforeLock' /\ ShownOnce'
    BY <2>1 DEF OnceInv, EmptyUntilSubscribed, SentOnce, NothingBeforeLock, ShownOnce,
                HubOK, TypeOK
  <2>5. PendingIsNew'
    BY <2>1, <2>3 DEF OnceInv, PendingIsNew, Pending, Live, HubOK, TypeOK
  <2> QED BY <2>4, <2>5 DEF OnceInv
<1>3. ASSUME NEW c \in Connections, socket' = [socket EXCEPT ![c] = "cut"]
                                     \/ socket' = [socket EXCEPT ![c] = "closed"],
             Live(c), UNCHANGED <<gateway, shown, failures>>
      PROVE  OnceInv'
  <2>1. \A d \in Connections :
           /\ Live(d)' => Live(d)
           /\ socket'[d] = "unused" => socket[d] = "unused"
    BY <1>3 DEF Live, HubOK, TypeOK
  <2> QED BY <1>3, <2>1, OnceQuiet DEF OnceInv, EmptyUntilSubscribed
<1>4. CASE ClearEvents
  <2>1. UNCHANGED <<gateway, socket, failures>> /\ ToSet(shown') = {} /\ IsInjective(shown')
    BY <1>4 DEF ClearEvents, ToSet, IsInjective
  <2> QED BY <2>1 DEF OnceInv, EmptyUntilSubscribed, SentOnce, NothingBeforeLock,
                      PendingIsNew, Pending, ShownOnce, Live
<1>5. CASE Dispose
  <2>1. CASE Live(Newest)
    BY <1>5, <2>1, <1>3, NewestIs DEF Dispose, Live
  <2>2. CASE ~Live(Newest)
    <3>1. UNCHANGED <<gateway, socket, shown, failures>>
      BY <1>5, <2>2 DEF Dispose, Live
    <3> QED BY <3>1, OnceQuiet DEF OnceInv, EmptyUntilSubscribed, Live
  <2> QED BY <2>1, <2>2
<1>6. ASSUME NEW c \in Connections, Cut(c) \/ Done(c)
      PROVE  OnceInv'
  BY <1>3, <1>6 DEF Cut, Done, Live
<1> QED BY <1>1, <1>2, <1>4, <1>5, <1>6 DEF App

\* No step queues or shows an event a second time.
LEMMA OnceNext ==
    ASSUME HubOK, LiveInv, OnceInv, [Next]_vars
    PROVE  OnceInv'
<1>1. CASE UNCHANGED vars
  BY <1>1, OnceQuiet DEF vars, OnceInv, EmptyUntilSubscribed, Live
<1>2. CASE Next
  BY <1>2, OnceHandler, OnceWebhook, OnceLock, OnceSend, OnceWrite, OnceApp
  DEF Next, WsHandler, Webhook, Network
<1> QED BY <1>1, <1>2

\* The hub and the app together: what is still to come was not shown.
THEOREM Invariance == Spec => []Inv
<1>1. Init => OnceInv
  <2> SUFFICES ASSUME Init
               PROVE  OnceInv
    OBVIOUS
  <2>1. /\ \A c \in Connections : buf[c] = <<>> /\ handler[c] = "none"
        /\ \A b \in Webhooks : todo[b] = {}
        /\ shown = <<>>
    BY DEF Init
  <2>2. ToSet(<<>>) = {} /\ IsInjective(<<>>)
    BY DEF ToSet, IsInjective
  <2> QED BY <2>1, <2>2 DEF OnceInv, EmptyUntilSubscribed, SentOnce, NothingBeforeLock,
                            PendingIsNew, Pending, ShownOnce
<1>2. HubOK /\ OnceInv => Inv
  BY DEF Inv
<1> QED BY <1>1, <1>2, OnceNext, HubInvariance, LiveInvariance, PTL DEF Spec

\* Broken connections and reconnects show the app no event twice, as long as
\* no attempt to connect has failed.
THEOREM NeverTwice == Spec => []ShownOnce
<1>1. Inv => ShownOnce
  BY DEF Inv, OnceInv
<1> QED BY <1>1, Invariance, PTL
=============================================================================
