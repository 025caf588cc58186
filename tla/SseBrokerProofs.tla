--------------------------- MODULE SseBrokerProofs ---------------------------
(***************************************************************************)
(* Proofs about SseBroker for any number of streams and events, any buffer *)
(* and any of its faults.                                                  *)
(***************************************************************************)
EXTENDS SseBroker, SequenceLemmas, TLAPS

-----------------------------------------------------------------------------
(***************************************************************************)
(* Increasing sequences of numbers.                                        *)
(***************************************************************************)
\* Each number is greater than those before it.
Ordered(q) == \A i, j \in DOMAIN q : i < j => q[i] < q[j]

\* A number greater than all may follow.
LEMMA AppendOrdered ==
    ASSUME NEW q \in Seq(Nat), NEW e \in Nat, Ordered(q), \A x \in ToSet(q) : x < e
    PROVE  Ordered(Append(q, e))
<1>1. /\ Append(q, e) \in Seq(Nat)
      /\ Len(Append(q, e)) = Len(q) + 1
      /\ \A i \in 1 .. Len(q) : Append(q, e)[i] = q[i]
      /\ Append(q, e)[Len(q) + 1] = e
  BY AppendProperties
<1>2. Len(q) \in Nat /\ DOMAIN q = 1 .. Len(q)
  BY LenProperties
<1>3. DOMAIN Append(q, e) = 1 .. Len(q) + 1
  BY <1>1, LenProperties
<1>4. \A i \in 1 .. Len(q) : q[i] < e
  BY <1>2 DEF ToSet
<1>5. ASSUME NEW i \in 1 .. Len(q) + 1, NEW j \in 1 .. Len(q) + 1, i < j
      PROVE  Append(q, e)[i] < Append(q, e)[j]
  <2>1. i \in 1 .. Len(q) /\ Append(q, e)[i] = q[i]
    BY <1>1, <1>2, <1>5
  <2>2. CASE j = Len(q) + 1
    BY <2>1, <2>2, <1>1, <1>4
  <2>3. CASE j # Len(q) + 1
    <3>1. j \in 1 .. Len(q) /\ Append(q, e)[j] = q[j]
      BY <1>1, <1>2, <2>3
    <3> QED BY <2>1, <3>1, <1>2, <1>5 DEF Ordered
  <2> QED BY <2>2, <2>3
<1> QED BY <1>3, <1>5 DEF Ordered

-----------------------------------------------------------------------------
(***************************************************************************)
(* Type correctness.                                                       *)
(***************************************************************************)
LEMMA TypeInit == Init => TypeOK
  BY EventsAssumption, CapacityAssumption DEF Init, TypeOK, NoSnapshot

\* The worker's steps outside its sends keep the types,
LEMMA TypeWorker ==
    ASSUME TypeOK, Store \/ Snapshot \/ Published
    PROVE  TypeOK'
<1> USE DEF TypeOK, broker, client, history
<1>1. CASE Store
  <2>1. row' \in 0 .. Events
    BY <1>1, EventsAssumption DEF Store
  <2>2. unstored' \subseteq 1 .. Events
    BY <1>1 DEF Store
  <2> QED BY <1>1, <2>1, <2>2 DEF Store
<1>2. CASE Snapshot
  BY <1>2 DEF Snapshot
<1>3. CASE Published
  BY <1>3, EventsAssumption DEF Published, Terminal
<1> QED BY <1>1, <1>2, <1>3

\* a send keeps them, as it fills a channel to its capacity at most,
LEMMA TypeSend ==
    ASSUME TypeOK, NEW s \in Streams, Send(s) \/ SendOnClosed(s)
    PROVE  TypeOK'
<1>1. CASE Send(s)
  <2>1. buf[s] \in Seq(1 .. Events) /\ event \in 1 .. Events /\ Len(buf[s]) \in Nat
    BY DEF TypeOK
  <2>2. CASE Len(buf[s]) < Capacity
    <3>1. buf' = [buf EXCEPT ![s] = Append(@, event)] /\ UNCHANGED dropped
      BY <1>1, <2>2 DEF Send
    <3>2. /\ Append(buf[s], event) \in Seq(1 .. Events)
          /\ Len(Append(buf[s], event)) = Len(buf[s]) + 1
      BY <2>1
    <3>3. Len(buf[s]) + 1 <= Capacity
      BY <2>1, <2>2, CapacityAssumption
    <3>4. buf' \in [Streams -> Seq(1 .. Events)]
      BY <3>1, <3>2 DEF TypeOK
    <3>5. \A t \in Streams : Len(buf'[t]) <= Capacity
      BY <3>1, <3>2, <3>3 DEF TypeOK
    <3> QED BY <1>1, <3>1, <3>4, <3>5 DEF Send, TypeOK, client
  <2>3. CASE ~(Len(buf[s]) < Capacity)
    <3>1. dropped' = [dropped EXCEPT ![s] = @ \cup {event}] /\ UNCHANGED buf
      BY <1>1, <2>3 DEF Send
    <3>2. dropped[s] \cup {event} \in SUBSET (1 .. Events)
      BY DEF TypeOK
    <3>3. dropped' \in [Streams -> SUBSET (1 .. Events)]
      BY <3>1, <3>2 DEF TypeOK
    <3> QED BY <1>1, <3>1, <3>3 DEF Send, TypeOK, client
  <2> QED BY <2>2, <2>3
<1>2. CASE SendOnClosed(s)
  BY <1>2 DEF SendOnClosed, TypeOK, broker, client, history
<1> QED BY <1>1, <1>2

\* and so do the steps of a stream and of its client.
LEMMA TypeStream ==
    ASSUME TypeOK, NEW s \in Streams, Stream(s) \/ Leave(s)
    PROVE  TypeOK'
<1> USE DEF TypeOK, Goto, publisher, broker, history
<1>1. CASE Subscribe(s)
  BY <1>1 DEF Subscribe
<1>2. CASE GetJob(s)
  BY <1>2, EventsAssumption DEF GetJob, NoSnapshot
<1>3. CASE GetJobFails(s)
  BY <1>3 DEF GetJobFails
<1>4. CASE Receive(s)
  <2>1. buf[s] \in Seq(1 .. Events) /\ buf[s] # <<>> /\ got[s] \in Seq(1 .. Events)
    BY <1>4 DEF Receive
  <2>2. /\ Head(buf[s]) \in 1 .. Events
        /\ Tail(buf[s]) \in Seq(1 .. Events)
        /\ Len(Tail(buf[s])) = Len(buf[s]) - 1
        /\ Len(buf[s]) \in Nat
    BY ONLY <2>1, HeadTailProperties, LenProperties
  <2>3. Append(got[s], Head(buf[s])) \in Seq(1 .. Events)
    BY <2>1, <2>2
  <2>4. /\ got' = [got EXCEPT ![s] = Append(@, Head(buf[s]))]
        /\ buf' = [buf EXCEPT ![s] = Tail(@)]
    BY <1>4 DEF Receive
  <2>5. got' \in [Streams -> Seq(1 .. Events)]
    BY <2>3, <2>4
  <2>6. buf' \in [Streams -> Seq(1 .. Events)]
    BY <2>2, <2>4
  <2>7. Len(Tail(buf[s])) <= Capacity
    BY <2>2, CapacityAssumption
  <2>8. \A t \in Streams : Len(buf'[t]) <= Capacity
    BY <2>4, <2>7
  <2> QED BY <1>4, <2>5, <2>6, <2>8 DEF Receive
<1>5. CASE Unsubscribe(s)
  BY <1>5 DEF Unsubscribe
<1>6. CASE Close(s)
  BY <1>6 DEF Close
<1>7. CASE Leave(s)
  BY <1>7 DEF Leave, client
<1> QED BY <1>1, <1>2, <1>3, <1>4, <1>5, <1>6, <1>7 DEF Stream

\* Every step keeps the types.
LEMMA TypeNext == TypeOK /\ [Next]_vars => TypeOK'
<1> SUFFICES ASSUME TypeOK, [Next]_vars
             PROVE  TypeOK'
  OBVIOUS
<1>1. CASE UNCHANGED vars
  BY <1>1 DEF vars, TypeOK
<1>2. CASE Next
  BY <1>2, TypeWorker, TypeSend, TypeStream DEF Next, Worker, Publish
<1> QED BY <1>1, <1>2

-----------------------------------------------------------------------------
(***************************************************************************)
(* What reaches a stream.  Only a Send to it adds an event, and moving one *)
(* from the channel to the client changes nothing.                         *)
(***************************************************************************)
LEMMA DeliveredType ==
    ASSUME TypeOK, NEW s \in Streams
    PROVE  /\ Delivered(s) \in Seq(1 .. Events)
           /\ Delivered(s) \in Seq(Nat)
           /\ \A e \in ToSet(Delivered(s)) : e \in 1 .. Events
<1>1. Delivered(s) \in Seq(1 .. Events)
  BY ConcatProperties DEF Delivered, TypeOK
<1>2. Delivered(s) \in Seq(Nat)
  <2>1. 1 .. Events \subseteq Nat
    OBVIOUS
  <2> QED BY ONLY <1>1, <2>1, SeqMonotonic, Zenon
<1>3. \A i \in DOMAIN Delivered(s) : Delivered(s)[i] \in 1 .. Events
  BY <1>1, ElementOfSeq, LenProperties
<1> QED BY <1>1, <1>2, <1>3 DEF ToSet

\* A send puts the event behind what the stream was given, or drops it.
LEMMA SendDelivers ==
    ASSUME TypeOK, NEW s \in Streams, Send(s)
    PROVE  \/ Delivered(s)' = Append(Delivered(s), event) /\ UNCHANGED dropped
           \/ /\ Delivered(s)' = Delivered(s)
              /\ dropped' = [dropped EXCEPT ![s] = @ \cup {event}]
<1>1. CASE Len(buf[s]) < Capacity
  <2>1. buf'[s] = Append(buf[s], event) /\ got' = got /\ dropped' = dropped
    BY <1>1 DEF Send, TypeOK, client
  <2>2. got[s] \in Seq(1 .. Events) /\ buf[s] \in Seq(1 .. Events) /\ event \in 1 .. Events
    BY DEF TypeOK
  <2>3. got[s] \o Append(buf[s], event) = Append(got[s] \o buf[s], event)
    <3> DEFINE T == 1 .. Events
               g == got[s]
               b == buf[s]
    <3>1. g \in Seq(T) /\ b \in Seq(T) /\ event \in T
      BY <2>2
    <3> HIDE DEF T, g, b
    <3>2. g \o Append(b, event) = Append(g \o b, event)
      BY ONLY <3>1, ConcatAppend
    <3> QED BY <3>2 DEF g, b
  <2> QED BY <2>1, <2>3 DEF Delivered
<1>2. CASE ~(Len(buf[s]) < Capacity)
  BY <1>2 DEF Send, Delivered, client
<1> QED BY <1>1, <1>2

\* Nothing but a send changes what a stream was given: receiving moves it on.
LEMMA DeliveredStep ==
    ASSUME TypeOK, [Next]_vars, NEW s \in Streams, ~Send(s)
    PROVE  Delivered(s)' = Delivered(s)
<1>1. CASE UNCHANGED <<buf, got>>
  BY <1>1 DEF Delivered
<1>2. ASSUME NEW t \in Streams, Send(t)
      PROVE  Delivered(s)' = Delivered(s)
  <2>1. t # s /\ buf'[s] = buf[s] /\ got' = got
    BY <1>2 DEF Send, TypeOK, client
  <2> QED BY <2>1 DEF Delivered
<1>3. ASSUME NEW t \in Streams, Receive(t)
      PROVE  Delivered(s)' = Delivered(s)
  <2>1. CASE t # s
    BY <1>3, <2>1 DEF Receive, TypeOK, Delivered
  <2>2. CASE t = s
    <3>1. /\ got'[s] = Append(got[s], Head(buf[s]))
          /\ buf'[s] = Tail(buf[s])
          /\ buf[s] # <<>>
      BY <1>3, <2>2 DEF Receive, TypeOK
    <3>2. got[s] \in Seq(1 .. Events) /\ buf[s] \in Seq(1 .. Events)
      BY DEF TypeOK
    <3> QED BY <3>1, <3>2, ConcatHead DEF Delivered
  <2> QED BY <2>1, <2>2
<1>4. \/ UNCHANGED <<buf, got>>
      \/ \E t \in Streams : Send(t) \/ Receive(t)
  BY DEF Next, Worker, Publish, Store, Snapshot, SendOnClosed, Published, Stream,
         Subscribe, GetJob, GetJobFails, Unsubscribe, Close, Leave, vars, broker,
         client
<1> QED BY <1>1, <1>2, <1>3, <1>4

-----------------------------------------------------------------------------
(***************************************************************************)
(* The inductive invariant, one conjunct at a time.                        *)
(***************************************************************************)
\* The last event a stream may have been given
Bound(s) == IF Up THEN Offered(s) ELSE event

\* The bounds on what a stream was given are numbers, the worker's event the largest.
LEMMA BoundType ==
    ASSUME TypeOK, NEW s \in Streams
    PROVE  event \in Nat /\ Bound(s) \in Nat /\ Offered(s) \in Nat /\ Offered(s) <= event
  BY EventsAssumption DEF TypeOK, Bound, Offered

\* No step takes the turn of an event back.
LEMMA BoundGrows ==
    ASSUME TypeOK, [Next]_vars, NEW s \in Streams
    PROVE  Bound(s) <= Bound(s)'
<1> USE DEF TypeOK, Bound, Offered, Up
<1>1. CASE UNCHANGED <<event, worker, chans>>
  BY <1>1, BoundType
<1>2. CASE Store \/ Snapshot
  BY <1>2 DEF Store, Snapshot
<1>3. CASE Published
  BY <1>3 DEF Published, Terminal
<1>4. ASSUME NEW t \in Streams, Send(t) \/ SendOnClosed(t)
      PROVE  Bound(s) <= Bound(s)'
  BY <1>4 DEF Send, SendOnClosed
<1>5. \/ UNCHANGED <<event, worker, chans>>
      \/ Store \/ Snapshot \/ Published
      \/ \E t \in Streams : Send(t) \/ SendOnClosed(t)
  BY DEF Next, Worker, Publish, Stream, Subscribe, GetJob, GetJobFails, Receive,
         Unsubscribe, Close, Leave, vars, publisher
<1> QED BY <1>1, <1>2, <1>3, <1>4, <1>5

\* A channel that is still to be sent to has nothing of this event.
LEMMA SendIsNext ==
    ASSUME TypeOK, NothingEarly, NEW s \in Streams, Send(s)
    PROVE  /\ \A e \in ToSet(Delivered(s)) : e < event
           /\ Bound(s)' = event
<1>1. Bound(s) = event - 1 /\ event \in Nat
  BY DEF Bound, Offered, Up, Send, TypeOK
<1>2. \A e \in ToSet(Delivered(s)) : e <= event - 1 /\ e \in Nat
  BY <1>1, DeliveredType DEF NothingEarly, Bound
<1>3. Bound(s)' = event
  BY DEF Bound, Offered, Up, Send
<1> QED BY <1>1, <1>2, <1>3

\* What is sent is later than all that was given, so the order is kept.
LEMMA OrderNext ==
    ASSUME Inv, [Next]_vars
    PROVE  InOrder'
<1> SUFFICES ASSUME NEW s \in Streams
             PROVE  Ordered(Delivered(s))'
  BY DEF InOrder, Ordered
<1>1. TypeOK /\ NothingEarly /\ Ordered(Delivered(s))
  BY DEF Inv, InOrder, Ordered
<1>2. CASE Delivered(s)' = Delivered(s)
  BY <1>1, <1>2 DEF Ordered
<1>3. CASE Send(s) /\ Delivered(s)' = Append(Delivered(s), event)
  <2>1. Delivered(s) \in Seq(Nat) /\ event \in Nat
    BY <1>1, DeliveredType, BoundType
  <2>2. Ordered(Append(Delivered(s), event))
    BY <1>1, <1>3, <2>1, SendIsNext, AppendOrdered
  <2> QED BY <1>3, <2>2 DEF Ordered
<1> QED BY <1>1, <1>2, <1>3, DeliveredStep, SendDelivers

\* What a stream was given stays behind the worker.
LEMMA EarlyNext ==
    ASSUME Inv, [Next]_vars
    PROVE  NothingEarly'
<1> SUFFICES ASSUME NEW s \in Streams
             PROVE  (\A e \in ToSet(Delivered(s)) : e <= Bound(s))'
  BY DEF NothingEarly, Bound
<1>1. TypeOK /\ NothingEarly /\ TypeOK'
  BY TypeNext DEF Inv
<1>2. CASE Delivered(s)' = Delivered(s)
  <2>1. \A e \in ToSet(Delivered(s)) : e \in Nat /\ e <= Bound(s)
    BY <1>1, DeliveredType DEF NothingEarly, Bound
  <2>2. Bound(s)' \in Nat
    <3>1. event' \in Nat \ {0}
      BY <1>1, EventsAssumption DEF TypeOK
    <3>2. Bound(s)' \in {event', event' - 1}
      BY DEF Bound, Offered, Up
    <3> QED BY <3>1, <3>2
  <2>3. Bound(s) \in Nat /\ Bound(s) <= Bound(s)'
    BY <1>1, BoundType, BoundGrows
  <2> QED BY <1>2, <2>1, <2>2, <2>3
<1>3. CASE Send(s) /\ Delivered(s)' = Append(Delivered(s), event)
  <2>1. Delivered(s) \in Seq(Nat) /\ event \in Nat
    BY <1>1, DeliveredType, BoundType
  <2>2. ToSet(Append(Delivered(s), event)) = ToSet(Delivered(s)) \cup {event}
    BY <2>1, AppendElements
  <2>3. \A e \in ToSet(Delivered(s)) \cup {event} : e <= event
    BY <1>1, <1>3, <2>1, SendIsNext, DeliveredType
  <2> QED BY <1>1, <1>3, <2>2, <2>3, SendIsNext
<1> QED BY <1>1, <1>2, <1>3, DeliveredStep, SendDelivers

\* The row stays the last event whose UPDATE succeeded.
LEMMA RowNext ==
    ASSUME TypeOK, RowIsLatest, [Next]_vars
    PROVE  RowIsLatest'
<1> USE DEF TypeOK, RowIsLatest
<1>1. CASE Store
  BY <1>1 DEF Store
<1>2. CASE Published
  BY <1>2 DEF Published, history
<1>3. CASE UNCHANGED <<row, event, unstored>> /\ worker' # "store" /\ worker # "store"
  BY <1>3
<1>4. CASE UNCHANGED <<row, event, unstored, worker>>
  BY <1>4
<1>5. \/ Store \/ Published
      \/ UNCHANGED <<row, event, unstored>> /\ worker' # "store" /\ worker # "store"
      \/ UNCHANGED <<row, event, unstored, worker>>
  BY DEF Next, Worker, Publish, Snapshot, Send, SendOnClosed, Stream, Subscribe,
         GetJob, GetJobFails, Receive, Unsubscribe, Close, Leave, vars, publisher,
         history
<1> QED BY <1>1, <1>2, <1>3, <1>4, <1>5

\* A stream stays subscribed while it is open.
LEMMA SubscribedNext ==
    ASSUME TypeOK, SubscribedWhileOpen, [Next]_vars
    PROVE  SubscribedWhileOpen'
<1> USE DEF TypeOK, SubscribedWhileOpen
<1>1. CASE UNCHANGED <<subs, pc>>
  BY <1>1
<1>2. ASSUME NEW s \in Streams, Stream(s) \/ Leave(s)
      PROVE  SubscribedWhileOpen'
  BY <1>2 DEF Stream, Subscribe, GetJob, GetJobFails, Receive, Unsubscribe, Close,
              Leave, Goto, broker
<1>3. \/ UNCHANGED <<subs, pc>>
      \/ \E s \in Streams : Stream(s) \/ Leave(s)
  BY DEF Next, Worker, Publish, Store, Snapshot, Send, SendOnClosed, Published,
         vars, broker, client
<1> QED BY <1>1, <1>2, <1>3

\* A stream shows nothing before it has read the row.
LEMMA ShownNext ==
    ASSUME TypeOK, NothingShownYet, [Next]_vars
    PROVE  NothingShownYet'
<1> USE DEF TypeOK, NothingShownYet
<1>1. CASE UNCHANGED <<snap, pc>>
  BY <1>1
<1>2. ASSUME NEW s \in Streams, Stream(s) \/ Leave(s)
      PROVE  NothingShownYet'
  BY <1>2 DEF Stream, Subscribe, GetJob, GetJobFails, Receive, Unsubscribe, Close,
              Leave, Goto, client
<1>3. \/ UNCHANGED <<snap, pc>>
      \/ \E s \in Streams : Stream(s) \/ Leave(s)
  BY DEF Next, Worker, Publish, Store, Snapshot, Send, SendOnClosed, Published,
         vars, client
<1> QED BY <1>1, <1>2, <1>3

\* The invariant holds at first.
LEMMA InvInit == Init => Inv
<1> SUFFICES ASSUME Init
             PROVE  Inv
  OBVIOUS
<1>1. TypeOK
  BY TypeInit
<1>2. \A s \in Streams : Delivered(s) = <<>>
  BY ConcatEmptySeq, EmptySeq DEF Init, Delivered
<1>3. InOrder /\ NothingEarly
  BY <1>2 DEF InOrder, NothingEarly, ToSet
<1>4. RowIsLatest /\ SubscribedWhileOpen /\ NothingShownYet
  BY DEF Init, RowIsLatest, SubscribedWhileOpen, NothingShownYet
<1> QED BY <1>1, <1>3, <1>4 DEF Inv

\* Every step keeps the invariant.
LEMMA InvNext == Inv /\ [Next]_vars => Inv'
  BY TypeNext, OrderNext, EarlyNext, RowNext, SubscribedNext, ShownNext
  DEF Inv

\* A stream is shown events in their order and none twice, and its channel
\* never holds more than its capacity, whoever subscribes, lags or leaves.
THEOREM Invariance == Spec => []Inv
  BY InvInit, InvNext, PTL DEF Spec

-----------------------------------------------------------------------------
(***************************************************************************)
(* The safety properties.                                                  *)
(***************************************************************************)

\* A client that was told of the end finds it in the row: the worker had
\* stored the event, or had failed to, before any stream was sent it.
THEOREM EndIsStored == Spec => []TerminalIsStored
<1>1. ASSUME Inv
      PROVE  TerminalIsStored
  <2> SUFFICES ASSUME NEW s \in Streams, Terminal(Last(<< 0 >> \o got[s]))
               PROVE  row = Events \/ Events \in unstored
    BY DEF TerminalIsStored, Terminal
  <2>1. TypeOK /\ NothingEarly /\ RowIsLatest
    BY <1>1 DEF Inv
  <2>2. got[s] \in Seq(Nat) /\ << 0 >> \in Seq(Nat) /\ Events \in Nat \ {0}
    BY <2>1, EventsAssumption DEF TypeOK
  <2>3. got[s] # <<>> /\ Events \in ToSet(got[s])
    <3>1. /\ Len(got[s]) \in Nat
          /\ DOMAIN got[s] = 1 .. Len(got[s])
          /\ Len(<< 0 >> \o got[s]) = 1 + Len(got[s])
          /\ \A i \in 1 .. 1 + Len(got[s]) :
                (<< 0 >> \o got[s])[i] = IF i <= 1 THEN 0 ELSE got[s][i - 1]
      BY <2>2, ConcatProperties, LenProperties
    <3>2. (<< 0 >> \o got[s])[1 + Len(got[s])] = Events
      BY <3>1 DEF Last, Terminal
    <3>3. Len(got[s]) # 0 /\ got[s][Len(got[s])] = Events
      BY <2>2, <3>1, <3>2
    <3> QED BY <3>1, <3>3 DEF ToSet
  <2>4. Events \in ToSet(Delivered(s))
    <3>1. got[s] \in Seq(1 .. Events) /\ buf[s] \in Seq(1 .. Events)
      BY <2>1 DEF TypeOK
    <3>2. ToSet(got[s]) \subseteq ToSet(got[s] \o buf[s])
      BY ONLY <3>1, ConcatElements
    <3> QED BY <2>3, <3>2 DEF Delivered
  <2>5. event = Events /\ worker # "store"
    BY <2>1, <2>4, EventsAssumption DEF NothingEarly, Offered, Up, TypeOK
  <2> QED BY <2>1, <2>2, <2>5 DEF RowIsLatest, TypeOK
<1> QED BY <1>1, Invariance, PTL

\* What the row does not show when it is read, it will never show.
LEMMA RowReadLate ==
    ASSUME Inv, NEW s \in Streams, GetJob(s) \/ GetJobFails(s)
    PROVE  \A e \in snap'[s] + 1 .. Offered(s)' : e \in unstored
<1>1. TypeOK /\ RowIsLatest
  BY DEF Inv
<1>2. CASE GetJob(s)
  <2>1. snap'[s] = row /\ Offered(s)' = Offered(s)
    BY <1>1, <1>2 DEF GetJob, publisher, Offered, TypeOK
  <2>2. Offered(s) <= event /\ (worker = "store" => Offered(s) = event - 1)
    BY <1>1 DEF Offered, TypeOK
  <2> QED BY <1>1, <2>1, <2>2, BoundType DEF RowIsLatest, TypeOK
<1>3. CASE GetJobFails(s)
  <2>1. snap'[s] = Events + 1 /\ Offered(s)' = Offered(s)
    BY <1>3 DEF GetJobFails, Goto, publisher, Offered, Inv, NothingShownYet, NoSnapshot
  <2>2. Offered(s) \in Nat /\ Offered(s) <= Events /\ Events \in Nat
    BY <1>1, BoundType, EventsAssumption DEF TypeOK
  <2> QED BY <2>1, <2>2
<1> QED BY <1>2, <1>3

\* The events of which a stream cannot say that it missed them
Covered(s) == ToSet(Delivered(s)) \cup dropped[s] \cup unstored

\* What is accounted for of a stream's events never shrinks, and a send adds its own.
LEMMA CoveredGrows ==
    ASSUME TypeOK, [Next]_vars, NEW s \in Streams
    PROVE  /\ Covered(s) \subseteq Covered(s)'
           /\ Send(s) => event \in Covered(s)'
<1>1. dropped[s] \subseteq dropped'[s] /\ unstored \subseteq unstored'
  <2>1. ASSUME NEW t \in Streams, Send(t)
        PROVE  dropped[s] \subseteq dropped'[s] /\ unstored \subseteq unstored'
    BY <2>1 DEF Send, TypeOK
  <2>2. CASE Store
    BY <2>2 DEF Store
  <2>3. UNCHANGED <<dropped, unstored>> \/ Store \/ \E t \in Streams : Send(t)
    BY DEF Next, Worker, Publish, Snapshot, SendOnClosed, Published, Stream, Subscribe,
           GetJob, GetJobFails, Receive, Unsubscribe, Close, Leave, vars, history
  <2> QED BY <2>1, <2>2, <2>3
<1>2. CASE Delivered(s)' = Delivered(s) /\ ~Send(s)
  BY <1>1, <1>2 DEF Covered
<1>3. CASE Send(s)
  <2>1. CASE Delivered(s)' = Append(Delivered(s), event)
    <3>1. Delivered(s) \in Seq(Nat) /\ event \in Nat
      BY DeliveredType, BoundType
    <3>2. ToSet(Append(Delivered(s), event)) = ToSet(Delivered(s)) \cup {event}
      BY <3>1, AppendElements
    <3>3. ToSet(Delivered(s))' = ToSet(Delivered(s)) \cup {event}
      BY <2>1, <3>2
    <3> QED BY <1>1, <3>3 DEF Covered
  <2>2. CASE Delivered(s)' = Delivered(s) /\ dropped' = [dropped EXCEPT ![s] = @ \cup {event}]
    <3>1. event \in dropped'[s]
      BY <2>2 DEF TypeOK
    <3> QED BY <1>1, <2>2, <3>1 DEF Covered
  <2> QED BY <1>3, <2>1, <2>2, SendDelivers
<1> QED BY <1>2, <1>3, DeliveredStep

\* The turn of an open stream passes only when the event is sent to it: a
\* Publish that takes its list later finds it there.
LEMMA TurnPasses ==
    ASSUME Inv, [Next]_vars, NEW s \in Streams, pc[s] = "loop"
    PROVE  \/ Offered(s)' <= Offered(s)
           \/ Send(s) /\ Offered(s) = event - 1 /\ Offered(s)' = event
<1> USE DEF Inv, TypeOK, Offered
<1>1. CASE UNCHANGED <<event, worker, chans>>
  BY <1>1, BoundType
<1>2. CASE Store
  BY <1>2 DEF Store
<1>3. CASE Snapshot
  BY <1>3 DEF Snapshot, SubscribedWhileOpen
<1>4. CASE Published
  BY <1>4 DEF Published, Terminal
<1>5. ASSUME NEW t \in Streams, SendOnClosed(t)
      PROVE  Offered(s)' <= Offered(s)
  BY <1>5 DEF SendOnClosed
<1>6. CASE Send(s)
  BY <1>6 DEF Send
<1>7. ASSUME NEW t \in Streams \ {s}, Send(t)
      PROVE  Offered(s)' <= Offered(s)
  BY <1>7 DEF Send
<1>8. \/ UNCHANGED <<event, worker, chans>>
      \/ Store \/ Snapshot \/ Published
      \/ \E t \in Streams : Send(t) \/ SendOnClosed(t)
  BY DEF Next, Worker, Publish, Stream, Subscribe, GetJob, GetJobFails, Receive,
         Unsubscribe, Close, Leave, vars, publisher
<1> QED BY <1>1, <1>2, <1>3, <1>4, <1>5, <1>6, <1>7, <1>8

\* Given the invariant, every step keeps MissesNothing.
LEMMA MissesNothingNext ==
    ASSUME Inv, MissesNothing, [Next]_vars
    PROVE  MissesNothing'
<1> SUFFICES ASSUME NEW s \in Streams, pc'[s] = "loop",
                    NEW e \in snap'[s] + 1 .. Offered(s)'
             PROVE  e \in Covered(s)'
  BY DEF MissesNothing, Covered
<1>1. TypeOK /\ TypeOK'
  BY TypeNext DEF Inv
<1>2. CASE GetJob(s) \/ GetJobFails(s)
  <2>1. e \in unstored
    BY <1>2, RowReadLate
  <2> QED BY <1>1, <2>1, CoveredGrows DEF Covered
<1>3. CASE pc[s] = "loop" /\ snap'[s] = snap[s]
  <2>1. \A n \in snap[s] + 1 .. Offered(s) : n \in Covered(s)
    BY <1>3 DEF MissesNothing, Covered
  <2>2. snap[s] \in Nat /\ Offered(s) \in Nat /\ event \in Nat
    BY <1>1, BoundType, EventsAssumption DEF TypeOK, NoSnapshot
  <2>3. CASE Offered(s)' <= Offered(s)
    <3>1. Offered(s)' \in Int
      BY <1>1, EventsAssumption DEF TypeOK, Offered
    <3>2. e \in snap[s] + 1 .. Offered(s)
      BY <1>3, <2>2, <2>3, <3>1
    <3> QED BY <1>1, <2>1, <3>2, CoveredGrows
  <2>4. CASE Send(s) /\ Offered(s) = event - 1 /\ Offered(s)' = event
    <3>1. e \in snap[s] + 1 .. Offered(s) \/ e = event
      BY <1>3, <2>2, <2>4
    <3> QED BY <1>1, <2>1, <2>4, <3>1, CoveredGrows
  <2> QED BY <1>3, <2>3, <2>4, TurnPasses
<1>4. GetJob(s) \/ GetJobFails(s) \/ (pc[s] = "loop" /\ snap'[s] = snap[s])
  <2>1. CASE UNCHANGED <<pc, snap>>
    BY <2>1
  <2>2. ASSUME NEW t \in Streams, Stream(t) \/ Leave(t)
        PROVE  GetJob(s) \/ GetJobFails(s) \/ (pc[s] = "loop" /\ snap'[s] = snap[s])
    BY <1>1, <2>2 DEF Stream, Subscribe, GetJob, GetJobFails, Receive, Unsubscribe,
                      Close, Leave, Goto, TypeOK, client
  <2>3. \/ UNCHANGED <<pc, snap>>
        \/ \E t \in Streams : Stream(t) \/ Leave(t)
    BY DEF Next, Worker, Publish, Store, Snapshot, Send, SendOnClosed, Published,
           vars, client
  <2> QED BY <2>1, <2>2, <2>3
<1> QED BY <1>2, <1>3, <1>4

\* Nothing falls between what a stream shows first and what it shows next:
\* it subscribed before it read the row, and the row was written first.
THEOREM NothingMissed == Spec => []MissesNothing
<1>1. Init => MissesNothing
  BY DEF Init, MissesNothing
<1> QED BY <1>1, MissesNothingNext, Invariance, PTL DEF Spec

=============================================================================
