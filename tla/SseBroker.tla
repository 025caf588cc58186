------------------------------ MODULE SseBroker ------------------------------
(***************************************************************************)
(* The SSE broker of ol1n-vault (internal/sse/broker.go), the worker that  *)
(* publishes on it and the status streams (streamJobStatus) that read it.  *)
(*                                                                         *)
(* Keys do not interact, so the model has one: a job, whose events are     *)
(* numbered 1 .. Events and the last of which is terminal.  Every event is *)
(* written to the job's row and then published by the job's goroutine.     *)
(* The numbers stand for the status and progress: row = n says that the    *)
(* row shows what event n shows, and 0 that it shows "queued".             *)
(***************************************************************************)
EXTENDS Naturals, Sequences, SequencesExt

CONSTANTS
    Streams,   \* the status streams that clients open
    Events,    \* number of events of the job
    Capacity,  \* buffer of a subscriber's channel
    Faults     \* "write": an UPDATE of the row fails; "read": GetJob fails

ASSUME EventsAssumption   == Events \in Nat \ {0}
ASSUME CapacityAssumption == Capacity \in Nat \ {0}
ASSUME FaultsAssumption   == Faults \subseteq {"read", "write"}

VARIABLES
    row,      \* the event the job's row shows
    event,    \* the event the worker is about to store or publish
    worker,   \* where the worker goroutine is
    chans,    \* Publish's snapshot: the channels still to be sent to
    subs,     \* b.subs[key]: the subscribed channels, one per stream
    buf,      \* what is buffered in the channel of a stream
    closed,   \* the channels that are closed
    pc,       \* where streamJobStatus is
    snap,     \* what the stream showed first (Events + 1: nothing)
    got,      \* the events it showed afterwards
    dropped,  \* history: the events that found the channel full
    unstored  \* history: the events whose UPDATE failed

publisher == <<row, event, worker, chans>>
broker == <<subs, buf, closed>>
client == <<pc, snap, got>>
history == <<dropped, unstored>>
vars == <<row, event, worker, chans, subs, buf, closed, pc, snap, got, dropped, unstored>>

Terminal(e) == e = Events

NoSnapshot == Events + 1

\* A panic in the worker's goroutine ends the process.
Up == worker # "panicked"

Init ==
    /\ row = 0
    /\ event = 1
    /\ worker = "store"
    /\ chans = {}
    /\ subs = {}
    /\ buf = [s \in Streams |-> <<>>]
    /\ closed = {}
    /\ pc = [s \in Streams |-> "new"]
    /\ snap = [s \in Streams |-> NoSnapshot]
    /\ got = [s \in Streams |-> <<>>]
    /\ dropped = [s \in Streams |-> {}]
    /\ unstored = {}

-----------------------------------------------------------------------------
(***************************************************************************)
(* The worker: Submit, Progress and Done all store and then publish; none  *)
(* of them looks at the error of the UPDATE.                               *)
(***************************************************************************)
\* Mutant: the row is one event behind what is published.
StoreLater ==
    /\ worker = "store"
    /\ worker' = "snapshot"
    /\ row' = event - 1
    /\ UNCHANGED <<event, chans, broker, client, history>>

Store ==
    /\ worker = "store"
    /\ worker' = "snapshot"
    /\ \/ row' = event /\ UNCHANGED unstored
       \/ "write" \in Faults /\ unstored' = unstored \cup {event} /\ UNCHANGED row
    /\ UNCHANGED <<event, chans, broker, client, dropped>>

\* Publish copies the channels under the read lock and sends outside it.
Snapshot ==
    /\ worker = "snapshot"
    /\ worker' = "send"
    /\ chans' = subs
    /\ UNCHANGED <<row, event, broker, client, history>>

\* Mutant: a channel that took the event stays in the list.
SendAgain(s) ==
    /\ worker = "send"
    /\ s \in chans \ closed
    /\ IF Len(buf[s]) < Capacity
         THEN /\ buf' = [buf EXCEPT ![s] = Append(@, event)]
              /\ UNCHANGED <<chans, dropped>>
         ELSE /\ chans' = chans \ {s}
              /\ dropped' = [dropped EXCEPT ![s] = @ \cup {event}]
              /\ UNCHANGED buf
    /\ UNCHANGED <<row, event, worker, subs, closed, client, unstored>>

\* A channel that is full drops the event.
Send(s) ==
    /\ worker = "send"
    /\ s \in chans \ closed
    /\ chans' = chans \ {s}
    /\ IF Len(buf[s]) < Capacity
         THEN /\ buf' = [buf EXCEPT ![s] = Append(@, event)]
              /\ UNCHANGED dropped
         ELSE /\ dropped' = [dropped EXCEPT ![s] = @ \cup {event}]
              /\ UNCHANGED buf
    /\ UNCHANGED <<row, event, worker, subs, closed, client, unstored>>

\* A send on a closed channel panics, in a select with a default as well.
SendOnClosed(s) ==
    /\ worker = "send"
    /\ s \in chans \cap closed
    /\ worker' = "panicked"
    /\ UNCHANGED <<row, event, chans, broker, client, history>>

Published ==
    /\ worker = "send"
    /\ chans = {}
    /\ IF Terminal(event) THEN worker' = "end" /\ UNCHANGED event
                          ELSE worker' = "store" /\ event' = event + 1
    /\ UNCHANGED <<row, chans, broker, client, history>>

-----------------------------------------------------------------------------
(***************************************************************************)
(* streamJobStatus                                                         *)
(***************************************************************************)
Goto(s, from, to) ==
    /\ Up
    /\ pc[s] = from
    /\ pc' = [pc EXCEPT ![s] = to]

Subscribe(s) ==
    /\ Goto(s, "new", "read")
    /\ subs' = subs \cup {s}
    /\ UNCHANGED <<publisher, buf, closed, snap, got, history>>

GetJob(s) ==
    /\ Goto(s, "read", IF Terminal(row) THEN "cancel" ELSE "loop")
    /\ snap' = [snap EXCEPT ![s] = row]
    /\ UNCHANGED <<publisher, broker, got, history>>

\* An error other than "not found" is passed over.
GetJobFails(s) ==
    /\ "read" \in Faults
    /\ Goto(s, "read", "loop")
    /\ UNCHANGED <<publisher, broker, snap, got, history>>

\* Mutant: only the client ends a stream.
ReceiveNeverEnds(s) ==
    /\ buf[s] # <<>>
    /\ Goto(s, "loop", "loop")
    /\ got' = [got EXCEPT ![s] = Append(@, Head(buf[s]))]
    /\ buf' = [buf EXCEPT ![s] = Tail(@)]
    /\ UNCHANGED <<publisher, subs, closed, snap, history>>

Receive(s) ==
    /\ buf[s] # <<>>
    /\ Goto(s, "loop", IF Terminal(Head(buf[s])) THEN "cancel" ELSE "loop")
    /\ got' = [got EXCEPT ![s] = Append(@, Head(buf[s]))]
    /\ buf' = [buf EXCEPT ![s] = Tail(@)]
    /\ UNCHANGED <<publisher, subs, closed, snap, history>>

\* The client disconnects, or a write to it fails.
Leave(s) ==
    /\ Goto(s, "loop", "cancel")
    /\ UNCHANGED <<publisher, broker, snap, got, history>>

\* Mutant: the whole key is deleted, other subscribers or not.
UnsubscribeKey(s) ==
    /\ Goto(s, "cancel", "close")
    /\ subs' = {}
    /\ UNCHANGED <<publisher, buf, closed, snap, got, history>>

\* The deferred cancel unsubscribes under the lock and closes outside it.
Unsubscribe(s) ==
    /\ Goto(s, "cancel", "close")
    /\ subs' = subs \ {s}
    /\ UNCHANGED <<publisher, buf, closed, snap, got, history>>

Close(s) ==
    /\ Goto(s, "close", "ended")
    /\ closed' = closed \cup {s}
    /\ UNCHANGED <<publisher, subs, buf, snap, got, history>>

-----------------------------------------------------------------------------
Publish == \/ Snapshot
           \/ \E s \in Streams : Send(s) \/ SendOnClosed(s)
           \/ Published

Worker == Store \/ Publish

Stream(s) == \/ Subscribe(s)
             \/ GetJob(s)
             \/ GetJobFails(s)
             \/ Receive(s)
             \/ Unsubscribe(s)
             \/ Close(s)

Next == \/ Worker
        \/ \E s \in Streams : Stream(s) \/ Leave(s)

Spec == Init /\ [][Next]_vars

\* Goroutines that can move are scheduled; clients may stay for ever.
FairSpec == Spec /\ WF_vars(Worker) /\ \A s \in Streams : WF_vars(Stream(s))

-----------------------------------------------------------------------------
\* The type invariant.
TypeOK ==
    /\ row \in 0 .. Events
    /\ event \in 1 .. Events
    /\ worker \in {"store", "snapshot", "send", "end", "panicked"}
    /\ chans \subseteq Streams
    /\ subs \subseteq Streams
    /\ closed \subseteq Streams
    /\ buf \in [Streams -> Seq(1 .. Events)]
    /\ \A s \in Streams : Len(buf[s]) <= Capacity
    /\ got \in [Streams -> Seq(1 .. Events)]
    /\ dropped \in [Streams -> SUBSET (1 .. Events)]
    /\ unstored \subseteq 1 .. Events
    /\ pc \in [Streams -> {"new", "read", "loop", "cancel", "close", "ended"}]
    /\ snap \in [Streams -> 0 .. NoSnapshot]

\* what a stream received or will receive from its channel
Delivered(s) == got[s] \o buf[s]

\* The number of the last event whose turn at the channel of s is over.
Offered(s) == IF worker = "end" \/ (worker = "send" /\ s \notin chans)
                THEN event ELSE event - 1

\* Whatever is dropped, whoever comes and goes, a stream shows the events it
\* shows in their order and none of them twice.
InOrder ==
    \A s \in Streams :
        \A i, j \in DOMAIN Delivered(s) : i < j => Delivered(s)[i] < Delivered(s)[j]

\* No stream was given an event before the worker came to it.  A panic leaves
\* a Publish unfinished: some channels have the event and some have not.
NothingEarly ==
    \A s \in Streams :
        \A e \in ToSet(Delivered(s)) :
            e <= IF Up THEN Offered(s) ELSE event

\* The row shows the last event whose UPDATE succeeded, and what it does not
\* show of the events before the worker's is what failed.
RowIsLatest ==
    \A e \in row + 1 .. event :
        e \in unstored \/ (e = event /\ worker = "store")

\* A stream is subscribed from Subscribe to the deferred cancel, whoever else
\* comes and goes.
SubscribedWhileOpen ==
    subs = {s \in Streams : pc[s] \in {"read", "loop", "cancel"}}

\* A stream has shown nothing before it has read the row.
NothingShownYet ==
    \A s \in Streams : pc[s] \in {"new", "read"} => snap[s] = NoSnapshot

\* The inductive invariant: the order of what is shown follows from where the
\* worker is, and with it that no channel holds more than its capacity.
Inv == /\ TypeOK
       /\ InOrder
       /\ NothingEarly
       /\ RowIsLatest
       /\ SubscribedWhileOpen
       /\ NothingShownYet

\* Nothing falls between the state a stream shows first and the events it
\* shows next: a later event reaches its channel or found it full, unless the
\* row never showed it (streamJobStatus subscribes before it reads the row,
\* the worker stores before it publishes).
MissesNothing ==
    \A s \in Streams :
        pc[s] = "loop" =>
            \A e \in snap[s] + 1 .. Offered(s) :
                e \in ToSet(Delivered(s)) \cup dropped[s] \cup unstored

\* A client told over the stream that the job ended finds it ended in the row,
\* if the last UPDATE succeeded.
TerminalIsStored ==
    \A s \in Streams :
        Terminal(Last(<<0>> \o got[s])) => Terminal(row) \/ Events \in unstored

\* The job has ended and the stream will not learn of it: the event was
\* dropped, or it was published before the stream subscribed and the row did
\* not show it.
EndIsLost(s) == /\ worker = "end"
                /\ Events \notin ToSet(Delivered(s))
                /\ Events \in dropped[s] \cup unstored \/ snap[s] = NoSnapshot

\* Otherwise an open stream ends with its job.  A process that panicked has
\* no streams.
StreamsEnd ==
    \A s \in Streams : pc[s] = "read" ~> pc[s] = "ended" \/ EndIsLost(s) \/ ~Up

(***************************************************************************)
(* What the repository says and the code does not do.                      *)
(***************************************************************************)

\* "... forwarding broker updates until the client disconnects or the job
\* reaches a terminal state" (helpers.go): an open stream ends with its job.
StreamsAlwaysEnd == \A s \in Streams : pc[s] = "read" ~> pc[s] = "ended" \/ ~Up

\* "Publishers never block - slow subscribers drop events" (broker.go): a
\* Publish that began returns, whatever its subscribers do.
PublishReturns == worker = "snapshot" ~> worker \in {"store", "end"}
=============================================================================
