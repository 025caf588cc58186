------------------------------ MODULE NntpPool ------------------------------
(***************************************************************************)
(* The connection pool of nntp.Client: the goroutines that hold a slot of  *)
(* jobs.Worker post or fetch one article at a time over pooled             *)
(* connections.  Client.sema holds one token per open (or opening)         *)
(* connection, Client.idle the connections nobody uses.  The order of the  *)
(* idle channel is left out: connections differ in nothing the callers see.*)
(* main closes the client when worker.Wait has returned, which is no       *)
(* promise that nobody uses it (VaultUpload, WaitCoversSubmitted): Close   *)
(* may come at any moment of any worker.                                   *)
(***************************************************************************)
EXTENDS Integers, FiniteSets

CONSTANTS
    Configured,  \* cfg.NNTP.Connections, as the operator set it
    Workers,     \* goroutines that may call the client at the same time
    Conns,       \* names for connections, reused after a close
    None         \* no connection

\* NewClient: the capacity of sema and idle.
Capacity == IF Configured <= 0 THEN 4 ELSE Configured

\* Go's integer division truncates towards zero.
Half(n) == IF n >= 0 THEN n \div 2 ELSE -((-n) \div 2)

\* main passes Connections/2+1 to NewWorker, which replaces what is not positive.
Concurrency == IF Half(Configured) + 1 <= 0 THEN 2 ELSE Half(Configured) + 1

ASSUME ConfiguredAssumption == Configured \in Int
ASSUME WorkersAssumption == IsFiniteSet(Workers) /\ Cardinality(Workers) <= Concurrency
ASSUME ConnsAssumption == None \notin Conns

VARIABLES
    idle,   \* connections in Client.idle
    sema,   \* number of tokens in Client.sema
    pc,     \* where each worker is in acquire, the operation and release
    owns,   \* the connection a worker uses
    dead,   \* connections whose dead flag is set
    client  \* "open"; "closing" since close(c.sema); "closed" when Close has
            \* returned; "gone" with the process

vars == <<idle, sema, pc, owns, dead, client>>

\* A worker in one of these places has a token of sema of its own.
Holders == {w \in Workers : pc[w] \in {"dial", "use", "keep", "close"}}
Active  == {w \in Workers : pc[w] # "out"}
Open    == (idle \cup {owns[w] : w \in Workers}) \ {None}

Init ==
    /\ idle = {}
    /\ sema = 0
    /\ pc = [w \in Workers |-> "out"]
    /\ owns = [w \in Workers |-> None]
    /\ dead = {}
    /\ client = "open"

Goto(w, from, to) ==
    /\ client # "gone"
    /\ pc[w] = from
    /\ pc' = [pc EXCEPT ![w] = to]

\* <-c.sema waits for a token, but on a closed channel it never waits.
ReceiveToken ==
    /\ client = "open" => sema > 0
    /\ sema' = IF sema > 0 THEN sema - 1 ELSE sema

-----------------------------------------------------------------------------
(***************************************************************************)
(* acquire: the first select never blocks.                                 *)
(***************************************************************************)

\* Mutant: the pool hands out an idle connection and keeps it.
TakeIdlePeeks(w) ==
    /\ Goto(w, "out", "use")
    /\ \E c \in idle : owns' = [owns EXCEPT ![w] = c]
    /\ UNCHANGED <<idle, sema, dead, client>>

\* An idle connection that is dead is closed, its token freed, and the worker
\* goes on to dial; otherwise the worker owns it.
TakeIdle(w) ==
    /\ \E c \in idle :
          /\ idle' = idle \ {c}
          /\ Goto(w, "out", IF c \in dead THEN "wait" ELSE "use")
          /\ owns' = IF c \in dead THEN owns ELSE [owns EXCEPT ![w] = c]
          /\ IF c \in dead THEN ReceiveToken ELSE UNCHANGED sema
    /\ UNCHANGED <<dead, client>>

\* Mutant: the first select is left out.
NoIdleSkipped(w) ==
    /\ Goto(w, "out", "wait")
    /\ UNCHANGED <<idle, sema, owns, dead, client>>

NoIdle(w) ==
    /\ idle = {}
    /\ Goto(w, "out", "wait")
    /\ UNCHANGED <<idle, sema, owns, dead, client>>

\* The second select: a token, or the end of the caller's context.
TakeToken(w) ==
    /\ client = "open"
    /\ Goto(w, "wait", "dial")
    /\ sema < Capacity
    /\ sema' = sema + 1
    /\ UNCHANGED <<idle, owns, dead, client>>

ContextDone(w) ==
    /\ Goto(w, "wait", "out")
    /\ UNCHANGED <<idle, sema, owns, dead, client>>

\* A send on the closed channel panics, also one that waited when it was closed,
\* and with it goes the process.
TokenPanics(w) ==
    /\ client \in {"closing", "closed"}
    /\ pc[w] = "wait"
    /\ client' = "gone"
    /\ UNCHANGED <<idle, sema, pc, owns, dead>>

\* Mutant: the error path keeps the token.
DialFailsLeaks(w) ==
    /\ Goto(w, "dial", "out")
    /\ UNCHANGED <<idle, sema, owns, dead, client>>

DialFails(w) ==
    /\ Goto(w, "dial", "out")
    /\ ReceiveToken
    /\ UNCHANGED <<idle, owns, dead, client>>

Dial(w) ==
    /\ Goto(w, "dial", "use")
    /\ \E c \in Conns \ Open : owns' = [owns EXCEPT ![w] = c]
    /\ UNCHANGED <<idle, sema, dead, client>>

-----------------------------------------------------------------------------
(***************************************************************************)
(* PostArticle and FetchBody, and the deferred release(cn, keep).          *)
(***************************************************************************)

\* Mutant: a broken connection goes back to the pool.
OperateKeepsBroken(w) ==
    /\ \/ Goto(w, "use", "keep")  /\ UNCHANGED dead
       \/ Goto(w, "use", "close") /\ UNCHANGED dead
       \/ Goto(w, "use", "keep") /\ dead' = dead \cup {owns[w]}
    /\ UNCHANGED <<idle, sema, owns, client>>

\* keep is true, or the provider refused (an error without an I/O failure),
\* or the connection broke and its dead flag is set.
Operate(w) ==
    /\ \/ Goto(w, "use", "keep")  /\ UNCHANGED dead
       \/ Goto(w, "use", "close") /\ UNCHANGED dead
       \/ Goto(w, "use", "close") /\ dead' = dead \cup {owns[w]}
    /\ UNCHANGED <<idle, sema, owns, client>>

\* Back to idle when there is room, and closed with its token freed otherwise.
ReleaseKeep(w) ==
    /\ Goto(w, "keep", "out")
    /\ IF Cardinality(idle) < Capacity
         THEN idle' = idle \cup {owns[w]} /\ UNCHANGED sema
         ELSE ReceiveToken /\ UNCHANGED idle
    /\ owns' = [owns EXCEPT ![w] = None]
    /\ UNCHANGED <<dead, client>>

ReleaseClose(w) ==
    /\ Goto(w, "close", "out")
    /\ ReceiveToken
    /\ owns' = [owns EXCEPT ![w] = None]
    /\ dead' = dead \ {owns[w]}
    /\ UNCHANGED <<idle, client>>

\* main's deferred Close: close(c.sema), whoever is where in acquire or release.
Close ==
    /\ client = "open"
    /\ client' = "closing"
    /\ UNCHANGED <<idle, sema, pc, owns, dead>>

\* Its loop closes the idle connections one by one, and takes no token back.
CloseIdle ==
    /\ client = "closing"
    /\ \/ /\ \E c \in idle : idle' = idle \ {c}
          /\ UNCHANGED client
       \/ /\ idle = {}
          /\ client' = "closed"
          /\ UNCHANGED idle
    /\ UNCHANGED <<sema, pc, owns, dead>>

\* main returns, which ends every worker where it is.
Exit ==
    /\ client = "closed"
    /\ client' = "gone"
    /\ UNCHANGED <<idle, sema, pc, owns, dead>>

-----------------------------------------------------------------------------
Acquire(w) == \/ TakeIdle(w)
              \/ NoIdle(w)
              \/ TakeToken(w)
              \/ TokenPanics(w)
              \/ ContextDone(w)
              \/ Dial(w)
              \/ DialFails(w)

Release(w) == ReleaseKeep(w) \/ ReleaseClose(w)

Next == \/ \E w \in Workers : Acquire(w) \/ Operate(w) \/ Release(w)
        \/ Close
        \/ CloseIdle
        \/ Exit

Spec == Init /\ [][Next]_vars

(***************************************************************************)
(* A waiting goroutine is scheduled, a dial and an operation return (they  *)
(* have no deadline of their own: that they return is the provider's part).*)
(* Nothing makes main close the client.                                    *)
(***************************************************************************)
Fairness == \A w \in Workers : /\ WF_vars(TakeToken(w) \/ TokenPanics(w))
                               /\ WF_vars(Dial(w) \/ DialFails(w))
                               /\ WF_vars(Operate(w))
                               /\ WF_vars(Release(w))

FairSpec == Spec /\ Fairness

-----------------------------------------------------------------------------
\* Every token of sema stands for one connection, idle, in use or being opened
\* or closed: no error path leaks a token, so the pool cannot shrink for ever.
\* Close keeps the tokens of those it drains, so none is missing after it.
TokensMatch ==
    /\ sema >= Cardinality(idle) + Cardinality(Holders)
    /\ client = "open" => sema = Cardinality(idle) + Cardinality(Holders)

\* A connection serves one worker at a time, so two jobs never interleave their
\* commands on one socket.
Exclusive ==
    /\ \A w \in Workers : owns[w] # None <=> pc[w] \in {"use", "keep", "close"}
    /\ \A w \in Workers : owns[w] \notin idle
    /\ \A v, w \in Workers : v # w /\ owns[v] # None => owns[v] # owns[w]

\* What waits in the pool is not known to be broken: acquire's check of
\* isAlive never finds a dead connection, and release never meets a full channel.
IdleUsable == idle \cap dead = {} /\ (Holders # {} => Cardinality(idle) < Capacity)

\* "acquire blocks until a connection is available" (client.go) never comes to
\* blocking: acquire looks at idle only once, so a worker that waited for a
\* token could starve beside idle connections; with the concurrency main passes
\* there is a token for every worker that waits, as long as the client is open.
NeverWaits ==
    client = "open" => \A w \in Workers : pc[w] = "wait" => sema < Capacity

\* An operation that was begun ends, closed client or not, unless the process
\* does.
OperationEnds ==
    \A w \in Workers : pc[w] # "out" ~> pc[w] = "out" \/ client = "gone"

\* Idle connections and busy workers together are at most the workers: an idle
\* connection was left by a worker, and one that finds it takes it.
WorkersCover == Cardinality(idle) + Cardinality(Active) <= Cardinality(Workers)

(***************************************************************************)
(* The inductive invariant.  The bound on sema follows from it: tokens are *)
(* counted by connections, and connections by workers.                     *)
(***************************************************************************)
PoolTypes ==
    /\ idle \subseteq Conns
    /\ sema \in Int
    /\ pc \in [Workers -> {"out", "wait", "dial", "use", "keep", "close"}]
    /\ owns \in [Workers -> Conns \cup {None}]
    /\ dead \subseteq Conns
    /\ client \in {"open", "closing", "closed", "gone"}

Ownership ==
    /\ Exclusive
    /\ idle \cap dead = {}
    /\ \A w \in Workers : pc[w] \in {"use", "keep"} => owns[w] \notin dead
    /\ dead \subseteq {owns[w] : w \in Workers}

\* What each step of a worker and of Close keeps, whenever Close is called.
IInv == /\ PoolTypes
        /\ Ownership
        /\ IsFiniteSet(idle)
        /\ TokensMatch
        /\ WorkersCover

(***************************************************************************)
(* What the repository says and the code does not do.                      *)
(***************************************************************************)

\* "acquire blocks until a connection is available" (client.go): it returns and
\* does not panic.
AcquireReturns == [][\A w \in Workers : ~TokenPanics(w)]_vars
=============================================================================
