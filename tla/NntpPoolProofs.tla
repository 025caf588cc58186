--------------------------- MODULE NntpPoolProofs ---------------------------
(***************************************************************************)
(* Proofs about NntpPool for every configured number of connections and    *)
(* every set of workers that main can start for it.                        *)
(***************************************************************************)
EXTENDS NntpPool, FiniteSetTheorems, TLAPS

\* main never starts more workers than the pool has connections.
LEMMA WorkersFit == Cardinality(Workers) <= Capacity /\ Cardinality(Workers) \in Nat
<1>1. Cardinality(Workers) \in Nat
  BY WorkersAssumption, FS_CardinalityType
<1>2. Concurrency \in Nat /\ Concurrency <= Capacity
  BY ConfiguredAssumption DEF Concurrency, Capacity, Half
<1>3. Capacity \in Nat
  BY ConfiguredAssumption DEF Capacity
<1> QED BY <1>1, <1>2, <1>3, WorkersAssumption

\* The pool may open at least one connection, whatever is configured.
LEMMA CapacityType == Capacity \in Nat \ {0}
  BY ConfiguredAssumption DEF Capacity

-----------------------------------------------------------------------------
(***************************************************************************)
(* Counting.                                                               *)
(***************************************************************************)
LEMMA AddOne ==
    ASSUME NEW S, IsFiniteSet(S), NEW x, x \notin S
    PROVE  /\ IsFiniteSet(S \cup {x})
           /\ Cardinality(S \cup {x}) = Cardinality(S) + 1
           /\ Cardinality(S) \in Nat
  BY FS_AddElement, FS_CardinalityType

\* A finite set without one of its elements has one element less.
LEMMA DropOne ==
    ASSUME NEW S, IsFiniteSet(S), NEW x, x \in S
    PROVE  /\ IsFiniteSet(S \ {x})
           /\ Cardinality(S \ {x}) = Cardinality(S) - 1
           /\ Cardinality(S) \in Nat
  BY FS_RemoveElement, FS_CardinalityType

\* Workers that are active or hold a token can be counted, and holders are active.
LEMMA WorkerSets ==
    /\ IsFiniteSet(Active) /\ Cardinality(Active) \in Nat
    /\ IsFiniteSet(Holders) /\ Cardinality(Holders) \in Nat
    /\ Holders \subseteq Active
    /\ Cardinality(Holders) <= Cardinality(Active)
<1>1. Active \subseteq Workers /\ Holders \subseteq Active
  BY DEF Active, Holders
<1>2. IsFiniteSet(Active)
  BY <1>1, WorkersAssumption, FS_Subset
<1>3. IsFiniteSet(Holders) /\ Cardinality(Holders) <= Cardinality(Active)
  BY <1>1, <1>2, FS_Subset
<1> QED BY <1>1, <1>2, <1>3, FS_CardinalityType

\* A worker that waits has a token free for it.
LEMMA RoomForWaiter ==
    ASSUME IInv, client = "open", NEW w \in Workers, pc[w] \in {"wait"}
    PROVE  sema < Capacity
<1>1. w \in Active /\ w \notin Holders /\ Holders \subseteq Active
  BY DEF Active, Holders
<1>2. Holders \subseteq Active \ {w}
  BY <1>1
<1>3. /\ IsFiniteSet(Active \ {w})
      /\ Cardinality(Active \ {w}) = Cardinality(Active) - 1
  BY <1>1, WorkerSets, DropOne
<1>4. Cardinality(Holders) <= Cardinality(Active) - 1
  BY <1>2, <1>3, FS_Subset
<1>5. Cardinality(idle) \in Nat
  BY FS_CardinalityType DEF IInv
<1> QED BY <1>4, <1>5, WorkerSets, WorkersFit, CapacityType
        DEF IInv, TokensMatch, WorkersCover

\* A worker with a token leaves room in the idle channel, and finds a token to
\* take back.
LEMMA RoomToRelease ==
    ASSUME IInv, NEW w \in Workers, w \in Holders
    PROVE  Cardinality(idle) < Capacity /\ sema > 0
<1>1. w \in Active
  BY DEF Active, Holders
<1>a. /\ IsFiniteSet(Active \ {w})
      /\ Cardinality(Active \ {w}) = Cardinality(Active) - 1
  BY <1>1, WorkerSets, DropOne
<1>b. Cardinality(Active \ {w}) \in Nat
  BY <1>a, FS_CardinalityType
<1>2. Cardinality(Active) >= 1
  BY <1>a, <1>b, WorkerSets
<1>3. Cardinality(idle) \in Nat
  BY FS_CardinalityType DEF IInv
<1>4. Cardinality(Holders) > 0
  <2>1. Cardinality(Holders) = Cardinality(Holders \ {w}) + 1
        /\ IsFiniteSet(Holders \ {w})
    BY WorkerSets, DropOne
  <2> QED BY <2>1, WorkerSets, FS_CardinalityType
<1>5. sema >= Cardinality(idle) + Cardinality(Holders) /\ sema \in Int
  BY DEF IInv, TokensMatch, PoolTypes
<1>6. sema > 0
  BY <1>3, <1>4, <1>5, WorkerSets
<1> QED BY <1>2, <1>3, <1>6, WorkerSets, WorkersFit, CapacityType DEF IInv, WorkersCover

\* A worker that gives its token back finds it, whether or not sema is closed.
LEMMA TokenBack ==
    ASSUME IInv, NEW w \in Workers, w \in Holders, ReceiveToken
    PROVE  sema' = sema - 1
  BY RoomToRelease DEF ReceiveToken

-----------------------------------------------------------------------------
(***************************************************************************)
(* Every step keeps the invariant.                                         *)
(***************************************************************************)
LEMMA IInvInit == Init => IInv
<1> SUFFICES ASSUME Init
             PROVE  IInv
  OBVIOUS
<1>1. Active = {} /\ Holders = {}
  BY DEF Init, Active, Holders
<1>2. IsFiniteSet(idle) /\ Cardinality(idle) = 0 /\ Cardinality(Active) = 0
      /\ Cardinality(Holders) = 0
  BY <1>1, FS_EmptySet DEF Init
<1>a. PoolTypes
  BY DEF Init, PoolTypes
<1>3. Ownership
  BY DEF Init, Ownership, Exclusive
<1>4. TokensMatch /\ WorkersCover
  BY <1>2, WorkersFit DEF Init, TokensMatch, WorkersCover
<1> QED BY <1>2, <1>a, <1>3, <1>4 DEF IInv

\* Who owns what, step by step.
LEMMA OwnershipNext ==
    ASSUME IInv, NEW w \in Workers, Acquire(w) \/ Operate(w) \/ Release(w)
    PROVE  PoolTypes' /\ Ownership'
<1> USE ConnsAssumption DEF IInv, PoolTypes, Ownership, Exclusive, Goto
<1>1. CASE TakeIdle(w)
  BY <1>1 DEF TakeIdle
<1>2. CASE NoIdle(w)
  BY <1>2 DEF NoIdle
<1>3. CASE TakeToken(w)
  BY <1>3 DEF TakeToken
<1>4. CASE ContextDone(w)
  BY <1>4 DEF ContextDone
<1>5. CASE Dial(w)
  BY <1>5 DEF Dial, Open
<1>6. CASE DialFails(w)
  BY <1>6 DEF DialFails, ReceiveToken
<1>a. CASE TokenPanics(w)
  BY <1>a DEF TokenPanics
<1>7. CASE Operate(w)
  <2>1. CASE UNCHANGED dead
    BY <1>7, <2>1 DEF Operate
  <2>2. CASE dead' = dead \cup {owns[w]} /\ Goto(w, "use", "close")
    <3>1. UNCHANGED <<idle, sema, owns, client>>
      BY <1>7 DEF Operate
    <3>2. owns[w] \in Conns /\ owns[w] \notin idle
      BY <2>2
    <3>3. \A v \in Workers : v # w /\ pc[v] \in {"use", "keep"} => owns[v] # owns[w]
      OBVIOUS
    <3>4. PoolTypes'
      BY <2>2, <3>1, <3>2
    <3> QED BY <2>2, <3>1, <3>2, <3>3, <3>4
  <2> QED BY <1>7, <2>1, <2>2 DEF Operate
<1>8. CASE ReleaseKeep(w)
  <2>1. /\ idle' \in {idle, idle \cup {owns[w]}}
        /\ sema' \in Int
    BY <1>8 DEF ReleaseKeep, ReceiveToken
  <2>2. /\ pc[w] = "keep" /\ pc' = [pc EXCEPT ![w] = "out"]
        /\ owns' = [owns EXCEPT ![w] = None]
        /\ UNCHANGED <<dead, client>>
    BY <1>8 DEF ReleaseKeep
  <2> QED BY <2>1, <2>2
<1>9. CASE ReleaseClose(w)
  BY <1>9 DEF ReleaseClose, ReceiveToken
<1> QED BY <1>1, <1>2, <1>3, <1>4, <1>5, <1>6, <1>a, <1>7, <1>8, <1>9
        DEF Acquire, Release

\* How each step changes the sets that are counted.
LEMMA SetsNext ==
    ASSUME IInv, NEW w \in Workers, NEW to, pc' = [pc EXCEPT ![w] = to]
    PROVE  /\ Active' = IF to = "out" THEN Active \ {w} ELSE Active \cup {w}
           /\ Holders' = IF to \in {"dial", "use", "keep", "close"}
                           THEN Holders \cup {w} ELSE Holders \ {w}
  BY DEF Active, Holders, IInv, PoolTypes

\* The same, when the worker is or is not yet in the set.
LEMMA SetsStay ==
    ASSUME NEW S, NEW w
    PROVE  (w \in S => S \cup {w} = S) /\ (w \notin S => S \ {w} = S)
  OBVIOUS

\* The steps of a worker keep the counts of tokens and of workers.
LEMMA CountNext ==
    ASSUME IInv, NEW w \in Workers, Acquire(w) \/ Operate(w) \/ Release(w)
    PROVE  IsFiniteSet(idle)' /\ TokensMatch' /\ WorkersCover'
<1> DEFINE i == Cardinality(idle)
           h == Cardinality(Holders)
           a == Cardinality(Active)
<1>a. /\ i \in Nat /\ h \in Nat /\ a \in Nat /\ sema \in Int
      /\ IsFiniteSet(idle) /\ IsFiniteSet(Active) /\ IsFiniteSet(Holders)
      /\ sema >= i + h
      /\ client = "open" => sema = i + h
      /\ i + a <= Cardinality(Workers)
      /\ Cardinality(Workers) \in Nat
  BY WorkerSets, WorkersFit, FS_CardinalityType
     DEF IInv, PoolTypes, TokensMatch, WorkersCover
<1> USE DEF Goto
<1>1. CASE TakeIdle(w)
  <2>1. PICK c \in idle : /\ idle' = idle \ {c}
                          /\ pc[w] = "out" /\ pc' = [pc EXCEPT ![w] = "use"]
                          /\ sema' = sema /\ client' = client
    BY <1>1 DEF TakeIdle, IInv, Ownership
  <2>2. w \notin Active /\ w \notin Holders
    BY <2>1 DEF Active, Holders
  <2>3. Active' = Active \cup {w} /\ Holders' = Holders \cup {w}
    BY <2>1, SetsNext
  <2>4. Cardinality(Active') = a + 1 /\ Cardinality(Holders') = h + 1
    BY <2>2, <2>3, <1>a, AddOne
  <2>5. IsFiniteSet(idle') /\ Cardinality(idle') = i - 1
    BY <2>1, <1>a, DropOne
  <2> QED BY <2>1, <2>4, <2>5, <1>a DEF TokensMatch, WorkersCover
<1>2. CASE NoIdle(w)
  <2>1. /\ idle = {} /\ idle' = idle /\ sema' = sema /\ client' = client
        /\ pc[w] = "out" /\ pc' = [pc EXCEPT ![w] = "wait"]
    BY <1>2 DEF NoIdle
  <2>2. Holders' = Holders
    BY <2>1, SetsNext DEF Holders
  <2>3. Active' \subseteq Workers
    BY DEF Active
  <2>4. Cardinality(Active') <= Cardinality(Workers)
    BY <2>3, WorkersAssumption, FS_Subset
  <2>5. i = 0
    BY <2>1, FS_EmptySet
  <2>6. Cardinality(Active') \in Nat
    BY <2>3, WorkersAssumption, FS_Subset, FS_CardinalityType
  <2> QED BY <2>1, <2>2, <2>4, <2>5, <2>6, <1>a DEF TokensMatch, WorkersCover
<1>3. CASE TakeToken(w)
  <2>1. /\ idle' = idle /\ sema' = sema + 1 /\ client' = client
        /\ pc[w] = "wait" /\ pc' = [pc EXCEPT ![w] = "dial"]
    BY <1>3 DEF TakeToken
  <2>2. w \in Active /\ w \notin Holders
    BY <2>1 DEF Active, Holders
  <2>3. Active' = Active /\ Holders' = Holders \cup {w}
    BY <2>1, <2>2, SetsNext, SetsStay
  <2>4. Cardinality(Holders') = h + 1
    BY <2>2, <2>3, <1>a, AddOne
  <2> QED BY <2>1, <2>3, <2>4, <1>a DEF TokensMatch, WorkersCover
<1>4. CASE ContextDone(w)
  <2>1. /\ idle' = idle /\ sema' = sema /\ client' = client
        /\ pc[w] = "wait" /\ pc' = [pc EXCEPT ![w] = "out"]
    BY <1>4 DEF ContextDone
  <2>2. w \in Active /\ w \notin Holders
    BY <2>1 DEF Active, Holders
  <2>a. Active' = Active \ {w} /\ Holders' = Holders \ {w}
    BY <2>1, SetsNext
  <2>3. Active' = Active \ {w} /\ Holders' = Holders
    BY <2>a, <2>2, SetsStay
  <2>4. Cardinality(Active') = a - 1
    BY <2>2, <2>3, <1>a, DropOne
  <2> QED BY <2>1, <2>3, <2>4, <1>a DEF TokensMatch, WorkersCover
<1>5. CASE Dial(w) \/ Operate(w)
  <2>1. PICK to \in {"use", "keep", "close"} :
           /\ idle' = idle /\ sema' = sema /\ client' = client
           /\ pc[w] \in {"dial", "use"} /\ pc' = [pc EXCEPT ![w] = to]
    BY <1>5 DEF Dial, Operate
  <2>2. w \in Active /\ w \in Holders
    BY <2>1 DEF Active, Holders
  <2>3. Active' = Active /\ Holders' = Holders
    BY <2>1, <2>2, SetsNext, SetsStay
  <2> QED BY <2>1, <2>3, <1>a DEF TokensMatch, WorkersCover
<1>6. CASE DialFails(w) \/ ReleaseClose(w)
  <2>a. /\ idle' = idle /\ ReceiveToken /\ client' = client
        /\ pc[w] \in {"dial", "close"} /\ pc' = [pc EXCEPT ![w] = "out"]
    BY <1>6 DEF DialFails, ReleaseClose
  <2>2. w \in Active /\ w \in Holders
    BY <2>a DEF Active, Holders
  <2>1. /\ idle' = idle /\ sema' = sema - 1 /\ client' = client
        /\ pc' = [pc EXCEPT ![w] = "out"]
    BY <2>a, <2>2, TokenBack
  <2>3. Active' = Active \ {w} /\ Holders' = Holders \ {w}
    BY <2>1, SetsNext
  <2>4. Cardinality(Active') = a - 1 /\ Cardinality(Holders') = h - 1
    BY <2>2, <2>3, <1>a, DropOne
  <2> QED BY <2>1, <2>3, <2>4, <1>a DEF TokensMatch, WorkersCover
<1>7. CASE ReleaseKeep(w)
  <2>a. w \in Active /\ w \in Holders /\ owns[w] \notin idle
    BY <1>7 DEF ReleaseKeep, Active, Holders, IInv, Ownership, Exclusive
  <2>b. i < Capacity
    BY <2>a, RoomToRelease
  <2>1. /\ idle' = idle \cup {owns[w]} /\ sema' = sema /\ client' = client
        /\ pc' = [pc EXCEPT ![w] = "out"]
    BY <1>7, <2>b DEF ReleaseKeep
  <2>3. Active' = Active \ {w} /\ Holders' = Holders \ {w}
    BY <2>1, SetsNext
  <2>4. Cardinality(Active') = a - 1 /\ Cardinality(Holders') = h - 1
    BY <2>a, <2>3, <1>a, DropOne
  <2>5. IsFiniteSet(idle') /\ Cardinality(idle') = i + 1
    BY <2>a, <2>1, <1>a, AddOne
  <2> QED BY <2>1, <2>4, <2>5, <1>a DEF TokensMatch, WorkersCover
<1>8. CASE TokenPanics(w)
  <2>1. UNCHANGED <<idle, sema, pc>> /\ client' = "gone"
    BY <1>8 DEF TokenPanics
  <2>2. Active' = Active /\ Holders' = Holders
    BY <2>1 DEF Active, Holders
  <2> QED BY <2>1, <2>2, <1>a DEF TokensMatch, WorkersCover
<1> QED BY <1>1, <1>2, <1>3, <1>4, <1>5, <1>6, <1>7, <1>8 DEF Acquire, Release

\* Close and what follows it touch no worker: idle may shrink, sema does not.
LEMMA CloseNext ==
    ASSUME IInv, Close \/ CloseIdle \/ Exit
    PROVE  IInv'
<1>1. /\ idle' \subseteq idle
      /\ UNCHANGED <<sema, pc, owns, dead>>
      /\ client' \in {"closing", "closed", "gone"}
  BY DEF Close, CloseIdle, Exit
<1>2. /\ IsFiniteSet(idle') /\ Cardinality(idle') <= Cardinality(idle)
      /\ Cardinality(idle') \in Nat /\ Cardinality(idle) \in Nat
  BY <1>1, FS_Subset, FS_CardinalityType DEF IInv
<1>3. Active' = Active /\ Holders' = Holders
  BY <1>1 DEF Active, Holders
<1>4. PoolTypes' /\ Ownership'
  BY <1>1 DEF IInv, PoolTypes, Ownership, Exclusive
<1>5. sema \in Int /\ sema >= Cardinality(idle) + Cardinality(Holders)
  BY DEF IInv, PoolTypes, TokensMatch
<1>6. TokensMatch'
  BY <1>1, <1>2, <1>3, <1>5, WorkerSets DEF TokensMatch
<1>7. WorkersCover'
  BY <1>2, <1>3, WorkerSets, WorkersFit DEF IInv, WorkersCover
<1> QED BY <1>2, <1>4, <1>6, <1>7 DEF IInv

\* Every step keeps the invariant.
LEMMA IInvNext == IInv /\ [Next]_vars => IInv'
<1> SUFFICES ASSUME IInv, [Next]_vars
             PROVE  IInv'
  OBVIOUS
<1>1. ASSUME NEW w \in Workers, Acquire(w) \/ Operate(w) \/ Release(w)
      PROVE  IInv'
  BY <1>1, OwnershipNext, CountNext DEF IInv
<1>2. CASE Close \/ CloseIdle \/ Exit
  BY <1>2, CloseNext
<1>3. CASE UNCHANGED vars
  BY <1>3 DEF vars, IInv, PoolTypes, Ownership, Exclusive, TokensMatch,
              WorkersCover, Active, Holders
<1> QED BY <1>1, <1>2, <1>3 DEF Next

\* Connections and workers never outgrow the tokens of sema, whenever Close is
\* called and whoever goes on after it.
THEOREM PoolInvariance == Spec => []IInv
  BY IInvInit, IInvNext, PTL DEF Spec

-----------------------------------------------------------------------------
\* A worker that asks an open client for a token finds one: sema never blocks
\* anybody.
THEOREM TokenAtHand == Spec => []NeverWaits
<1>1. IInv => NeverWaits
  BY RoomForWaiter DEF IInv, PoolTypes, NeverWaits
<1> QED BY <1>1, PoolInvariance, PTL

\* No error path of acquire, of an operation or of release leaks a token.
THEOREM NoTokenLeak == Spec => []TokensMatch
<1>1. IInv => TokensMatch
  BY DEF IInv
<1> QED BY <1>1, PoolInvariance, PTL

\* No two workers ever use one connection, nor one that is idle.
THEOREM OneUser == Spec => []Exclusive
<1>1. IInv => Exclusive
  BY DEF IInv, Ownership
<1> QED BY <1>1, PoolInvariance, PTL

\* An idle connection is not dead, and release always finds room.
THEOREM IdleIsUsable == Spec => []IdleUsable
<1>1. IInv => IdleUsable
  BY RoomToRelease DEF IInv, Ownership, IdleUsable, Holders
<1> QED BY <1>1, PoolInvariance, PTL

=============================================================================
