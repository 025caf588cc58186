-------------------------- MODULE VaultUploadProofs --------------------------
(***************************************************************************)
(* Proofs about VaultUpload, for every set of uploads, every number of     *)
(* segments and slots, every set of faults and any number of stops.        *)
(***************************************************************************)
EXTENDS VaultUpload, FiniteSetTheorems, TLAPS

\* The share of posted segments, out of 95, is a percentage (Run's pct).
LEMMA PercentBound ==
    ASSUME NEW n \in Nat, NEW t \in Nat, t > 0, n <= t
    PROVE  Percent(n, t) \in 0 .. 95
<1>1. (95 * n) \div t \in Int /\ (95 * n) \div t >= 0
  OBVIOUS
<1>2. (95 * n) \div t <= 95
  OBVIOUS
<1> QED BY <1>1, <1>2 DEF Percent

\* More segments are no smaller a share.
LEMMA PercentGrows ==
    ASSUME NEW n \in Nat, NEW t \in Nat, t > 0
    PROVE  Percent(n, t) <= Percent(n + 1, t)
<1> DEFINE p == (95 * n) \div t
           q == (95 * (n + 1)) \div t
<1>1. p \in Int /\ q \in Int /\ t * p <= 95 * n /\ 95 * (n + 1) < t * (q + 1)
  OBVIOUS
<1>2. t * p < t * (q + 1)
  BY <1>1
<1>3. p < q + 1
  BY <1>1, <1>2
<1> QED BY <1>1, <1>3 DEF Percent

-----------------------------------------------------------------------------
(***************************************************************************)
(* Type correctness.                                                       *)
(***************************************************************************)
LEMMA TypeInit == Init => TypeOK
  BY PartsAssumption, StopsAssumption
  DEF Init, TypeOK, NoArtifact, NoJob, ArtifactRow, JobRow, Pending, Working

\* The steps of an upload request and of its payment keep the types.
LEMMA TypeRequest ==
    ASSUME TypeOK, NEW u \in Uploads, InitUpload(u) \/ PaymentMoves(u)
    PROVE  TypeOK'
<1> USE DEF TypeOK, rows, disk, outside, pool, process
<1>1. CASE ReceiveFile(u)
  BY <1>1 DEF ReceiveFile
<1>2. CASE CreateInvoice(u)
  BY <1>2 DEF CreateInvoice, RefuseInit
<1>3. CASE InsertArtifactPending(u)
  <2>1. [NoArtifact EXCEPT !.status = "pending_payment"] \in ArtifactRow
    BY DEF NoArtifact, ArtifactRow
  <2> QED BY <1>3, <2>1 DEF InsertArtifactPending, RefuseInit
<1>4. CASE InsertJob(u)
  <2>1. [NoJob EXCEPT !.status = "queued"] \in JobRow
    BY DEF NoJob, JobRow
  <2> QED BY <1>4, <2>1 DEF InsertJob, RefuseInit
<1>5. CASE PaymentMoves(u)
  BY <1>5 DEF PaymentMoves, NextPayStatus, PayStatus
<1> QED BY <1>1, <1>2, <1>3, <1>4, <1>5 DEF InitUpload

\* The UPDATE of MarkPaymentConfirmed keeps the shape of the row.
LEMMA ArtifactRowConfirmed ==
    ASSUME artifact \in [Uploads -> ArtifactRow], NEW u \in Uploads,
           NEW s \in PayStatus
    PROVE  [artifact EXCEPT ![u].status = "uploading", ![u].pay = s]
              \in [Uploads -> ArtifactRow]
<1> DEFINE row == artifact[u]
<1>1. row \in ArtifactRow
  OBVIOUS
<1>2. [row EXCEPT !.status = "uploading", !.pay = s] \in ArtifactRow
  BY <1>1 DEF ArtifactRow
<1>3. [artifact EXCEPT ![u] = [row EXCEPT !.status = "uploading", !.pay = s]]
         \in [Uploads -> ArtifactRow]
  BY <1>2
<1> QED BY <1>3

\* A webhook keeps the types, whatever status it brings.
LEMMA TypeConfirm ==
    ASSUME TypeOK, NEW u \in Uploads, NEW s \in PayStatus, PaymentConfirm(u, s)
    PROVE  TypeOK'
<1> USE DEF TypeOK, rows, disk, outside, pool, process
<1>1. CASE UpdateArtifactPaymentStatus(u, s)
  <2>1. artifact' \in [Uploads -> ArtifactRow]
    BY <1>1 DEF UpdateArtifactPaymentStatus, ArtifactRow
  <2> QED BY <1>1, <2>1 DEF PaymentConfirm, UpdateArtifactPaymentStatus
<1>2. CASE MarkPaymentConfirmed(u, s)
  <2>a. \/ artifact' = artifact
        \/ artifact' = [artifact EXCEPT ![u].status = "uploading", ![u].pay = s]
    BY <1>2 DEF MarkPaymentConfirmed
  <2>b. artifact \in [Uploads -> ArtifactRow]
    OBVIOUS
  <2>c. [artifact EXCEPT ![u].status = "uploading", ![u].pay = s]
           \in [Uploads -> ArtifactRow]
    BY <2>b, ArtifactRowConfirmed, Zenon
  <2>1. artifact' \in [Uploads -> ArtifactRow]
    BY <2>a, <2>b, <2>c, Zenon
  <2>2. pc' \in [Uploads -> Pending \cup Working \cup {"none", "end", "gone"}]
    BY <1>2 DEF MarkPaymentConfirmed, Pending
  <2>3. starts' \in [Uploads -> Nat]
    BY <1>2 DEF MarkPaymentConfirmed
  <2> QED BY <2>1, <2>2, <2>3 DEF PaymentConfirm
<1> QED BY <1>1, <1>2 DEF PaymentConfirm

\* The steps from the webhook to the slot keep the types.
LEMMA TypeSubmit ==
    ASSUME TypeOK, NEW u \in Uploads, StartFromPaymentConfirm(u)
    PROVE  TypeOK'
<1> USE DEF TypeOK, Goto, Pending, Working, rows, disk, outside, pool, process
<1>1. CASE Lookup(u)
  BY <1>1 DEF Lookup
<1>2. CASE TakeSlot(u)
  BY <1>2 DEF TakeSlot
<1>3. CASE WgAdd(u)
  BY <1>3 DEF WgAdd
<1> QED BY <1>1, <1>2, <1>3 DEF StartFromPaymentConfirm

\* The rows the statements of Run write are rows of their tables.
LEMMA JobRowWritten ==
    ASSUME TypeOK, NEW u \in Uploads
    PROVE  /\ [job EXCEPT ![u] =
                  [status |-> "running", progress |-> 0, ref |-> @.ref]]
                  \in [Uploads -> JobRow]
           /\ [job EXCEPT ![u] =
                  [status |-> "done", progress |-> 100, ref |-> @.ref]]
                  \in [Uploads -> JobRow]
           /\ [job EXCEPT ![u].status = "failed"] \in [Uploads -> JobRow]
           /\ [job EXCEPT ![u].ref = "hash"] \in [Uploads -> JobRow]
<1>1. job \in [Uploads -> JobRow]
  BY DEF TypeOK
<1>2. [status |-> "running", progress |-> 0, ref |-> job[u].ref] \in JobRow
  BY <1>1 DEF JobRow
<1>3. [status |-> "done", progress |-> 100, ref |-> job[u].ref] \in JobRow
  BY <1>1 DEF JobRow
<1>4. [job EXCEPT ![u].status = "failed"] \in [Uploads -> JobRow]
  BY <1>1 DEF JobRow
<1>5. [job EXCEPT ![u].ref = "hash"] \in [Uploads -> JobRow]
  BY <1>1 DEF JobRow
<1> QED BY <1>1, <1>2, <1>3, <1>4, <1>5

\* A job's row with another progress is a job's row.
LEMMA JobRowProgress ==
    ASSUME TypeOK, NEW u \in Uploads, NEW p \in 0 .. 100
    PROVE  [job EXCEPT ![u].progress = p] \in [Uploads -> JobRow]
<1>1. job \in [Uploads -> JobRow]
  BY DEF TypeOK
<1> QED BY <1>1 DEF JobRow

\* A promoted row of an artifact is a row of an artifact.
LEMMA ArtifactRowPromoted ==
    ASSUME TypeOK, NEW u \in Uploads
    PROVE  [artifact EXCEPT ![u].id = "hash", ![u].status = "ready"]
               \in [Uploads -> ArtifactRow]
<1>1. artifact \in [Uploads -> ArtifactRow]
  BY DEF TypeOK
<1>2. [artifact[u] EXCEPT !.id = "hash", !.status = "ready"] \in ArtifactRow
  BY <1>1 DEF ArtifactRow
<1> QED BY <1>1, <1>2

\* What Run writes to the job row is a job row, written or lost.
LEMMA TypeJobWrite ==
    ASSUME TypeOK, NEW u \in Uploads, NEW row \in [Uploads -> JobRow], JobWrite(row)
    PROVE  job' \in [Uploads -> JobRow]
  BY DEF TypeOK, JobWrite

\* The steps of the goroutine keep the types.
LEMMA TypeRun ==
    ASSUME TypeOK, NEW u \in Uploads, Run(u)
    PROVE  TypeOK'
<1> USE DEF Goto, Pending, Working, rows, disk, outside, pool, process
<1>1. CASE Start(u)
  <2>1. [job EXCEPT ![u] =
           [status |-> "running", progress |-> 0, ref |-> @.ref]] \in [Uploads -> JobRow]
    BY JobRowWritten
  <2>2. job' \in [Uploads -> JobRow]
    BY <1>1, <2>1, TypeJobWrite DEF Start
  <2> QED BY <1>1, <2>2 DEF Start, TypeOK
<1>2. CASE ReadTmp(u)
  <2>a. posted' = [posted EXCEPT ![u] = 0]
    BY <1>2 DEF ReadTmp
  <2>b. posted' \in [Uploads -> Nat]
    BY <2>a DEF TypeOK
  <2>c. /\ posted \in [Uploads -> Nat]
        /\ Parts \in [Uploads -> Nat]
        /\ \A v \in Uploads : posted[v] <= Parts[v]
    BY PartsAssumption DEF TypeOK
  <2>1. \A v \in Uploads : posted'[v] <= Parts[v]
    BY <2>a, <2>c
  <2>2. pc' \in [Uploads -> Pending \cup Working \cup {"none", "end", "gone"}]
    BY <1>2 DEF ReadTmp, TypeOK
  <2> QED BY <1>2, <2>b, <2>1, <2>2 DEF ReadTmp, TypeOK
<1>3. CASE PostPart(u)
  <2>a. posted[u] \in Nat /\ posted[u] <= Parts[u] /\ Parts[u] \in Nat
    BY PartsAssumption DEF TypeOK
  <2>b. posted[u] # Parts[u]
    BY <1>3 DEF PostPart, AllPosted
  <2>1. posted[u] + 1 \in Nat /\ posted[u] + 1 <= Parts[u] /\ Parts[u] > 0
    BY <2>a, <2>b
  <2>d. Percent(posted[u] + 1, Parts[u]) \in 0 .. 95
    BY <2>a, <2>1, PercentBound
  <2>2. Percent(posted[u] + 1, Parts[u]) \in 0 .. 100
    BY <2>d
  <2>3. [job EXCEPT ![u].progress = Percent(posted[u] + 1, Parts[u])]
           \in [Uploads -> JobRow]
    BY <2>2, JobRowProgress
  <2>4. job' \in [Uploads -> JobRow]
    BY <1>3, <2>3, TypeJobWrite DEF PostPart
  <2>c. posted' = [posted EXCEPT ![u] = @ + 1]
    BY <1>3 DEF PostPart
  <2>5. posted' \in [Uploads -> Nat]
    BY <2>c DEF TypeOK
  <2>6. \A v \in Uploads : posted'[v] <= Parts[v]
    BY <2>1, <2>c DEF TypeOK
  <2> QED BY <1>3, <2>4, <2>5, <2>6 DEF PostPart, TypeOK
<1>4. CASE PostFails(u)
  BY <1>4 DEF PostFails, TypeOK
<1>5. CASE EndOfParts(u)
  BY <1>5 DEF EndOfParts, TypeOK
<1>6. CASE WriteNZB(u)
  BY <1>6 DEF WriteNZB, TypeOK
<1>7. CASE PromoteArtifactToReady(u)
  <2>a. \/ /\ artifact' = [artifact EXCEPT ![u].id = "hash", ![u].status = "ready"]
           /\ job' = [job EXCEPT ![u].ref = "hash"]
        \/ UNCHANGED <<artifact, job>>
    BY <1>7 DEF PromoteArtifactToReady
  <2>b. artifact \in [Uploads -> ArtifactRow] /\ job \in [Uploads -> JobRow]
    BY DEF TypeOK
  <2>1. artifact' \in [Uploads -> ArtifactRow]
    BY <2>a, <2>b, ArtifactRowPromoted
  <2>c. [job EXCEPT ![u].ref = "hash"] \in [Uploads -> JobRow]
    BY JobRowWritten
  <2>2. job' \in [Uploads -> JobRow]
    BY <2>a, <2>b, <2>c
  <2> QED BY <1>7, <2>1, <2>2 DEF PromoteArtifactToReady, TypeOK
<1>8. CASE RemoveTmp(u)
  BY <1>8 DEF RemoveTmp, TypeOK
<1>9. CASE Done(u)
  <2>1. [job EXCEPT ![u] =
           [status |-> "done", progress |-> 100, ref |-> @.ref]] \in [Uploads -> JobRow]
    BY JobRowWritten
  <2>2. job' \in [Uploads -> JobRow]
    BY <1>9, <2>1, TypeJobWrite DEF Done
  <2> QED BY <1>9, <2>2 DEF Done, TypeOK
<1>10. CASE UpdateJobArtifactID(u)
  <2>1. [job EXCEPT ![u].ref = "hash"] \in [Uploads -> JobRow]
    BY JobRowWritten
  <2>2. job' \in [Uploads -> JobRow]
    BY <1>10, <2>1, TypeJobWrite DEF UpdateJobArtifactID
  <2> QED BY <1>10, <2>2 DEF UpdateJobArtifactID, TypeOK
<1>11. CASE MarkJobFailed(u)
  <2>1. [job EXCEPT ![u].status = "failed"] \in [Uploads -> JobRow]
    BY JobRowWritten
  <2>2. job' \in [Uploads -> JobRow]
    BY <1>11, <2>1, TypeJobWrite DEF MarkJobFailed
  <2> QED BY <1>11, <2>2 DEF MarkJobFailed, TypeOK
<1>12. CASE ReleaseSlot(u)
  BY <1>12 DEF ReleaseSlot, TypeOK
<1>13. CASE WgDone(u)
  BY <1>13 DEF WgDone, TypeOK
<1> QED BY <1>1, <1>2, <1>3, <1>4, <1>5, <1>6, <1>7, <1>8, <1>9, <1>10, <1>11,
           <1>12, <1>13 DEF Run

\* What ends the process or stops it step by step: Process and ClientPanics.
ProcessStep == Process \/ \E u \in Uploads : ClientPanics(u)

\* A crash, a panic, a shutdown and an exit keep the types.
LEMMA TypeProcess ==
    ASSUME TypeOK, ProcessStep
    PROVE  TypeOK'
<1> USE StopsAssumption, PartsAssumption
    DEF TypeOK, rows, disk, outside, pool
<1>1. CASE Crash
  BY <1>1 DEF Crash, LoseGoroutines
<1>2. CASE Shutdown
  BY <1>2 DEF Shutdown
<1>3. CASE ShutdownReturns
  BY <1>3 DEF ShutdownReturns
<1>4. CASE Exit
  BY <1>4 DEF Exit, LoseGoroutines
<1>5. CASE Restart
  BY <1>5 DEF Restart
<1>6. CASE Panic
  BY <1>6 DEF Panic, LoseGoroutines
<1>7. CASE WaitReturns \/ CloseDB
  BY <1>7 DEF WaitReturns, CloseDB
<1> QED BY <1>1, <1>2, <1>3, <1>4, <1>5, <1>6, <1>7
        DEF ProcessStep, Process, WaitPanics, ClientPanics

\* Every step keeps the types.
LEMMA TypeNext == TypeOK /\ [Next]_vars => TypeOK'
<1> SUFFICES ASSUME TypeOK, [Next]_vars
             PROVE  TypeOK'
  OBVIOUS
<1>1. CASE UNCHANGED vars
  BY <1>1 DEF vars, TypeOK
<1>2. CASE Next
  BY <1>2, TypeRequest, TypeConfirm, TypeSubmit, TypeRun, TypeProcess
     DEF Next, ProcessStep
<1> QED BY <1>1, <1>2

\* Every row, file and goroutine stays in a state the code can name.
THEOREM Typing == Spec => []TypeOK
  BY TypeInit, TypeNext, PTL DEF Spec

-----------------------------------------------------------------------------
(***************************************************************************)
(* The inductive invariant.  A step of one upload keeps UploadInv for it,  *)
(* and touches nothing of the others.                                      *)
(***************************************************************************)
Untouched(v) == /\ artifact'[v] = artifact[v]
                /\ job'[v] = job[v]
                /\ v \in tmp' <=> v \in tmp
                /\ nzb'[v] = nzb[v]
                /\ announced'[v] = announced[v]
                /\ handler'[v] = handler[v]
                /\ pc'[v] = pc[v]
                /\ posted'[v] = posted[v]
                /\ starts'[v] = starts[v]

\* An upload nobody touches keeps its part of the invariant.
LEMMA UntouchedKeeps ==
    ASSUME NEW v \in Uploads, UploadInv(v), Untouched(v)
    PROVE  UploadInv(v)'
  BY DEF Untouched, UploadInv, HandlerInv, StartInv, PhaseInv, FileInv, SegmentInv, ProgressInv

\* A request and its payment touch no other upload,
LEMMA OthersRequest ==
    ASSUME TypeOK, NEW u \in Uploads, InitUpload(u) \/ PaymentMoves(u),
           NEW v \in Uploads \ {u}
    PROVE  Untouched(v)
<1> USE DEF Untouched, TypeOK, rows, disk, outside, pool, process
<1>1. CASE ReceiveFile(u)
  BY <1>1 DEF ReceiveFile
<1>2. CASE CreateInvoice(u)
  BY <1>2 DEF CreateInvoice, RefuseInit
<1>3. CASE InsertArtifactPending(u)
  BY <1>3 DEF InsertArtifactPending, RefuseInit, NoArtifact
<1>4. CASE InsertJob(u)
  BY <1>4 DEF InsertJob, RefuseInit, NoJob
<1>5. CASE PaymentMoves(u)
  BY <1>5 DEF PaymentMoves
<1> QED BY <1>1, <1>2, <1>3, <1>4, <1>5 DEF InitUpload

\* keep the invariant of their own,
LEMMA UploadRequest ==
    ASSUME TypeOK, NEW u \in Uploads, UploadInv(u),
           InitUpload(u) \/ PaymentMoves(u)
    PROVE  UploadInv(u)'
<1> USE DEF UploadInv, HandlerInv, StartInv, PhaseInv, FileInv, SegmentInv, ProgressInv,
            TypeOK, ArtifactRow, JobRow, Pending, Working,
            rows, disk, outside, pool, process
<1>1. CASE ReceiveFile(u)
  BY <1>1 DEF ReceiveFile
<1>2. CASE CreateInvoice(u)
  BY <1>2 DEF CreateInvoice, RefuseInit
<1>3. CASE InsertArtifactPending(u)
  BY <1>3 DEF InsertArtifactPending, RefuseInit, NoArtifact
<1>4. CASE InsertJob(u)
  BY <1>4 DEF InsertJob, RefuseInit, NoJob
<1>5. CASE PaymentMoves(u)
  BY <1>5 DEF PaymentMoves
<1> QED BY <1>1, <1>2, <1>3, <1>4, <1>5 DEF InitUpload

\* and leave the slots alone.
LEMMA SlotsRequest ==
    ASSUME TypeOK, SlotsConserved, IsFiniteSet(sem), NEW u \in Uploads,
           InitUpload(u) \/ PaymentMoves(u)
    PROVE  SlotsConserved' /\ IsFiniteSet(sem)'
<1> USE DEF SlotsConserved, HoldsSlot, Pending, Working, TypeOK, pool
<1>1. CASE ReceiveFile(u)
  BY <1>1 DEF ReceiveFile
<1>2. CASE CreateInvoice(u)
  BY <1>2 DEF CreateInvoice
<1>3. CASE InsertArtifactPending(u)
  BY <1>3 DEF InsertArtifactPending
<1>4. CASE InsertJob(u)
  BY <1>4 DEF InsertJob
<1>5. CASE PaymentMoves(u)
  BY <1>5 DEF PaymentMoves
<1> QED BY <1>1, <1>2, <1>3, <1>4, <1>5 DEF InitUpload

\* The way from the webhook to the slot touches no other upload,
LEMMA OthersSubmit ==
    ASSUME TypeOK, NEW u \in Uploads, StartFromPaymentConfirm(u),
           NEW v \in Uploads \ {u}
    PROVE  Untouched(v)
<1> USE DEF Untouched, TypeOK, Goto, rows, disk, outside, pool, process
<1>1. CASE Lookup(u)
  BY <1>1 DEF Lookup
<1>2. CASE TakeSlot(u)
  BY <1>2 DEF TakeSlot
<1>3. CASE WgAdd(u)
  BY <1>3 DEF WgAdd
<1> QED BY <1>1, <1>2, <1>3 DEF StartFromPaymentConfirm

\* keeps the invariant of its own,
LEMMA UploadSubmit ==
    ASSUME TypeOK, NEW u \in Uploads, UploadInv(u),
           StartFromPaymentConfirm(u)
    PROVE  UploadInv(u)'
<1> USE DEF UploadInv, HandlerInv, StartInv, PhaseInv, FileInv, SegmentInv, ProgressInv,
            TypeOK, ArtifactRow, JobRow, Pending, Working, Goto,
            rows, disk, outside, pool, process
<1>1. CASE Lookup(u)
  BY <1>1 DEF Lookup
<1>2. CASE TakeSlot(u)
  BY <1>2 DEF TakeSlot
<1>3. CASE WgAdd(u)
  BY <1>3 DEF WgAdd
<1> QED BY <1>1, <1>2, <1>3 DEF StartFromPaymentConfirm

\* and takes a slot only when one is free.
LEMMA SlotsSubmit ==
    ASSUME TypeOK, SlotsConserved, IsFiniteSet(sem), NEW u \in Uploads,
           StartFromPaymentConfirm(u)
    PROVE  SlotsConserved' /\ IsFiniteSet(sem)'
<1> USE DEF SlotsConserved, HoldsSlot, Pending, Working, TypeOK, Goto, pool
<1>1. CASE Lookup(u)
  BY <1>1 DEF Lookup
<1>2. CASE TakeSlot(u)
  <2>1. /\ sem' = {v \in Uploads : pc'[v] \in HoldsSlot}
        /\ wg'  = {v \in Uploads : pc'[v] \in Working}
    BY <1>2 DEF TakeSlot
  <2>2. IsFiniteSet(sem) /\ sem' = sem \cup {u} /\ Cardinality(sem) < Slots
    BY <1>2 DEF TakeSlot, SlotFree
  <2>3. Cardinality(sem) \in Nat /\ IsFiniteSet(sem')
    BY <2>2, FS_CardinalityType, FS_AddElement
  <2>a. Cardinality(sem \cup {u}) =
            IF u \in sem THEN Cardinality(sem) ELSE Cardinality(sem) + 1
    BY <2>2, FS_AddElement
  <2>4. Cardinality(sem') <= Cardinality(sem) + 1
    BY <2>2, <2>3, <2>a
  <2>5. Cardinality(sem') \in Nat
    BY <2>3, FS_CardinalityType
  <2>6. Cardinality(sem') <= Slots
    BY <2>2, <2>3, <2>4, <2>5, SlotsAssumption
  <2> QED BY <2>1, <2>3, <2>6
<1>3. CASE WgAdd(u)
  BY <1>3 DEF WgAdd
<1> QED BY <1>1, <1>2, <1>3 DEF StartFromPaymentConfirm

\* The goroutine touches no other upload,
LEMMA OthersRun ==
    ASSUME TypeOK, NEW u \in Uploads, Run(u),
           NEW v \in Uploads \ {u}
    PROVE  Untouched(v)
<1> USE DEF Untouched, TypeOK, Goto, rows, disk, outside, pool, process
<1>1. CASE Start(u)
  BY <1>1 DEF Start, JobWrite
<1>2. CASE ReadTmp(u)
  BY <1>2 DEF ReadTmp
<1>3. CASE PostPart(u)
  BY <1>3 DEF PostPart, JobWrite
<1>4. CASE PostFails(u)
  BY <1>4 DEF PostFails
<1>5. CASE EndOfParts(u)
  BY <1>5 DEF EndOfParts
<1>6. CASE WriteNZB(u)
  BY <1>6 DEF WriteNZB
<1>7. CASE PromoteArtifactToReady(u)
  BY <1>7 DEF PromoteArtifactToReady
<1>8. CASE RemoveTmp(u)
  BY <1>8 DEF RemoveTmp
<1>9. CASE Done(u)
  BY <1>9 DEF Done, JobWrite
<1>10. CASE UpdateJobArtifactID(u)
  BY <1>10 DEF UpdateJobArtifactID, JobWrite
<1>11. CASE MarkJobFailed(u)
  BY <1>11 DEF MarkJobFailed, JobWrite
<1>12. CASE ReleaseSlot(u)
  BY <1>12 DEF ReleaseSlot
<1>13. CASE WgDone(u)
  BY <1>13 DEF WgDone
<1> QED BY <1>1, <1>2, <1>3, <1>4, <1>5, <1>6, <1>7, <1>8, <1>9, <1>10,
           <1>11, <1>12, <1>13 DEF Run

\* A segment more: the share written, or the one left, is no larger.
LEMMA PostPartGrows ==
    ASSUME TypeOK, NEW u \in Uploads, UploadInv(u), PostPart(u)
    PROVE  /\ posted[u] + 1 \in 0 .. Parts[u]
           /\ Percent(posted[u] + 1, Parts[u]) \in job[u].progress .. 95
           /\ job'[u].progress <= Percent(posted'[u], Parts[u])
<1>1. posted[u] \in Nat /\ posted[u] <= Parts[u] /\ Parts[u] \in Nat
  BY PartsAssumption DEF TypeOK
<1>2. posted[u] # Parts[u] /\ pc[u] = "post"
  BY DEF PostPart, AllPosted, Goto
<1>3. posted[u] + 1 \in Nat /\ posted[u] + 1 <= Parts[u] /\ Parts[u] > 0
  BY <1>1, <1>2
<1>4. job[u].progress <= Percent(posted[u], Parts[u])
  BY <1>2 DEF UploadInv, ProgressInv
<1>5. Percent(posted[u], Parts[u]) \in 0 .. 95
  BY <1>1, <1>3, PercentBound
<1>6. Percent(posted[u] + 1, Parts[u]) \in 0 .. 95
  BY <1>1, <1>3, PercentBound
<1>7. Percent(posted[u], Parts[u]) <= Percent(posted[u] + 1, Parts[u])
  BY <1>1, <1>3, PercentGrows
<1>8. job[u] \in JobRow
  BY DEF TypeOK
<1>9. job[u].progress \in 0 .. 100
  BY <1>8 DEF JobRow
<1>a. \A a, b \in 0 .. 95 : \A p \in 0 .. 100 : p <= a /\ a <= b => b \in p .. 95
  OBVIOUS
<1>10. Percent(posted[u] + 1, Parts[u]) \in job[u].progress .. 95
  BY <1>a, <1>4, <1>5, <1>6, <1>7, <1>9
<1>11. posted'[u] = posted[u] + 1
  BY DEF PostPart, TypeOK
<1>12. job'[u].progress \in {job[u].progress, Percent(posted[u] + 1, Parts[u])}
  <2>1. \/ job' = [job EXCEPT ![u].progress = Percent(posted[u] + 1, Parts[u])]
        \/ job' = job
    BY DEF PostPart, JobWrite
  <2>2. job \in [Uploads -> JobRow]
    BY DEF TypeOK
  <2> QED BY <2>1, <2>2 DEF JobRow
<1>13. \A q \in {job[u].progress, Percent(posted[u] + 1, Parts[u])} :
           q <= Percent(posted[u] + 1, Parts[u])
  BY <1>6, <1>9, <1>10
<1>14. job'[u].progress <= Percent(posted'[u], Parts[u])
  BY <1>11, <1>12, <1>13
<1> QED BY <1>1, <1>3, <1>10, <1>14

\* keeps the invariant of its own, whatever fails,
LEMMA UploadRun ==
    ASSUME TypeOK, NEW u \in Uploads, UploadInv(u),
           Run(u)
    PROVE  UploadInv(u)'
<1> USE DEF UploadInv, HandlerInv, StartInv, PhaseInv, FileInv, SegmentInv, ProgressInv,
            TypeOK, ArtifactRow, JobRow, Pending, Working, Goto,
            rows, disk, outside, pool, process
<1>1. CASE Start(u)
  BY <1>1 DEF Start, JobWrite
<1>2. CASE ReadTmp(u)
  <2>a. Parts[u] \in Nat
    BY PartsAssumption
  <2>1. ASSUME Parts[u] > 0
        PROVE  Percent(0, Parts[u]) \in 0 .. 95
    BY ONLY <2>a, <2>1, PercentBound
  <2>2. posted'[u] = 0 /\ (pc'[u] = "post" => Parts[u] > 0)
    BY <1>2 DEF ReadTmp
  <2>3. pc'[u] = "post" => job'[u].progress <= Percent(posted'[u], Parts[u])
    BY <1>2, <2>1, <2>2 DEF ReadTmp
  <2> QED BY <1>2, <2>3 DEF ReadTmp
<1>3. CASE PostPart(u)
  <2>1. job'[u].progress <= Percent(posted'[u], Parts[u])
    BY <1>3, PostPartGrows
  <2>2. pc'[u] = "post"
    BY <1>3 DEF PostPart
  <2>3. ProgressInv(u)'
    BY <2>1, <2>2
  <2> HIDE DEF ProgressInv
  <2>a. \/ job' = [job EXCEPT ![u].progress = Percent(posted[u] + 1, Parts[u])]
        \/ job' = job
    BY <1>3 DEF PostPart, JobWrite
  <2>b. job \in [Uploads -> JobRow]
    OBVIOUS
  <2>4. /\ job'[u].status = job[u].status
        /\ job'[u].ref = job[u].ref
    BY ONLY <2>a, <2>b, u \in Uploads
  <2>5. HandlerInv(u)' /\ StartInv(u)' /\ PhaseInv(u)' /\ FileInv(u)' /\ SegmentInv(u)'
    BY <1>3, <2>2, <2>4 DEF PostPart
  <2> QED BY <2>3, <2>5
<1>4. CASE PostFails(u)
  BY <1>4 DEF PostFails
<1>5. CASE EndOfParts(u)
  BY <1>5 DEF EndOfParts, AllPosted
<1>6. CASE WriteNZB(u)
  BY <1>6 DEF WriteNZB
<1>7. CASE PromoteArtifactToReady(u)
  BY <1>7 DEF PromoteArtifactToReady, FirstUpdateDangles
<1>8. CASE RemoveTmp(u)
  BY <1>8 DEF RemoveTmp
<1>9. CASE Done(u)
  BY <1>9 DEF Done, JobWrite
<1>10. CASE UpdateJobArtifactID(u)
  BY <1>10 DEF UpdateJobArtifactID, JobWrite
<1>11. CASE MarkJobFailed(u)
  BY <1>11 DEF MarkJobFailed, JobWrite
<1>12. CASE ReleaseSlot(u)
  BY <1>12 DEF ReleaseSlot
<1>13. CASE WgDone(u)
  BY <1>13 DEF WgDone
<1> QED BY <1>1, <1>2, <1>3, <1>4, <1>5, <1>6, <1>7, <1>8, <1>9, <1>10,
           <1>11, <1>12, <1>13 DEF Run

\* and gives its slot and its count back at the end.
LEMMA SlotsRun ==
    ASSUME TypeOK, SlotsConserved, IsFiniteSet(sem), NEW u \in Uploads,
           Run(u)
    PROVE  SlotsConserved' /\ IsFiniteSet(sem)'
<1> USE DEF SlotsConserved, HoldsSlot, Pending, Working, TypeOK, Goto, pool
<1>1. CASE Start(u)
  BY <1>1 DEF Start
<1>2. CASE ReadTmp(u)
  BY <1>2 DEF ReadTmp
<1>3. CASE PostPart(u)
  BY <1>3 DEF PostPart
<1>4. CASE PostFails(u)
  BY <1>4 DEF PostFails
<1>5. CASE EndOfParts(u)
  BY <1>5 DEF EndOfParts
<1>6. CASE WriteNZB(u)
  BY <1>6 DEF WriteNZB
<1>7. CASE PromoteArtifactToReady(u)
  BY <1>7 DEF PromoteArtifactToReady
<1>8. CASE RemoveTmp(u)
  BY <1>8 DEF RemoveTmp
<1>9. CASE Done(u)
  BY <1>9 DEF Done
<1>10. CASE UpdateJobArtifactID(u)
  BY <1>10 DEF UpdateJobArtifactID
<1>11. CASE MarkJobFailed(u)
  BY <1>11 DEF MarkJobFailed
<1>12. CASE ReleaseSlot(u)
  <2>1. /\ sem' = {v \in Uploads : pc'[v] \in HoldsSlot}
        /\ wg'  = {v \in Uploads : pc'[v] \in Working}
    BY <1>12 DEF ReleaseSlot
  <2>2. IsFiniteSet(sem) /\ sem' \subseteq sem /\ Cardinality(sem) <= Slots
    BY <1>12 DEF ReleaseSlot
  <2>3. IsFiniteSet(sem') /\ Cardinality(sem') <= Cardinality(sem)
    BY <2>2, FS_Subset
  <2>4. Cardinality(sem) \in Nat /\ Cardinality(sem') \in Nat
    BY <2>2, <2>3, FS_CardinalityType
  <2>5. Cardinality(sem') <= Slots
    BY <2>2, <2>3, <2>4, SlotsAssumption
  <2> QED BY <2>1, <2>3, <2>5
<1>13. CASE WgDone(u)
  BY <1>13 DEF WgDone
<1> QED BY <1>1, <1>2, <1>3, <1>4, <1>5, <1>6, <1>7, <1>8, <1>9, <1>10,
           <1>11, <1>12, <1>13 DEF Run

\* A webhook touches no other upload,
LEMMA OthersConfirm ==
    ASSUME TypeOK, NEW u \in Uploads, NEW s \in PayStatus, PaymentConfirm(u, s),
           NEW v \in Uploads \ {u}
    PROVE  Untouched(v)
  BY DEF PaymentConfirm, UpdateArtifactPaymentStatus, MarkPaymentConfirmed,
         Untouched, TypeOK, disk, outside, pool, process

\* keeps the invariant of its own: only pending_payment becomes uploading,
LEMMA UploadConfirm ==
    ASSUME TypeOK, NEW u \in Uploads, UploadInv(u), NEW s \in PayStatus,
           PaymentConfirm(u, s)
    PROVE  UploadInv(u)'
<1> USE DEF UploadInv, HandlerInv, StartInv, PhaseInv, FileInv, SegmentInv, ProgressInv,
            TypeOK, ArtifactRow, JobRow, Pending, Working,
            disk, outside, pool, process
<1>1. CASE IsTerminalConfirmed(s) /\ CanAdvance(u)
  BY <1>1 DEF PaymentConfirm, MarkPaymentConfirmed, CanAdvance,
              IsTerminalConfirmed, Secured
<1>2. CASE IsTerminalConfirmed(s) /\ ~CanAdvance(u)
  BY <1>2 DEF PaymentConfirm, MarkPaymentConfirmed
<1>3. CASE ~IsTerminalConfirmed(s)
  BY <1>3 DEF PaymentConfirm, UpdateArtifactPaymentStatus
<1> QED BY <1>1, <1>2, <1>3

\* and leaves the slots alone.
LEMMA SlotsConfirm ==
    ASSUME TypeOK, SlotsConserved, IsFiniteSet(sem), NEW u \in Uploads,
           UploadInv(u), NEW s \in PayStatus, PaymentConfirm(u, s)
    PROVE  SlotsConserved' /\ IsFiniteSet(sem)'
  BY DEF PaymentConfirm, UpdateArtifactPaymentStatus, MarkPaymentConfirmed,
         CanAdvance, UploadInv, StartInv, SlotsConserved, HoldsSlot, Working,
         TypeOK, pool

\* A crash, a panic and an exit: what is left on disk and in the rows is still consistent.
LEMMA InvProcess ==
    ASSUME Inv, ProcessStep
    PROVE  (\A v \in Uploads : UploadInv(v))' /\ SlotsConserved' /\ IsFiniteSet(sem)'
<1>1. CASE LoseGoroutines /\ UNCHANGED <<artifact, job, tmp, nzb, announced, starts>>
  <2>1. ASSUME NEW v \in Uploads
        PROVE  UploadInv(v)'
    BY <1>1 DEF Inv, LoseGoroutines, TypeOK, ArtifactRow, JobRow, UploadInv,
                HandlerInv, StartInv, PhaseInv, FileInv, SegmentInv, ProgressInv, Pending, Working
  <2>2. sem' = {} /\ wg' = {} /\ \A v \in Uploads : pc'[v] \in {"none", "end", "gone"}
    BY <1>1 DEF LoseGoroutines
  <2>3. IsFiniteSet(sem') /\ Cardinality(sem') = 0
    BY <2>2, FS_EmptySet
  <2> QED BY <2>1, <2>2, <2>3, SlotsAssumption DEF SlotsConserved, HoldsSlot, Working
<1>2. CASE UNCHANGED <<artifact, job, tmp, nzb, announced, handler, pc, posted,
                       sem, wg, starts>>
  BY <1>2 DEF Inv, UploadInv, HandlerInv, StartInv, PhaseInv, FileInv, SegmentInv, ProgressInv,
              SlotsConserved
<1> QED BY <1>1, <1>2 DEF ProcessStep, Process, Crash, Shutdown, ShutdownReturns,
           WaitReturns, WaitPanics, ClientPanics, Panic, CloseDB, Exit, Restart,
           rows, disk, outside, pool

\* The invariant holds at first.
LEMMA InvInit == Init => Inv
<1> SUFFICES ASSUME Init
             PROVE  Inv
  OBVIOUS
<1>1. TypeOK
  BY TypeInit
<1>2. ASSUME NEW u \in Uploads
      PROVE  UploadInv(u)
  BY DEF Init, NoArtifact, NoJob, UploadInv, HandlerInv, StartInv, PhaseInv,
         FileInv, SegmentInv, ProgressInv, Pending
<1>3. IsFiniteSet(sem) /\ Cardinality(sem) = 0
  BY FS_EmptySet DEF Init
<1>4. SlotsConserved
  BY <1>3, SlotsAssumption DEF SlotsConserved, HoldsSlot, Working, Init
<1> QED BY <1>1, <1>2, <1>3, <1>4 DEF Inv

\* Every step keeps the invariant.
LEMMA InvNext == Inv /\ [Next]_vars => Inv'
<1> SUFFICES ASSUME Inv, [Next]_vars
             PROVE  Inv'
  OBVIOUS
<1>a. TypeOK /\ SlotsConserved /\ IsFiniteSet(sem) /\ \A v \in Uploads : UploadInv(v)
  BY DEF Inv
<1>b. TypeOK'
  BY <1>a, TypeNext
<1>c. ASSUME NEW u \in Uploads, \A v \in Uploads \ {u} : Untouched(v), UploadInv(u)'
      PROVE  \A v \in Uploads : UploadInv(v)'
  BY <1>a, <1>c, UntouchedKeeps
<1>1. ASSUME NEW u \in Uploads, InitUpload(u) \/ PaymentMoves(u)
      PROVE  (\A v \in Uploads : UploadInv(v))' /\ SlotsConserved' /\ IsFiniteSet(sem)'
  BY <1>1, <1>a, <1>c, OthersRequest, UploadRequest, SlotsRequest
<1>2. ASSUME NEW u \in Uploads, NEW s \in PayStatus, PaymentConfirm(u, s)
      PROVE  (\A v \in Uploads : UploadInv(v))' /\ SlotsConserved' /\ IsFiniteSet(sem)'
  BY <1>2, <1>a, <1>c, OthersConfirm, UploadConfirm, SlotsConfirm
<1>3. ASSUME NEW u \in Uploads, StartFromPaymentConfirm(u)
      PROVE  (\A v \in Uploads : UploadInv(v))' /\ SlotsConserved' /\ IsFiniteSet(sem)'
  BY <1>3, <1>a, <1>c, OthersSubmit, UploadSubmit, SlotsSubmit
<1>4. ASSUME NEW u \in Uploads, Run(u)
      PROVE  (\A v \in Uploads : UploadInv(v))' /\ SlotsConserved' /\ IsFiniteSet(sem)'
  BY <1>4, <1>a, <1>c, OthersRun, UploadRun, SlotsRun
<1>5. ASSUME ProcessStep
      PROVE  (\A v \in Uploads : UploadInv(v))' /\ SlotsConserved' /\ IsFiniteSet(sem)'
  BY <1>5, InvProcess
<1>6. ASSUME UNCHANGED vars
      PROVE  (\A v \in Uploads : UploadInv(v))' /\ SlotsConserved' /\ IsFiniteSet(sem)'
  BY <1>6, <1>a DEF vars, UploadInv, HandlerInv, StartInv, PhaseInv, FileInv,
                    SegmentInv, ProgressInv, SlotsConserved
<1>7. (\A v \in Uploads : UploadInv(v))' /\ SlotsConserved' /\ IsFiniteSet(sem)'
  BY <1>1, <1>2, <1>3, <1>4, <1>5, <1>6 DEF Next, ProcessStep
<1> QED BY <1>b, <1>7 DEF Inv

\* Each place of a goroutine fixes its rows and its files.
THEOREM Invariance == Spec => []Inv
  BY InvInit, InvNext, PTL DEF Spec

-----------------------------------------------------------------------------
(***************************************************************************)
(* The safety properties.                                                  *)
(***************************************************************************)

\* An upload is started at most once, whatever the order and number of IPNs.
THEOREM AtMostOneStart == Spec => []StartedOnce
<1>1. Inv => StartedOnce
  BY DEF Inv, UploadInv, StartInv, StartedOnce, TypeOK, ArtifactRow
<1> QED BY <1>1, Invariance, PTL

\* Nothing is posted before the payment is secured.
THEOREM PaidFirst == Spec => []PaidBeforeUpload
<1>1. Inv => PaidBeforeUpload
  BY DEF Inv, UploadInv, StartInv, PaidBeforeUpload, Secured
<1> QED BY <1>1, Invariance, PTL

\* The only copy of a file is kept until its artifact is ready.
THEOREM SourceSafe == Spec => []SourceKept
<1>1. Inv => SourceKept
  BY DEF Inv, UploadInv, FileInv, SourceKept
<1> QED BY <1>1, Invariance, PTL

\* A ready artifact has a complete NZB.
THEOREM ReadyComplete == Spec => []ReadyIsComplete
<1>1. Inv => ReadyIsComplete
  BY DEF Inv, UploadInv, SegmentInv, ReadyIsComplete
<1> QED BY <1>1, Invariance, PTL

\* The job's row and the artifact's row agree at every moment.
THEOREM RowsConsistent == Spec => []RowsAgree
<1>1. Inv => RowsAgree
  BY DEF Inv, UploadInv, HandlerInv, PhaseInv, RowsAgree
<1> QED BY <1>1, Invariance, PTL

\* No slot of the worker and no count of its WaitGroup is leaked or doubled.
THEOREM SlotsExact == Spec => []SlotsConserved
<1>1. Inv => SlotsConserved
  BY DEF Inv
<1> QED BY <1>1, Invariance, PTL

\* No IPN, failure or crash takes an artifact back to an earlier status.
THEOREM NoRegress == Spec => ArtifactNeverRegresses
<1> DEFINE Keeps == \A u \in Uploads :
              ArtifactRank(artifact[u].status) <= ArtifactRank(artifact'[u].status)
<1>1. ASSUME Inv, [Next]_vars
      PROVE  Keeps
  <2>1. ASSUME NEW u \in Uploads
        PROVE  \/ artifact'[u].status = artifact[u].status
               \/ /\ artifact[u].status = "absent"
                  /\ artifact'[u].status = "pending_payment"
               \/ /\ artifact[u].status = "pending_payment"
                  /\ artifact'[u].status = "uploading"
               \/ /\ artifact[u].status = "uploading"
                  /\ artifact'[u].status = "ready"
    <3> USE <1>1, <2>1 DEF Inv, TypeOK, rows
    <3>1. CASE UNCHANGED artifact
      BY <3>1
    <3>2. ASSUME NEW v \in Uploads, InsertArtifactPending(v)
          PROVE  \/ artifact'[u].status = artifact[u].status
                 \/ /\ artifact[u].status = "absent"
                    /\ artifact'[u].status = "pending_payment"
      <4>1. artifact[v].status = "absent"
        <5>1. HandlerInv(v) /\ handler[v] = "artifact"
          BY <3>2 DEF InsertArtifactPending, UploadInv
        <5> QED BY <5>1 DEF HandlerInv
      <4>2. \/ UNCHANGED artifact
            \/ artifact' = [artifact EXCEPT ![v] = [NoArtifact EXCEPT !.status = "pending_payment"]]
        BY <3>2 DEF InsertArtifactPending, RefuseInit
      <4>3. CASE u = v
        BY <4>1, <4>2, <4>3 DEF NoArtifact
      <4>4. CASE u # v
        BY <4>2, <4>4
      <4> QED BY <4>3, <4>4
    <3>3. ASSUME NEW v \in Uploads, NEW s \in PayStatus, PaymentConfirm(v, s)
          PROVE  \/ artifact'[u].status = artifact[u].status
                 \/ /\ artifact[u].status = "pending_payment"
                    /\ artifact'[u].status = "uploading"
      BY <3>3 DEF PaymentConfirm, UpdateArtifactPaymentStatus,
                  MarkPaymentConfirmed, CanAdvance, ArtifactRow
    <3>4. ASSUME NEW v \in Uploads, PromoteArtifactToReady(v)
          PROVE  \/ artifact'[u].status = artifact[u].status
                 \/ /\ artifact[u].status = "uploading"
                    /\ artifact'[u].status = "ready"
      BY <3>4 DEF PromoteArtifactToReady, Goto, UploadInv, PhaseInv, ArtifactRow
    <3>5. \/ UNCHANGED artifact
          \/ \E v \in Uploads : InsertArtifactPending(v) \/ PromoteArtifactToReady(v)
          \/ \E v \in Uploads : \E s \in PayStatus : PaymentConfirm(v, s)
      BY DEF Next, InitUpload, ReceiveFile, CreateInvoice, InsertJob, PaymentMoves,
             RefuseInit, StartFromPaymentConfirm, Lookup, TakeSlot, WgAdd, Run,
             Start, ReadTmp, PostPart, PostFails, EndOfParts, WriteNZB, RemoveTmp,
             Done, UpdateJobArtifactID, MarkJobFailed, ReleaseSlot, WgDone,
             Process, Crash, Shutdown, ShutdownReturns, WaitReturns, WaitPanics,
             ClientPanics, Panic, CloseDB, Exit, Restart, vars
    <3> QED BY <3>1, <3>2, <3>3, <3>4, <3>5
  <2> QED BY <2>1, <1>1 DEF ArtifactRank, Inv, TypeOK, ArtifactRow
<1>2. Inv /\ [Next]_vars => [Keeps]_vars
  BY <1>1
<1> QED BY <1>2, Invariance, PTL DEF Spec, ArtifactNeverRegresses

\* Only the step that finds wg at zero takes main to its deferred calls.
LEMMA ClosingNeedsZero ==
    ASSUME [Next]_vars, proc # "closing", proc' = "closing"
    PROVE  wg = {}
<1>1. CASE Process
  BY <1>1 DEF Process, Crash, Shutdown, ShutdownReturns, WaitReturns, WaitPanics,
              Panic, CloseDB, Exit, Restart
<1>2. ASSUME NEW u \in Uploads, WgDone(u) \/ ClientPanics(u)
      PROVE  FALSE
  BY <1>2 DEF WgDone, ClientPanics, Panic
<1>3. \/ Process
      \/ \E u \in Uploads : WgDone(u) \/ ClientPanics(u)
      \/ UNCHANGED proc
  BY DEF Next, InitUpload, ReceiveFile, CreateInvoice, InsertArtifactPending,
         InsertJob, PaymentMoves, PaymentConfirm, StartFromPaymentConfirm, Lookup,
         TakeSlot, WgAdd, Run, Start, ReadTmp, PostPart, PostFails, EndOfParts,
         WriteNZB, PromoteArtifactToReady, RemoveTmp, Done, UpdateJobArtifactID,
         MarkJobFailed, ReleaseSlot, vars, process
<1> QED BY <1>1, <1>2, <1>3

\* Wait returns only when every job it counted has ended: main's deferred calls
\* begin with no goroutine between wg.Add and wg.Done, and those that the exit
\* ends have not begun before.
THEOREM WaitReturnsDrained == Spec => WaitDrains
<1> DEFINE Drains == proc # "closing" /\ proc' = "closing" =>
                        \A u \in Uploads : pc[u] \notin Working
<1>1. Inv /\ [Next]_vars => [Drains]_vars
  BY ClosingNeedsZero DEF Inv, SlotsConserved
<1> QED BY <1>1, Invariance, PTL DEF Spec, WaitDrains

-----------------------------------------------------------------------------
(***************************************************************************)
(* The job rows implement JobLifecycle.  Of the statements that write a    *)
(* job's row, two change only what it refers to; each of the others is a   *)
(* step of the abstract job, or is lost.                                   *)
(***************************************************************************)
\* UPDATE jobs SET status = s, progress = p, artifact_id = r
Replaced(u, s, p) ==
    \E r : job' = [job EXCEPT ![u] = [status |-> s, progress |-> p, ref |-> r]]

\* A write of one row replaces the row's entry in each column.
LEMMA RowReplaced ==
    ASSUME TypeOK, NEW u \in Uploads, NEW s, NEW p, Replaced(u, s, p)
    PROVE  /\ statusColumn[u] = job[u].status
           /\ progressColumn[u] = job[u].progress
           /\ statusColumn' = [statusColumn EXCEPT ![u] = s]
           /\ progressColumn' = [progressColumn EXCEPT ![u] = p]
           /\ s = job[u].status => UNCHANGED statusColumn
           /\ p = job[u].progress => UNCHANGED progressColumn
<1>1. job \in [Uploads -> JobRow]
  BY DEF TypeOK
<1>2. PICK r : job' = [job EXCEPT ![u] = [status |-> s, progress |-> p, ref |-> r]]
  BY DEF Replaced
<1>3. \A v \in Uploads : job'[v].status = IF v = u THEN s ELSE job[v].status
  BY <1>1, <1>2 DEF JobRow
<1>4. \A v \in Uploads : job'[v].progress = IF v = u THEN p ELSE job[v].progress
  BY <1>1, <1>2 DEF JobRow
<1>5. /\ statusColumn' = [statusColumn EXCEPT ![u] = s]
      /\ s = job[u].status => UNCHANGED statusColumn
  BY <1>3 DEF statusColumn
<1>6. /\ progressColumn' = [progressColumn EXCEPT ![u] = p]
      /\ p = job[u].progress => UNCHANGED progressColumn
  BY <1>4 DEF progressColumn
<1> QED BY <1>5, <1>6 DEF statusColumn, progressColumn

\* A field written alone: the rest of the row is written back as it was.
LEMMA FieldWritten ==
    ASSUME TypeOK, NEW u \in Uploads, NEW x
    PROVE  /\ job' = [job EXCEPT ![u].status = x] => Replaced(u, x, job[u].progress)
           /\ job' = [job EXCEPT ![u].progress = x] => Replaced(u, job[u].status, x)
           /\ job' = [job EXCEPT ![u].ref = x] =>
                 Replaced(u, job[u].status, job[u].progress)
<1>1. job[u] = [status |-> job[u].status, progress |-> job[u].progress, ref |-> job[u].ref]
  BY DEF TypeOK, JobRow
<1>2. /\ [job[u] EXCEPT !.status = x] =
            [status |-> x, progress |-> job[u].progress, ref |-> job[u].ref]
      /\ [job[u] EXCEPT !.progress = x] =
            [status |-> job[u].status, progress |-> x, ref |-> job[u].ref]
      /\ [job[u] EXCEPT !.ref = x] =
            [status |-> job[u].status, progress |-> job[u].progress, ref |-> x]
  BY <1>1
<1> QED BY <1>2 DEF Replaced

\* initUpload queues an absent job.
LEMMA LifecycleEnqueue ==
    ASSUME TypeOK, NEW u \in Uploads, UploadInv(u), InsertJob(u), job' # job
    PROVE  Lifecycle!Next
<1>1. job[u].status = "absent" /\ job[u].progress = 0
  BY DEF InsertJob, UploadInv, HandlerInv, StartInv, ProgressInv
<1>2. Replaced(u, "queued", 0)
  BY DEF InsertJob, RefuseInit, NoJob, Replaced, rows
<1>3. /\ statusColumn[u] = "absent"
      /\ statusColumn' = [statusColumn EXCEPT ![u] = "queued"]
      /\ UNCHANGED progressColumn
  BY <1>1, <1>2, RowReplaced
<1>4. Lifecycle!Enqueue(u)
  BY <1>3 DEF Lifecycle!Enqueue, Lifecycle!Become
<1> QED BY <1>4 DEF Lifecycle!Next

\* Run starts a queued job with no progress.
LEMMA LifecycleStart ==
    ASSUME TypeOK, NEW u \in Uploads, UploadInv(u), Start(u), job' # job
    PROVE  Lifecycle!Next
<1>1. job[u].status = "queued" /\ job[u].progress = 0
  BY DEF Start, Goto, UploadInv, ProgressInv
<1>2. Replaced(u, "running", 0)
  BY DEF Start, JobWrite, Replaced
<1>3. /\ statusColumn[u] = "queued"
      /\ statusColumn' = [statusColumn EXCEPT ![u] = "running"]
      /\ UNCHANGED progressColumn
  BY <1>1, <1>2, RowReplaced
<1>4. Lifecycle!Begin(u)
  BY <1>3 DEF Lifecycle!Begin, Lifecycle!Become
<1> QED BY <1>4 DEF Lifecycle!Next

\* A posted segment never takes progress back.
LEMMA LifecyclePost ==
    ASSUME TypeOK, NEW u \in Uploads, UploadInv(u), PostPart(u), job' # job
    PROVE  Lifecycle!Next
<1> DEFINE p == Percent(posted[u] + 1, Parts[u])
<1>1. Replaced(u, job[u].status, p)
  BY FieldWritten DEF PostPart, JobWrite
<1>2. job[u].status \in {"queued", "running"}
  BY DEF PostPart, Goto, UploadInv, PhaseInv
<1>3. p \in job[u].progress .. 95
  BY PostPartGrows
<1> HIDE DEF p
<1>4. /\ statusColumn[u] = job[u].status
      /\ progressColumn[u] = job[u].progress
      /\ progressColumn' = [progressColumn EXCEPT ![u] = p]
      /\ UNCHANGED statusColumn
  BY <1>1, RowReplaced
<1>5. Lifecycle!Advance(u)
  BY <1>2, <1>3, <1>4 DEF Lifecycle!Advance, Lifecycle!UnderWay
<1> QED BY <1>5 DEF Lifecycle!Next

\* A job is done or failed once, from queued or running.
LEMMA LifecycleEnd ==
    ASSUME TypeOK, NEW u \in Uploads, UploadInv(u), Done(u) \/ MarkJobFailed(u), job' # job
    PROVE  Lifecycle!Next
<1>1. job[u].status \in {"queued", "running"}
  BY DEF Done, MarkJobFailed, Goto, UploadInv, PhaseInv, ProgressInv
<1>2. CASE Done(u)
  <2>1. Replaced(u, "done", 100)
    BY <1>2 DEF Done, JobWrite, Replaced
  <2>2. /\ statusColumn[u] = job[u].status
        /\ statusColumn' = [statusColumn EXCEPT ![u] = "done"]
        /\ progressColumn' = [progressColumn EXCEPT ![u] = 100]
    BY <2>1, RowReplaced
  <2>3. Lifecycle!Finish(u)
    BY <1>1, <2>2 DEF Lifecycle!Finish, Lifecycle!UnderWay, Lifecycle!Become
  <2> QED BY <2>3 DEF Lifecycle!Next
<1>3. CASE MarkJobFailed(u)
  <2>1. Replaced(u, "failed", job[u].progress)
    BY <1>3, FieldWritten DEF MarkJobFailed, JobWrite
  <2>2. /\ statusColumn[u] = job[u].status
        /\ statusColumn' = [statusColumn EXCEPT ![u] = "failed"]
        /\ UNCHANGED progressColumn
    BY <2>1, RowReplaced
  <2>3. Lifecycle!Fail(u)
    BY <1>1, <2>2 DEF Lifecycle!Fail, Lifecycle!UnderWay, Lifecycle!Become
  <2> QED BY <2>3 DEF Lifecycle!Next
<1> QED BY <1>2, <1>3

\* PromoteArtifactToReady and UpdateJobArtifactID do not show.
LEMMA LifecycleRelabel ==
    ASSUME TypeOK, NEW u \in Uploads,
           PromoteArtifactToReady(u) \/ UpdateJobArtifactID(u), job' # job
    PROVE  UNCHANGED <<statusColumn, progressColumn>>
<1>1. job' = [job EXCEPT ![u].ref = "hash"]
  BY DEF PromoteArtifactToReady, UpdateJobArtifactID, JobWrite, rows
<1>2. Replaced(u, job[u].status, job[u].progress)
  BY <1>1, FieldWritten
<1> QED BY <1>2, RowReplaced

\* Whatever fails, stops or restarts, a client that follows the job's row sees
\* a behaviour of JobLifecycle.
THEOREM Implements == Spec => FollowsLifecycle
<1>1. Init => Lifecycle!Init
  BY DEF Init, NoJob, Lifecycle!Init, statusColumn, progressColumn
<1>2. Inv /\ [Next]_vars => [Lifecycle!Next]_(Lifecycle!vars)
  <2> SUFFICES ASSUME Inv, [Next]_vars
               PROVE  Lifecycle!Next \/ UNCHANGED Lifecycle!vars
    OBVIOUS
  <2>1. TypeOK /\ \A u \in Uploads : UploadInv(u)
    BY DEF Inv
  <2>2. CASE UNCHANGED job
    BY <2>2 DEF Lifecycle!vars, statusColumn, progressColumn
  <2>3. ASSUME NEW u \in Uploads, job' # job,
               InsertJob(u) \/ Start(u) \/ PostPart(u) \/ Done(u) \/ MarkJobFailed(u)
        PROVE  Lifecycle!Next
    BY <2>1, <2>3, LifecycleEnqueue, LifecycleStart, LifecyclePost, LifecycleEnd
  <2>4. ASSUME NEW u \in Uploads, job' # job,
               PromoteArtifactToReady(u) \/ UpdateJobArtifactID(u)
        PROVE  UNCHANGED Lifecycle!vars
    BY <2>1, <2>4, LifecycleRelabel DEF Lifecycle!vars
  <2>5. \/ UNCHANGED job
        \/ \E u \in Uploads : \/ InsertJob(u)
                              \/ Start(u)
                              \/ PostPart(u)
                              \/ Done(u)
                              \/ MarkJobFailed(u)
                              \/ PromoteArtifactToReady(u)
                              \/ UpdateJobArtifactID(u)
    BY DEF Next, vars, rows, InitUpload, ReceiveFile, CreateInvoice,
           InsertArtifactPending, RefuseInit, PaymentMoves, PaymentConfirm,
           StartFromPaymentConfirm, Lookup, TakeSlot, WgAdd, Run, ReadTmp, PostFails,
           EndOfParts, WriteNZB, RemoveTmp, ReleaseSlot, WgDone, Process, Crash,
           Shutdown, ShutdownReturns, WaitReturns, WaitPanics, ClientPanics, Panic,
           CloseDB, Exit, Restart
  <2> QED BY <2>2, <2>3, <2>4, <2>5
<1> QED BY <1>1, <1>2, Invariance, PTL DEF Spec, FollowsLifecycle, Lifecycle!Spec
=============================================================================
