------------------------- MODULE VaultDownloadProofs -------------------------
(***************************************************************************)
(* Proofs about VaultDownload, for every set of downloads and artifacts,   *)
(* every number of segments and slots, every lifetime of a token, every    *)
(* set of faults and any number of crashes.                                *)
(***************************************************************************)
EXTENDS VaultDownload, FiniteSetTheorems, TLAPS

\* The share of fetched segments, out of 90, is a percentage.
LEMMA ShareBound ==
    ASSUME NEW n \in Nat, NEW t \in Nat, t > 0, n <= t
    PROVE  Share(n, t) \in 0 .. 90
<1>1. (90 * n) \div t \in Int /\ (90 * n) \div t >= 0
  OBVIOUS
<1>2. (90 * n) \div t <= 90
  OBVIOUS
<1> QED BY <1>1, <1>2 DEF Share

\* More segments are no smaller a share.
LEMMA ShareGrows ==
    ASSUME NEW n \in Nat, NEW t \in Nat, t > 0
    PROVE  Share(n, t) <= Share(n + 1, t)
<1> DEFINE p == (90 * n) \div t
           q == (90 * (n + 1)) \div t
<1>1. p \in Int /\ q \in Int /\ t * p <= 90 * n /\ 90 * (n + 1) < t * (q + 1)
  OBVIOUS
<1>2. t * p < t * (q + 1)
  BY <1>1
<1>3. p < q + 1
  BY <1>1, <1>2
<1> QED BY <1>1, <1>3 DEF Share

-----------------------------------------------------------------------------
(***************************************************************************)
(* Type correctness.                                                       *)
(***************************************************************************)
JobRow == [status : {"absent", "queued", "running", "done", "failed"},
           progress : 0 .. 100]

\* A download asks for an artifact.
LEMMA ArtifactIs == \A d \in Downloads : ArtifactOf[d] \in Artifacts
  BY DEF Artifacts

\* An artifact that can be asked for has segments.
LEMMA SegmentsType == \A d \in Downloads : Segments[d] \in Nat /\ Segments[d] > 0
  BY SegmentsAssumption

\* The initial state is well typed.
LEMMA TypeInit == Init => TypeOK
  BY FS_EmptySet, SlotsAssumption, ClockAssumption, CrashesAssumption,
     SegmentsType DEF Init, TypeOK

\* The steps of the request keep the types: a slot is taken only when one is free.
LEMMA TypeHandle ==
    ASSUME TypeOK, SlotsHeld, NEW d \in Downloads, Handle(d) \/ Disconnect(d)
    PROVE  TypeOK'
<1> USE DEF TypeOK, rows, disk, run, sweep
<1>1. CASE Request(d)
  BY <1>1 DEF Request
<1>2. CASE TakeSlot(d)
  <2>1. IsFiniteSet(sem) /\ Cardinality(sem) \in Nat /\ Cardinality(sem) < Slots
    BY <1>2, FS_CardinalityType DEF TakeSlot, SlotFree, SlotsHeld
  <2>2. Cardinality(sem \cup {d}) \in {Cardinality(sem), Cardinality(sem) + 1}
    BY <2>1, FS_AddElement
  <2>3. Cardinality(sem') <= Slots
    BY <1>2, <2>1, <2>2, SlotsAssumption DEF TakeSlot
  <2> QED BY <1>2, <2>3 DEF TakeSlot
<1>3. CASE Answer(d)
  BY <1>3 DEF Answer
<1>4. CASE Disconnect(d)
  BY <1>4 DEF Disconnect
<1> QED BY <1>1, <1>2, <1>3, <1>4 DEF Handle

\* What Run writes to the job's row is a job row, written or lost.
LEMMA JobWritten ==
    ASSUME TypeOK, NEW d \in Downloads, NEW p \in 0 .. 100,
           NEW s \in {"running", "done", "failed"}, JobWrite(d, s, p)
    PROVE  /\ job' \in [Downloads -> JobRow]
           /\ \/ job' = [job EXCEPT ![d] = [status |-> s, progress |-> p]]
              \/ job' = job
  BY DEF TypeOK, JobWrite, JobRow

\* The steps of the goroutine keep them,
LEMMA TypeRun ==
    ASSUME TypeOK, SlotsHeld, NEW d \in Downloads, Run(d)
    PROVE  TypeOK'
<1> USE DEF Goto, disk, request, sweep
<1>1. CASE Start(d)
  <2>1. job' \in [Downloads -> JobRow]
    BY <1>1, JobWritten DEF Start
  <2> QED BY <1>1, <2>1 DEF Start, TypeOK, JobRow
<1>2. CASE ReadNZB(d)
  BY <1>2 DEF ReadNZB, TypeOK, rows
<1>3. CASE FetchSegment(d)
  <2>1. /\ fetched[d] \in Nat /\ fetched[d] + 1 <= Segments[d]
        /\ fetched' = [fetched EXCEPT ![d] = @ + 1]
    BY <1>3, SegmentsType DEF FetchSegment, TypeOK
  <2>2. /\ fetched' \in [Downloads -> Nat]
        /\ \A e \in Downloads : fetched'[e] <= Segments[e]
    BY <2>1 DEF TypeOK
  <2>3. Share(fetched[d] + 1, Segments[d]) \in 0 .. 100
    BY <2>1, ShareBound, SegmentsType
  <2>4. \/ job' = [job EXCEPT ![d].progress = Share(fetched[d] + 1, Segments[d])]
        \/ job' = job
    BY <1>3 DEF FetchSegment
  <2>5. job \in [Downloads -> JobRow]
    BY DEF TypeOK, JobRow
  <2>6. job' \in [Downloads -> JobRow]
    BY <2>3, <2>4, <2>5 DEF JobRow
  <2> QED BY <1>3, <2>2, <2>6 DEF FetchSegment, TypeOK, JobRow
<1>4. CASE FetchFails(d)
  BY <1>4 DEF FetchFails, TypeOK, rows
<1>5. CASE MakeDir(d)
  <2>1. file' \in [Artifacts -> {"none", "empty", "partial", "whole"}]
    BY <1>5, ArtifactIs DEF MakeDir, TypeOK
  <2> QED BY <1>5, <2>1 DEF MakeDir, TypeOK, rows
<1>6. CASE OpenFile(d)
  <2>1. file' \in [Artifacts -> {"none", "empty", "partial", "whole"}]
    BY <1>6, ArtifactIs DEF OpenFile, TypeOK
  <2>2. writer' \in [Artifacts -> Downloads \cup {None}]
    BY <1>6, ArtifactIs DEF OpenFile, TypeOK
  <2> QED BY <1>6, <2>1, <2>2 DEF OpenFile, TypeOK, rows
<1>7. CASE WriteFile(d)
  <2>1. file' \in [Artifacts -> {"none", "empty", "partial", "whole"}]
    BY <1>7, ArtifactIs DEF WriteFile, Written, TypeOK
  <2> QED BY <1>7, <2>1 DEF WriteFile, TypeOK, rows
<1>8. CASE InsertDownloadToken(d)
  <2>1. now + TTL \in 0 .. MaxTime + TTL
    BY ClockAssumption DEF TypeOK
  <2>2. \/ /\ token' = [token EXCEPT ![d] = now + TTL]
           /\ issued' = issued \cup {d}
        \/ token' = token /\ issued' = issued
    BY <1>8 DEF InsertDownloadToken
  <2>3. token \in [Downloads -> 0 .. MaxTime + TTL] /\ issued \subseteq Downloads
    BY DEF TypeOK
  <2>4. token' \in [Downloads -> 0 .. MaxTime + TTL] /\ issued' \subseteq Downloads
    BY <2>1, <2>2, <2>3
  <2> QED BY <1>8, <2>4 DEF InsertDownloadToken, TypeOK
<1>9. CASE Done(d)
  <2>1. job' \in [Downloads -> JobRow]
    BY <1>9, JobWritten DEF Done
  <2> QED BY <1>9, <2>1 DEF Done, TypeOK, JobRow
<1>10. CASE MarkJobFailed(d)
  <2>1. job[d].progress \in 0 .. 100
    BY DEF TypeOK
  <2>2. job' \in [Downloads -> JobRow]
    BY <1>10, <2>1, JobWritten DEF MarkJobFailed
  <2> QED BY <1>10, <2>2 DEF MarkJobFailed, TypeOK, JobRow
<1>11. CASE Release(d)
  <2>1. IsFiniteSet(sem) /\ sem' \subseteq sem
    BY <1>11 DEF Release, SlotsHeld
  <2>2. Cardinality(sem') <= Slots
    BY <2>1, FS_Subset, FS_CardinalityType, SlotsAssumption DEF TypeOK
  <2> QED BY <1>11, <2>2 DEF Release, TypeOK, rows
<1> QED BY <1>1, <1>2, <1>3, <1>4, <1>5, <1>6, <1>7, <1>8, <1>9, <1>10, <1>11 DEF Run

\* so do those of a client of the link,
LEMMA TypeRead ==
    ASSUME TypeOK, NEW d \in Downloads, Read(d)
    PROVE  TypeOK'
<1> USE DEF TypeOK, rows, disk, request, run, sweep
<1>1. CASE CheckToken(d)
  BY <1>1 DEF CheckToken
<1>2. CASE ServeFile(d)
  BY <1>2, ArtifactIs DEF ServeFile
<1> QED BY <1>1, <1>2 DEF Read

\* those of the cleaner,
LEMMA TypeSweep ==
    ASSUME TypeOK, SweepInv, Sweep
    PROVE  TypeOK'
<1> USE DEF TypeOK, rows, disk, request, run
<1>1. CASE SelectExpired
  BY <1>1, ArtifactIs DEF SelectExpired, Expired
<1>2. CASE DeleteExpired
  <2>1. token' \in [Downloads -> 0 .. MaxTime + TTL]
    BY <1>2, ClockAssumption DEF DeleteExpired
  <2> QED BY <1>2, <2>1 DEF DeleteExpired
<1>3. CASE CountTokens
  BY <1>3 DEF CountTokens
<1>4. CASE RemoveDir
  <2>1. target \in Artifacts
    BY <1>4 DEF RemoveDir, SweepInv
  <2> QED BY <1>4, <2>1 DEF RemoveDir
<1>5. CASE EndSweep
  BY <1>5 DEF EndSweep, sweep
<1> QED BY <1>1, <1>2, <1>3, <1>4, <1>5 DEF Sweep

\* and the clock and a crash.
LEMMA TypeOutside ==
    ASSUME TypeOK, Tick \/ Crash
    PROVE  TypeOK'
<1> USE DEF TypeOK, rows, disk, request, run, sweep
<1>1. CASE Tick
  BY <1>1, ClockAssumption DEF Tick
<1>2. CASE Crash
  BY <1>2, FS_EmptySet, SlotsAssumption, CrashesAssumption, SegmentsType DEF Crash
<1> QED BY <1>1, <1>2

-----------------------------------------------------------------------------
(***************************************************************************)
(* The rows and the tokens.  A step of one download touches nothing of     *)
(* another's.                                                              *)
(***************************************************************************)
Untouched(e) == /\ job'[e] = job[e]
                /\ token'[e] = token[e]
                /\ handler'[e] = handler[e]
                /\ pc'[e] = pc[e]
                /\ fetched'[e] = fetched[e]
                /\ reader'[e] = reader[e]
                /\ e \in issued' <=> e \in issued

\* A download nobody touches keeps its part of the invariant.
LEMMA UntouchedKeeps ==
    ASSUME NEW e \in Downloads, JobInv(e), TokenInv(e), Untouched(e)
    PROVE  JobInv(e)' /\ TokenInv(e)'
  BY DEF JobInv, TokenInv, Untouched, Working

\* No step of one download touches the row, token or place of another.
LEMMA OthersStep ==
    ASSUME TypeOK, NEW d \in Downloads,
           Handle(d) \/ Disconnect(d) \/ Run(d) \/ Read(d),
           NEW e \in Downloads \ {d}
    PROVE  Untouched(e)
<1> USE DEF Untouched, TypeOK, Goto, rows, disk, run, request, sweep
<1>1. CASE Handle(d) \/ Disconnect(d)
  BY <1>1 DEF Handle, Disconnect, Request, TakeSlot, Answer
<1>2. CASE Read(d)
  BY <1>2 DEF Read, CheckToken, ServeFile
<1>3. CASE Run(d)
  <2>1. CASE Start(d) \/ Done(d) \/ MarkJobFailed(d)
    BY <1>3, <2>1 DEF Start, Done, MarkJobFailed, JobWrite
  <2>2. CASE ReadNZB(d) \/ FetchFails(d) \/ MakeDir(d) \/ Release(d)
    BY <1>3, <2>2 DEF ReadNZB, FetchFails, MakeDir, Release
  <2>3. CASE FetchSegment(d)
    BY <1>3, <2>3 DEF FetchSegment
  <2>4. CASE OpenFile(d) \/ WriteFile(d)
    BY <1>3, <2>4 DEF OpenFile, WriteFile
  <2>5. CASE InsertDownloadToken(d)
    BY <1>3, <2>5 DEF InsertDownloadToken
  <2> QED BY <1>3, <2>1, <2>2, <2>3, <2>4, <2>5 DEF Run
<1> QED BY <1>1, <1>2, <1>3

\* The steps of the request and of the reader keep its row and token in step with it.
LEMMA RowsHandle ==
    ASSUME TypeOK, NEW d \in Downloads, JobInv(d), TokenInv(d),
           Handle(d) \/ Disconnect(d) \/ Read(d)
    PROVE  JobInv(d)' /\ TokenInv(d)'
<1> USE DEF TypeOK, JobInv, TokenInv, Working, rows, disk, run, request, sweep
<1>1. CASE Request(d)
  BY <1>1 DEF Request
<1>2. CASE TakeSlot(d)
  BY <1>2 DEF TakeSlot
<1>3. CASE Answer(d)
  BY <1>3 DEF Answer
<1>4. CASE Disconnect(d)
  BY <1>4 DEF Disconnect
<1>5. CASE CheckToken(d)
  BY <1>5 DEF CheckToken, TokenValid
<1>6. CASE ServeFile(d)
  BY <1>6 DEF ServeFile
<1> QED BY <1>1, <1>2, <1>3, <1>4, <1>5, <1>6 DEF Handle, Read

\* The share of what is fetched is a number, now and after one more segment.
LEMMA SharesType ==
    ASSUME TypeOK, NEW d \in Downloads
    PROVE  /\ fetched[d] \in Nat
           /\ job[d].progress \in Nat
           /\ Share(fetched[d], Segments[d]) \in Nat
           /\ fetched[d] < Segments[d] => Share(fetched[d] + 1, Segments[d]) \in Nat
<1>1. fetched[d] \in Nat /\ fetched[d] <= Segments[d]
  BY DEF TypeOK
<1>4. job[d].progress \in 0 .. 100
  BY DEF TypeOK
<1>2. Share(fetched[d], Segments[d]) \in Nat
  BY <1>1, ShareBound, SegmentsType
<1>3. ASSUME fetched[d] < Segments[d]
      PROVE  Share(fetched[d] + 1, Segments[d]) \in Nat
  <2>1. fetched[d] + 1 \in Nat /\ fetched[d] + 1 <= Segments[d]
    BY <1>1, <1>3, SegmentsType
  <2> QED BY <2>1, ShareBound, SegmentsType
<1> QED BY <1>1, <1>2, <1>3, <1>4

\* The goroutine's steps do, though an update of the row may be lost.
LEMMA RowsRun ==
    ASSUME TypeOK, NEW d \in Downloads, JobInv(d), TokenInv(d), Run(d)
    PROVE  JobInv(d)' /\ TokenInv(d)'
<1> USE DEF TypeOK, JobInv, TokenInv, Working, Goto, rows, disk, request, sweep
<1>1. CASE Start(d)
  BY <1>1 DEF Start, JobWrite
<1>2. CASE ReadNZB(d)
  BY <1>2, SharesType DEF ReadNZB
<1>3. CASE FetchSegment(d)
  <2>1. /\ pc[d] = "fetch" /\ pc'[d] = "fetch"
        /\ fetched'[d] = fetched[d] + 1
        /\ job'[d].status = job[d].status
        /\ job'[d].progress \in {job[d].progress, Share(fetched[d] + 1, Segments[d])}
    BY <1>3 DEF FetchSegment
  <2>2. fetched[d] < Segments[d]
    BY <1>3 DEF FetchSegment
  <2>3. Share(fetched[d], Segments[d]) <= Share(fetched[d] + 1, Segments[d])
    BY SharesType, ShareGrows, SegmentsType
  <2>4. job[d].progress <= Share(fetched[d], Segments[d])
    BY <2>1
  <2>5. job'[d].progress <= Share(fetched'[d], Segments[d])
    BY <2>1, <2>2, <2>3, <2>4, SharesType
  <2>6. UNCHANGED <<handler, token, reader, issued>>
    BY <1>3 DEF FetchSegment
  <2> QED BY <2>1, <2>5, <2>6
<1>4. CASE FetchFails(d)
  BY <1>4 DEF FetchFails
<1>5. CASE MakeDir(d)
  BY <1>5 DEF MakeDir
<1>6. CASE OpenFile(d)
  BY <1>6 DEF OpenFile
<1>7. CASE WriteFile(d)
  BY <1>7 DEF WriteFile
<1>8. CASE InsertDownloadToken(d)
  BY <1>8 DEF InsertDownloadToken
<1>9. CASE Done(d)
  BY <1>9 DEF Done, JobWrite
<1>10. CASE MarkJobFailed(d)
  BY <1>10 DEF MarkJobFailed, JobWrite
<1>11. CASE Release(d)
  BY <1>11 DEF Release
<1> QED BY <1>1, <1>2, <1>3, <1>4, <1>5, <1>6, <1>7, <1>8, <1>9, <1>10, <1>11 DEF Run

\* What the sweep, the clock and a crash do to the rows and the tokens
LEMMA RowsOutside ==
    ASSUME TypeOK, NEW e \in Downloads, JobInv(e), TokenInv(e), Sweep \/ Tick \/ Crash
    PROVE  JobInv(e)' /\ TokenInv(e)'
<1> USE DEF TypeOK, rows, disk, run, request, sweep
<1>1. CASE DeleteExpired
  <2>1. token'[e] \in {0, token[e]}
    BY <1>1 DEF DeleteExpired
  <2>2. UNCHANGED <<job, handler, pc, fetched, reader, issued>>
    BY <1>1 DEF DeleteExpired
  <2> QED BY <2>1, <2>2 DEF JobInv, TokenInv, Working
<1>2. CASE SelectExpired \/ CountTokens \/ RemoveDir \/ EndSweep \/ Tick
  <2>1. UNCHANGED <<job, token, handler, pc, fetched, reader, issued>>
    BY <1>2 DEF SelectExpired, CountTokens, RemoveDir, EndSweep, Tick
  <2> QED BY <2>1 DEF JobInv, TokenInv, Working
<1>3. CASE Crash
  BY <1>3 DEF Crash, JobInv, TokenInv, Working
<1> QED BY <1>1, <1>2, <1>3 DEF Sweep

-----------------------------------------------------------------------------
(***************************************************************************)
(* Slots and the sweep.                                                    *)
(***************************************************************************)
LEMMA SlotsStep ==
    ASSUME TypeOK, SlotsHeld, NEW d \in Downloads, JobInv(d),
           Handle(d) \/ Disconnect(d) \/ Run(d) \/ Read(d)
    PROVE  SlotsHeld'
<1> USE DEF TypeOK, SlotsHeld, Working, Goto, run
<1>1. CASE TakeSlot(d)
  <2>1. sem' = {e \in Downloads : pc'[e] \in Working \cup {"release"}}
    BY <1>1 DEF TakeSlot
  <2>2. IsFiniteSet(sem')
    BY <1>1, FS_AddElement DEF TakeSlot
  <2> QED BY <2>1, <2>2
<1>2. CASE Release(d)
  <2>1. sem' = {e \in Downloads : pc'[e] \in Working \cup {"release"}}
    BY <1>2 DEF Release
  <2>2. IsFiniteSet(sem')
    BY <1>2, FS_RemoveElement DEF Release
  <2> QED BY <2>1, <2>2
<1>3. CASE UNCHANGED <<pc, sem>>
  BY <1>3
<1>4. ASSUME NEW from \in Working, NEW to \in Working \cup {"release"},
             Goto(d, from, to), UNCHANGED sem
      PROVE  SlotsHeld'
  BY <1>4
<1>5. CASE Request(d) \/ Answer(d) \/ Disconnect(d) \/ Read(d)
  BY <1>3, <1>5 DEF Request, Answer, Disconnect, Read, CheckToken, ServeFile
<1>6. CASE Start(d) \/ ReadNZB(d) \/ FetchSegment(d) \/ FetchFails(d)
  BY <1>4, <1>6 DEF Start, ReadNZB, FetchSegment, FetchFails
<1>7. CASE MakeDir(d) \/ OpenFile(d) \/ WriteFile(d)
  BY <1>4, <1>7 DEF MakeDir, OpenFile, WriteFile
<1>8. CASE InsertDownloadToken(d) \/ Done(d) \/ MarkJobFailed(d)
  BY <1>4, <1>8 DEF InsertDownloadToken, Done, MarkJobFailed
<1> QED BY <1>1, <1>2, <1>5, <1>6, <1>7, <1>8 DEF Handle, Run

\* The sweep keeps its own order, and a crash frees the slots and ends the sweep.
LEMMA SweepKept ==
    ASSUME TypeOK, SweepInv, SlotsHeld, Sweep \/ Tick \/ Crash
    PROVE  SweepInv' /\ SlotsHeld'
<1>1. CASE Sweep
  <2>1. SweepInv'
    BY <1>1 DEF Sweep, SweepInv, SelectExpired, DeleteExpired, CountTokens,
                RemoveDir, EndSweep
  <2>2. UNCHANGED <<pc, sem>>
    BY <1>1 DEF Sweep, SelectExpired, DeleteExpired, CountTokens, RemoveDir,
                EndSweep, run
  <2> QED BY <2>1, <2>2 DEF SlotsHeld, Working
<1>2. CASE Tick
  BY <1>2 DEF Tick, SweepInv, SlotsHeld, Working, run, sweep
<1>3. CASE Crash
  <2>1. sem' = {e \in Downloads : pc'[e] \in Working \cup {"release"}}
    BY <1>3 DEF Crash, Working
  <2> QED BY <1>3, <2>1, FS_EmptySet DEF Crash, SweepInv, SlotsHeld, Working
<1> QED BY <1>1, <1>2, <1>3

\* The other steps leave the sweep alone.
LEMMA SweepAlone ==
    ASSUME SweepInv, NEW d \in Downloads,
           Handle(d) \/ Disconnect(d) \/ Run(d) \/ Read(d)
    PROVE  SweepInv'
<1>1. UNCHANGED sweep
  BY DEF Handle, Disconnect, Read, Request, TakeSlot, Answer, CheckToken, ServeFile,
         Run, Start, ReadNZB, FetchSegment, FetchFails, MakeDir, OpenFile, WriteFile,
         InsertDownloadToken, Done, MarkJobFailed, Release
<1> QED BY <1>1 DEF SweepInv, sweep

-----------------------------------------------------------------------------
(***************************************************************************)
(* The only download of an artifact.                                       *)
(***************************************************************************)
LEMMA SoleHandle ==
    ASSUME TypeOK, NEW d \in Downloads, SoleInv(d), TokenInv(d),
           Handle(d) \/ Disconnect(d) \/ Read(d)
    PROVE  SoleInv(d)'
<1> USE DEF TypeOK, SoleInv, rows, disk, run, request, sweep
<1>1. CASE Request(d)
  BY <1>1 DEF Request
<1>2. CASE TakeSlot(d)
  BY <1>2 DEF TakeSlot
<1>3. CASE Answer(d)
  BY <1>3 DEF Answer
<1>4. CASE Disconnect(d)
  BY <1>4 DEF Disconnect
<1>5. CASE CheckToken(d)
  BY <1>5 DEF CheckToken
<1>6. CASE ServeFile(d)
  BY <1>6, ArtifactIs DEF ServeFile, TokenInv
<1> QED BY <1>1, <1>2, <1>3, <1>4, <1>5, <1>6 DEF Handle, Read

\* Until the token is stored the sweep has no reason to look at the artifact.
LEMMA SoleRun ==
    ASSUME TypeOK, NEW d \in Downloads, SoleInv(d), TokenInv(d), Run(d)
    PROVE  SoleInv(d)'
<1> USE DEF TypeOK, SoleInv, TokenInv, Goto, rows, disk, request, sweep
<1>1. CASE Start(d)
  BY <1>1 DEF Start
<1>2. CASE ReadNZB(d)
  BY <1>2 DEF ReadNZB
<1>3. CASE FetchSegment(d)
  BY <1>3 DEF FetchSegment
<1>4. CASE FetchFails(d)
  BY <1>4 DEF FetchFails
<1>5. CASE MakeDir(d)
  BY <1>5, ArtifactIs DEF MakeDir
<1>6. CASE OpenFile(d)
  BY <1>6, ArtifactIs DEF OpenFile
<1>7. CASE WriteFile(d)
  BY <1>7, ArtifactIs DEF WriteFile, Written
<1>8. CASE InsertDownloadToken(d)
  BY <1>8 DEF InsertDownloadToken
<1>9. CASE Done(d)
  BY <1>9 DEF Done
<1>10. CASE MarkJobFailed(d)
  BY <1>10 DEF MarkJobFailed
<1>11. CASE Release(d)
  BY <1>11 DEF Release
<1> QED BY <1>1, <1>2, <1>3, <1>4, <1>5, <1>6, <1>7, <1>8, <1>9, <1>10, <1>11 DEF Run

\* A download of another artifact leaves this one's file alone.
LEMMA SoleOthers ==
    ASSUME TypeOK, NEW e \in Downloads, SoleInv(e),
           NEW d \in Downloads, ArtifactOf[d] # ArtifactOf[e],
           Handle(d) \/ Disconnect(d) \/ Run(d) \/ Read(d)
    PROVE  SoleInv(e)'
<1>1. Untouched(e)
  BY OthersStep
<1>2. UNCHANGED sweep
  BY DEF Handle, Disconnect, Read, Request, TakeSlot, Answer, CheckToken, ServeFile,
         Run, Start, ReadNZB, FetchSegment, FetchFails, MakeDir, OpenFile, WriteFile,
         InsertDownloadToken, Done, MarkJobFailed, Release
<1>3. file'[ArtifactOf[e]] = file[ArtifactOf[e]] /\ writer'[ArtifactOf[e]] = writer[ArtifactOf[e]]
  <2> USE DEF TypeOK, disk
  <2>1. CASE MakeDir(d) \/ OpenFile(d) \/ WriteFile(d)
    BY <2>1, ArtifactIs DEF MakeDir, OpenFile, WriteFile, Written
  <2>2. CASE UNCHANGED <<file, writer>>
    BY <2>2
  <2> QED BY <2>1, <2>2
          DEF Handle, Disconnect, Read, Request, TakeSlot, Answer, CheckToken, ServeFile,
              Run, Start, ReadNZB, FetchSegment, FetchFails, InsertDownloadToken, Done,
              MarkJobFailed, Release
<1> QED BY <1>1, <1>2, <1>3 DEF SoleInv, Untouched, sweep

\* The sweep takes up an artifact when its only token has expired, deletes
\* the token and only then the file.
LEMMA SoleSweep ==
    ASSUME TypeOK, SweepInv, NEW e \in Downloads, Alone(e), SoleInv(e), TokenInv(e),
           Sweep \/ Tick \/ Crash
    PROVE  SoleInv(e)'
<1> USE DEF TypeOK, SoleInv, SweepInv
<1>1. CASE SelectExpired
  <2>1. ArtifactOf[e] \in todo' => token[e] # 0 /\ token[e] < sweepNow'
    BY <1>1 DEF SelectExpired, Expired, Alone
  <2> QED BY <1>1, <2>1 DEF SelectExpired, TokenInv, rows, disk, request, run
<1>2. CASE DeleteExpired
  <2>1. /\ token'[e] \in {0, token[e]}
        /\ cleaner' = "count" /\ token[e] < sweepNow => token'[e] = 0
    BY <1>2 DEF DeleteExpired, Expired
  <2>2. \/ cleaner' = "count" /\ todo' = todo
        \/ cleaner' = "idle" /\ todo' = {}
    BY <1>2 DEF DeleteExpired
  <2> QED BY <1>2, <2>1, <2>2 DEF DeleteExpired, disk, run
<1>3. CASE CountTokens
  <2>1. todo' \subseteq todo /\ cleaner = "count" /\ cleaner' \in {"count", "remove"}
    BY <1>3 DEF CountTokens
  <2> QED BY <1>3, <2>1 DEF CountTokens, rows, disk, run
<1>4. CASE RemoveDir
  <2>1. target \in todo /\ target \in Artifacts
    BY <1>4 DEF RemoveDir
  <2>2. \/ target = ArtifactOf[e] /\ token[e] = 0 /\ e \in issued
        \/ /\ file'[ArtifactOf[e]] = file[ArtifactOf[e]]
           /\ writer'[ArtifactOf[e]] = writer[ArtifactOf[e]]
    BY <1>4, <2>1, ArtifactIs DEF RemoveDir, disk
  <2>3. \/ file'[ArtifactOf[e]] = "none"
        \/ /\ file'[ArtifactOf[e]] = file[ArtifactOf[e]]
           /\ writer'[ArtifactOf[e]] = writer[ArtifactOf[e]]
    BY <1>4, <2>1, ArtifactIs DEF RemoveDir, disk
  <2>4. e \in issued => pc[e] \notin {"write", "token"}
    BY DEF TokenInv
  <2>5. /\ UNCHANGED <<token, pc, issued, reader, sweepNow>>
        /\ todo' = todo \ {target} /\ cleaner = "remove" /\ cleaner' = "count"
    BY <1>4 DEF RemoveDir, rows, run
  <2> QED BY <2>2, <2>3, <2>4, <2>5
<1>5. CASE EndSweep
  BY <1>5 DEF EndSweep, rows, disk, run
<1>6. CASE Tick
  BY <1>6 DEF Tick, rows, disk, run, sweep
<1>7. CASE Crash
  BY <1>7 DEF Crash, rows, disk
<1> QED BY <1>1, <1>2, <1>3, <1>4, <1>5, <1>6, <1>7 DEF Sweep

-----------------------------------------------------------------------------
\* The invariant holds at first.
LEMMA InvInit == Init => Inv
<1> SUFFICES ASSUME Init
             PROVE  Inv
  OBVIOUS
<1>1. TypeOK
  BY TypeInit
<1>2. ASSUME NEW d \in Downloads
      PROVE  JobInv(d) /\ TokenInv(d) /\ SoleInv(d)
  BY DEF Init, JobInv, TokenInv, SoleInv, Working
<1>3. SweepInv /\ SlotsHeld
  BY FS_EmptySet DEF Init, SweepInv, SlotsHeld, Working
<1> QED BY <1>1, <1>2, <1>3 DEF Inv

\* Every step keeps the invariant.
LEMMA InvNext == Inv /\ [Next]_vars => Inv'
<1> SUFFICES ASSUME Inv, [Next]_vars
             PROVE  Inv'
  OBVIOUS
<1>a. /\ TypeOK /\ SweepInv /\ SlotsHeld
      /\ \A e \in Downloads : JobInv(e) /\ TokenInv(e)
      /\ \A e \in Downloads : Alone(e) => SoleInv(e)
  BY DEF Inv
<1>1. ASSUME NEW d \in Downloads, Handle(d) \/ Disconnect(d) \/ Run(d) \/ Read(d)
      PROVE  Inv'
  <2>1. TypeOK'
    BY <1>1, <1>a, TypeHandle, TypeRun, TypeRead
  <2>2. ASSUME NEW e \in Downloads
        PROVE  JobInv(e)' /\ TokenInv(e)'
    <3>1. CASE e = d
      BY <1>1, <1>a, <3>1, RowsHandle, RowsRun
    <3>2. CASE e # d
      BY <1>1, <1>a, <3>2, OthersStep, UntouchedKeeps
    <3> QED BY <3>1, <3>2
  <2>3. ASSUME NEW e \in Downloads, Alone(e)
        PROVE  SoleInv(e)'
    <3>1. CASE e = d
      BY <1>1, <1>a, <2>3, <3>1, SoleHandle, SoleRun
    <3>2. CASE e # d
      <4>1. ArtifactOf[d] # ArtifactOf[e]
        BY <2>3, <3>2 DEF Alone
      <4> QED BY <1>1, <1>a, <2>3, <4>1, SoleOthers
    <3> QED BY <3>1, <3>2
  <2>4. SweepInv' /\ SlotsHeld'
    BY <1>1, <1>a, SweepAlone, SlotsStep
  <2> QED BY <2>1, <2>2, <2>3, <2>4 DEF Inv, Alone
<1>2. ASSUME Sweep \/ Tick \/ Crash
      PROVE  Inv'
  <2>1. TypeOK'
    BY <1>2, <1>a, TypeSweep, TypeOutside
  <2>2. ASSUME NEW e \in Downloads
        PROVE  JobInv(e)' /\ TokenInv(e)'
    BY <1>2, <1>a, RowsOutside
  <2>3. ASSUME NEW e \in Downloads, Alone(e)
        PROVE  SoleInv(e)'
    BY <1>2, <1>a, <2>3, SoleSweep
  <2>4. SweepInv' /\ SlotsHeld'
    BY <1>2, <1>a, SweepKept
  <2> QED BY <2>1, <2>2, <2>3, <2>4 DEF Inv, Alone
<1>3. CASE UNCHANGED vars
  BY <1>3, <1>a DEF Inv, vars, TypeOK, JobInv, TokenInv, SoleInv, SweepInv, SlotsHeld,
                    Working
<1> QED BY <1>1, <1>2, <1>3 DEF Next

\* Rows, tokens, files, slots and the sweep fit together in every state.
THEOREM Invariance == Spec => []Inv
  BY InvInit, InvNext, PTL DEF Spec

-----------------------------------------------------------------------------
(***************************************************************************)
(* The safety properties.                                                  *)
(***************************************************************************)

\* A client that finds done can rely on a token having been stored.
THEOREM DoneMeansToken == Spec => []DoneHasToken
<1>1. Inv => DoneHasToken
  BY DEF Inv, TokenInv, DoneHasToken
<1> QED BY <1>1, Invariance, PTL

\* The link of the only download of an artifact never serves a part of the
\* file, and finds none only when its token is gone.
THEOREM SoleLinkWhole == Spec => []SoleLinkServesWhole
<1>1. Inv => SoleLinkServesWhole
  BY DEF Inv, SoleInv, SoleLinkServesWhole
<1> QED BY <1>1, Invariance, PTL

\* No token is deleted while serveFile would accept it.
THEOREM TokensLive == Spec => TokenLivesItsTTL
<1> DEFINE Lives == \A d \in Downloads : token[d] # 0 /\ token'[d] = 0 => token[d] < now
<1>1. ASSUME Inv, [Next]_vars
      PROVE  Lives
  <2> SUFFICES ASSUME NEW d \in Downloads, token[d] # 0, token'[d] = 0
               PROVE  token[d] < now
    OBVIOUS
  <2> USE <1>1 DEF Inv, TypeOK
  <2>1. \/ UNCHANGED token
        \/ DeleteExpired
        \/ \E e \in Downloads : InsertDownloadToken(e)
    BY DEF Next, vars, rows, Handle, Disconnect, Read, Request, TakeSlot, Answer,
           CheckToken, ServeFile, Run, Start, ReadNZB, FetchSegment, FetchFails,
           MakeDir, OpenFile, WriteFile, Done, MarkJobFailed, Release, Sweep,
           SelectExpired, CountTokens, RemoveDir, EndSweep, Tick, Crash
  <2>2. CASE DeleteExpired
    BY <2>2 DEF DeleteExpired, Expired
  <2>3. ASSUME NEW e \in Downloads, InsertDownloadToken(e)
        PROVE  FALSE
    BY <2>3, ClockAssumption DEF InsertDownloadToken
  <2> QED BY <2>1, <2>2, <2>3
<1>2. Inv /\ [Next]_vars => [Lives]_vars
  BY <1>1
<1> QED BY <1>2, Invariance, PTL DEF Spec, TokenLivesItsTTL

-----------------------------------------------------------------------------
(***************************************************************************)
(* The job rows implement JobLifecycle.  Only Request and five statements  *)
(* of Run write a job's row; each is a step of the abstract job, or lost.  *)
(***************************************************************************)
\* What a write of one row does to the columns the lifecycle is about
LEMMA RowWritten ==
    ASSUME TypeOK, NEW d \in Downloads, NEW s, NEW p,
           \/ job' = [job EXCEPT ![d] = [status |-> s, progress |-> p]]
           \/ job' = [job EXCEPT ![d].status = s] /\ p = job[d].progress
           \/ job' = [job EXCEPT ![d].progress = p] /\ s = job[d].status
    PROVE  /\ statusColumn[d] = job[d].status
           /\ progressColumn[d] = job[d].progress
           /\ statusColumn' = [statusColumn EXCEPT ![d] = s]
           /\ progressColumn' = [progressColumn EXCEPT ![d] = p]
           /\ s = job[d].status => UNCHANGED statusColumn
           /\ p = job[d].progress => UNCHANGED progressColumn
<1>1. job \in [Downloads -> JobRow]
  BY DEF TypeOK, JobRow
<1>2. \A e \in Downloads : job'[e].status = IF e = d THEN s ELSE job[e].status
  BY <1>1 DEF JobRow
<1>3. \A e \in Downloads : job'[e].progress = IF e = d THEN p ELSE job[e].progress
  BY <1>1 DEF JobRow
<1>4. /\ statusColumn' = [statusColumn EXCEPT ![d] = s]
      /\ s = job[d].status => UNCHANGED statusColumn
  BY <1>2 DEF statusColumn
<1>5. /\ progressColumn' = [progressColumn EXCEPT ![d] = p]
      /\ p = job[d].progress => UNCHANGED progressColumn
  BY <1>3 DEF progressColumn
<1> QED BY <1>4, <1>5 DEF statusColumn, progressColumn

\* UPDATE jobs SET status = s, progress = p
Replaced(d, s, p) == job' = [job EXCEPT ![d] = [status |-> s, progress |-> p]]

\* A write of one row replaces the row's entry in each column.
LEMMA RowReplaced ==
    ASSUME TypeOK, NEW d \in Downloads, NEW s, NEW p, Replaced(d, s, p)
    PROVE  /\ statusColumn[d] = job[d].status
           /\ statusColumn' = [statusColumn EXCEPT ![d] = s]
           /\ progressColumn' = [progressColumn EXCEPT ![d] = p]
           /\ p = job[d].progress => UNCHANGED progressColumn
  BY RowWritten DEF Replaced

\* A request queues an absent job.
LEMMA LifecycleRequest ==
    ASSUME TypeOK, NEW d \in Downloads, JobInv(d), Request(d)
    PROVE  Lifecycle!Next
<1>1. job' = [job EXCEPT ![d].status = "queued"] /\ job[d].status = "absent"
  BY DEF Request, JobInv
<1>2. Lifecycle!Enqueue(d)
  BY <1>1, RowWritten DEF Lifecycle!Enqueue, Lifecycle!Become
<1> QED BY <1>2 DEF Lifecycle!Next

\* Run starts a queued job with no progress.
LEMMA LifecycleStart ==
    ASSUME TypeOK, NEW d \in Downloads, JobInv(d), Start(d), job' # job
    PROVE  Lifecycle!Next
<1>1. job' = [job EXCEPT ![d] = [status |-> "running", progress |-> 0]]
  BY DEF Start, JobWrite
<1>2. job[d].status = "queued" /\ job[d].progress = 0
  BY DEF Start, Goto, JobInv, Working
<1>3. Lifecycle!Begin(d)
  BY <1>1, <1>2, RowWritten DEF Lifecycle!Begin, Lifecycle!Become
<1> QED BY <1>3 DEF Lifecycle!Next

\* A fetched segment never takes progress back, whether or not the start was written.
LEMMA LifecycleFetch ==
    ASSUME TypeOK, NEW d \in Downloads, JobInv(d), FetchSegment(d), job' # job
    PROVE  Lifecycle!Next
<1> DEFINE p == Share(fetched[d] + 1, Segments[d])
<1>1. job' = [job EXCEPT ![d].progress = p]
  BY DEF FetchSegment
<1>2. /\ job[d].status \in {"queued", "running"}
      /\ job[d].progress <= Share(fetched[d], Segments[d])
      /\ fetched[d] < Segments[d]
  BY DEF FetchSegment, Goto, JobInv, Working
<1>3. fetched[d] + 1 \in Nat /\ fetched[d] + 1 <= Segments[d]
  BY <1>2, SharesType, SegmentsType
<1>4. p \in 0 .. 90
  BY <1>3, ShareBound, SegmentsType
<1>5. Share(fetched[d], Segments[d]) <= p
  BY SharesType, ShareGrows, SegmentsType
<1>6. p \in job[d].progress .. 95
  BY <1>2, <1>4, <1>5, SharesType
<1> HIDE DEF p
<1>7. Lifecycle!Advance(d)
  BY <1>1, <1>2, <1>6, RowWritten DEF Lifecycle!Advance, Lifecycle!UnderWay
<1> QED BY <1>7 DEF Lifecycle!Next

\* A job is done or failed once, from queued or running.
LEMMA LifecycleEnd ==
    ASSUME TypeOK, NEW d \in Downloads, JobInv(d), Done(d) \/ MarkJobFailed(d), job' # job
    PROVE  Lifecycle!Next
<1>1. job[d].status \in {"queued", "running"}
  BY DEF Done, MarkJobFailed, Goto, JobInv, Working
<1>2. CASE Done(d)
  <2>1. Replaced(d, "done", 100)
    BY <1>2 DEF Done, JobWrite, Replaced
  <2>2. /\ statusColumn[d] = job[d].status
        /\ statusColumn' = [statusColumn EXCEPT ![d] = "done"]
        /\ progressColumn' = [progressColumn EXCEPT ![d] = 100]
    BY <2>1, RowReplaced
  <2>3. Lifecycle!Finish(d)
    BY <1>1, <2>2 DEF Lifecycle!Finish, Lifecycle!UnderWay, Lifecycle!Become
  <2> QED BY <2>3 DEF Lifecycle!Next
<1>3. CASE MarkJobFailed(d)
  <2>1. Replaced(d, "failed", job[d].progress)
    BY <1>3 DEF MarkJobFailed, JobWrite, Replaced
  <2>2. /\ statusColumn[d] = job[d].status
        /\ statusColumn' = [statusColumn EXCEPT ![d] = "failed"]
        /\ progressColumn' = progressColumn
    BY <2>1, RowReplaced
  <2>3. Lifecycle!Fail(d)
    BY <1>1, <2>2 DEF Lifecycle!Fail, Lifecycle!UnderWay, Lifecycle!Become
  <2> QED BY <2>3 DEF Lifecycle!Next
<1> QED BY <1>2, <1>3

\* Whatever fails, is cancelled or crashes, a client that follows the job's
\* row sees a behaviour of JobLifecycle.
THEOREM Implements == Spec => FollowsLifecycle
<1>1. Init => Lifecycle!Init
  BY DEF Init, Lifecycle!Init, statusColumn, progressColumn
<1>2. Inv /\ [Next]_vars => [Lifecycle!Next]_(Lifecycle!vars)
  <2> SUFFICES ASSUME Inv, [Next]_vars
               PROVE  Lifecycle!Next \/ UNCHANGED Lifecycle!vars
    OBVIOUS
  <2>1. TypeOK /\ \A d \in Downloads : JobInv(d)
    BY DEF Inv
  <2>2. CASE UNCHANGED job
    BY <2>2 DEF Lifecycle!vars, statusColumn, progressColumn
  <2>3. ASSUME NEW d \in Downloads, job' # job,
               Request(d) \/ Start(d) \/ FetchSegment(d) \/ Done(d) \/ MarkJobFailed(d)
        PROVE  Lifecycle!Next
    BY <2>1, <2>3, LifecycleRequest, LifecycleStart, LifecycleFetch, LifecycleEnd
  <2>4. \/ UNCHANGED job
        \/ \E d \in Downloads : \/ Request(d)
                                \/ Start(d)
                                \/ FetchSegment(d)
                                \/ Done(d)
                                \/ MarkJobFailed(d)
    BY DEF Next, vars, rows, Handle, Disconnect, Read, TakeSlot, Answer, CheckToken,
           ServeFile, Run, ReadNZB, FetchFails, MakeDir, OpenFile, WriteFile,
           InsertDownloadToken, Release, Sweep, SelectExpired, DeleteExpired,
           CountTokens, RemoveDir, EndSweep, Tick, Crash
  <2> QED BY <2>2, <2>3, <2>4
<1> QED BY <1>1, <1>2, Invariance, PTL DEF Spec, FollowsLifecycle, Lifecycle!Spec
=============================================================================
