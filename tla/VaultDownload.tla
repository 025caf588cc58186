---------------------------- MODULE VaultDownload ----------------------------
(***************************************************************************)
(* Downloads of ready artifacts in ol1n-vault: the request handler that    *)
(* submits a DownloadJob under its own request context, the job that       *)
(* fetches, writes the file and issues a token, serveFile, and the Cleaner *)
(* that sweeps expired tokens and the files behind them.                   *)
(*                                                                         *)
(* A download d stands for one POST /download/{artifact_id}: its job id    *)
(* and the token it is given.  The artifacts are the ready ones (request   *)
(* refuses the others and writes nothing).  A crash loses the goroutines.  *)
(***************************************************************************)
EXTENDS Naturals, FiniteSets

CONSTANTS
    Downloads,   \* the download requests
    ArtifactOf,  \* ArtifactOf[d]: the artifact that d asks for
    Segments,    \* Segments[d]: number of segments in its NZB
    Slots,       \* capacity of Worker.sem
    TTL,         \* lifetime of a token, in ticks
    MaxTime,     \* bound on the clock
    Faults,      \* the kinds of external call that may fail
    MaxCrashes,  \* bound on the number of crashes
    None         \* nobody

Artifacts == {ArtifactOf[d] : d \in Downloads}

ASSUME SegmentsAssumption == Segments \in [Downloads -> Nat \ {0}]
ASSUME SlotsAssumption    == Slots \in Nat \ {0}
ASSUME ClockAssumption    == TTL \in Nat \ {0} /\ MaxTime \in Nat \ {0}
ASSUME FaultsAssumption   == Faults \subseteq {"disk", "db", "nntp"}
ASSUME CrashesAssumption  == MaxCrashes \in Nat

VARIABLES
    job,      \* row of the job: status, progress
    token,    \* expires_at of the token issued to d (0: no such row)
    file,     \* file[a]: what is under FilesDir for the artifact: no directory,
              \* an empty one, or a file that is partial or whole
    writer,   \* writer[a]: the download that truncated that file last
    handler,  \* where request is
    ctx,      \* the request's context, which the job runs under
    pc,       \* where the worker goroutine is in Run
    fetched,  \* number of segments in Run's body
    sem,      \* downloads that hold a slot of Worker.sem
    now,      \* the clock
    cleaner,  \* where sweep is
    sweepNow, \* the time sweep passed to DeleteExpiredTokens
    todo,     \* artifacts of the expired tokens still to look at
    target,   \* the artifact whose directory sweep is about to remove
    reader,   \* where a client of the link is: what it was served
    issued,   \* history: downloads whose token was stored
    crashes   \* crashes so far

rows    == <<job, token>>
disk    == <<file, writer>>
run     == <<pc, fetched>>
request == <<handler, ctx>>
sweep   == <<cleaner, sweepNow, todo, target>>
vars == <<job, token, file, writer, handler, ctx, pc, fetched, sem, now,
          cleaner, sweepNow, todo, target, reader, issued, crashes>>

Fails(kind) == kind \in Faults

Init ==
    /\ job     = [d \in Downloads |-> [status |-> "absent", progress |-> 0]]
    /\ token   = [d \in Downloads |-> 0]
    /\ file    = [a \in Artifacts |-> "none"]
    /\ writer  = [a \in Artifacts |-> None]
    /\ handler = [d \in Downloads |-> "idle"]
    /\ ctx     = [d \in Downloads |-> "live"]
    /\ pc      = [d \in Downloads |-> "none"]
    /\ fetched = [d \in Downloads |-> 0]
    /\ sem = {}
    /\ now = 1
    /\ cleaner = "idle" /\ sweepNow = 0 /\ todo = {} /\ target = None
    /\ reader  = [d \in Downloads |-> "none"]
    /\ issued = {}
    /\ crashes = 0

-----------------------------------------------------------------------------
(***************************************************************************)
(* POST /download/{artifact_id}                                            *)
(***************************************************************************)
Request(d) ==
    /\ handler[d] = "idle"
    /\ job' = [job EXCEPT ![d].status = "queued"]
    /\ handler' = [handler EXCEPT ![d] = "slot"]
    /\ UNCHANGED <<token, disk, ctx, run, sem, now, sweep, reader, issued, crashes>>

SlotFree == Cardinality(sem) < Slots

\* Submit blocks the handler until a slot is free, whatever becomes of ctx.
TakeSlot(d) ==
    /\ handler[d] = "slot"
    /\ SlotFree
    /\ sem' = sem \cup {d}
    /\ handler' = [handler EXCEPT ![d] = "answer"]
    /\ pc' = [pc EXCEPT ![d] = "start"]
    /\ UNCHANGED <<rows, disk, ctx, fetched, now, sweep, reader, issued, crashes>>

\* When the handler returns net/http cancels the request's context.
Answer(d) ==
    /\ handler[d] = "answer"
    /\ handler' = [handler EXCEPT ![d] = "returned"]
    /\ ctx' = [ctx EXCEPT ![d] = "cancelled"]
    /\ UNCHANGED <<rows, disk, run, sem, now, sweep, reader, issued, crashes>>

\* The client goes away, or middleware.Timeout fires, before the answer.
Disconnect(d) ==
    /\ handler[d] \in {"slot", "answer"}
    /\ ctx[d] = "live"
    /\ ctx' = [ctx EXCEPT ![d] = "cancelled"]
    /\ UNCHANGED <<rows, disk, handler, run, sem, now, sweep, reader, issued, crashes>>

-----------------------------------------------------------------------------
(***************************************************************************)
(* The worker goroutine.  A statement under a cancelled context is not     *)
(* executed; the worker ignores that error when it writes the job row.     *)
(***************************************************************************)
Goto(d, from, to) ==
    /\ pc[d] = from
    /\ pc' = [pc EXCEPT ![d] = to]

CanWrite(d) == ctx[d] = "live"

JobWrite(d, status, progress) ==
    \/ /\ CanWrite(d)
       /\ job' = [job EXCEPT ![d] = [status |-> status, progress |-> progress]]
    \/ /\ ~CanWrite(d) \/ Fails("db")
       /\ UNCHANGED job

Start(d) ==
    /\ Goto(d, "start", "read")
    /\ JobWrite(d, "running", 0)
    /\ UNCHANGED <<token, disk, request, fetched, sem, now, sweep, reader, issued, crashes>>

ReadNZB(d) ==
    /\ \/ Goto(d, "read", "fetch")
       \/ Fails("disk") /\ Goto(d, "read", "failing")
    /\ UNCHANGED <<rows, disk, request, fetched, sem, now, sweep, reader, issued, crashes>>

\* Fetching is nine tenths of the job (Run's pct).
Share(n, total) == (90 * n) \div total

\* FetchBody, YEncDecode and Worker.Progress
FetchSegment(d) ==
    /\ fetched[d] < Segments[d]
    /\ Goto(d, "fetch", "fetch")
    /\ fetched' = [fetched EXCEPT ![d] = @ + 1]
    /\ \/ /\ CanWrite(d)
          /\ job' = [job EXCEPT ![d].progress = Share(fetched[d] + 1, Segments[d])]
       \/ /\ ~CanWrite(d) \/ Fails("db")
          /\ UNCHANGED job
    /\ UNCHANGED <<token, disk, request, sem, now, sweep, reader, issued, crashes>>

\* acquire may prefer the end of the context to a free token.
FetchFails(d) ==
    /\ fetched[d] < Segments[d]
    /\ Fails("nntp") \/ ctx[d] = "cancelled"
    /\ Goto(d, "fetch", "failing")
    /\ UNCHANGED <<rows, disk, request, fetched, sem, now, sweep, reader, issued, crashes>>

MakeDir(d) ==
    /\ fetched[d] = Segments[d]
    /\ \/ /\ Goto(d, "fetch", "open")
          /\ file' = [file EXCEPT ![ArtifactOf[d]] = IF @ = "none" THEN "empty" ELSE @]
       \/ /\ Fails("disk")
          /\ Goto(d, "fetch", "failing")
          /\ UNCHANGED file
    /\ UNCHANGED <<rows, writer, request, fetched, sem, now, sweep, reader, issued, crashes>>

\* Mutant: the token is issued before the file is written.
OpenFileEarlyLink(d) ==
    /\ Goto(d, "open", "token")
    /\ file' = [file EXCEPT ![ArtifactOf[d]] = "partial"]
    /\ writer' = [writer EXCEPT ![ArtifactOf[d]] = d]
    /\ UNCHANGED <<rows, request, fetched, sem, now, sweep, reader, issued, crashes>>

\* os.WriteFile opens and truncates; the sweep may have taken the directory.
OpenFile(d) ==
    /\ \/ /\ file[ArtifactOf[d]] # "none"
          /\ Goto(d, "open", "write")
          /\ file' = [file EXCEPT ![ArtifactOf[d]] = "partial"]
          /\ writer' = [writer EXCEPT ![ArtifactOf[d]] = d]
       \/ /\ file[ArtifactOf[d]] = "none" \/ Fails("disk")
          /\ Goto(d, "open", "failing")
          /\ UNCHANGED disk
    /\ UNCHANGED <<rows, request, fetched, sem, now, sweep, reader, issued, crashes>>

(***************************************************************************)
(* Everything is written.  Who truncated the file last makes it whole; of  *)
(* another's writes some may have come before that, or all after, or they  *)
(* went to a file that was removed.                                        *)
(***************************************************************************)
Written(d) ==
    LET a == ArtifactOf[d] IN
    \/ file' = [file EXCEPT ![a] = IF @ = "partial" THEN "whole" ELSE @]
    \/ writer[a] # d /\ UNCHANGED file

WriteFile(d) ==
    /\ \/ Goto(d, "write", "token") /\ Written(d)
       \/ Fails("disk") /\ Goto(d, "write", "failing") /\ UNCHANGED file
    /\ UNCHANGED <<rows, writer, request, fetched, sem, now, sweep, reader, issued, crashes>>

\* Mutant: the error of the INSERT is ignored.
InsertTokenIgnoresError(d) ==
    /\ Goto(d, "token", "done")
    /\ \/ /\ CanWrite(d)
          /\ token' = [token EXCEPT ![d] = now + TTL]
          /\ issued' = issued \cup {d}
       \/ /\ ~CanWrite(d) \/ Fails("db")
          /\ UNCHANGED <<token, issued>>
    /\ UNCHANGED <<job, disk, request, fetched, sem, now, sweep, reader, crashes>>

InsertDownloadToken(d) ==
    /\ \/ /\ CanWrite(d)
          /\ Goto(d, "token", "done")
          /\ token' = [token EXCEPT ![d] = now + TTL]
          /\ issued' = issued \cup {d}
       \/ /\ ~CanWrite(d) \/ Fails("db")
          /\ Goto(d, "token", "failing")
          /\ UNCHANGED <<token, issued>>
    /\ UNCHANGED <<job, disk, request, fetched, sem, now, sweep, reader, crashes>>

Done(d) ==
    /\ Goto(d, "done", "release")
    /\ JobWrite(d, "done", 100)
    /\ UNCHANGED <<token, disk, request, fetched, sem, now, sweep, reader, issued, crashes>>

\* Mutant: the failure is written with UpdateJobStatus(failed, 0).
MarkJobFailedResets(d) ==
    /\ Goto(d, "failing", "release")
    /\ JobWrite(d, "failed", 0)
    /\ UNCHANGED <<token, disk, request, fetched, sem, now, sweep, reader, issued, crashes>>

MarkJobFailed(d) ==
    /\ Goto(d, "failing", "release")
    /\ JobWrite(d, "failed", job[d].progress)
    /\ UNCHANGED <<token, disk, request, fetched, sem, now, sweep, reader, issued, crashes>>

\* Mutant: the deferred release is missing.
ReleaseForgotten(d) ==
    /\ Goto(d, "release", "end")
    /\ UNCHANGED <<rows, disk, request, fetched, sem, now, sweep, reader, issued, crashes>>

Release(d) ==
    /\ Goto(d, "release", "end")
    /\ sem' = sem \ {d}
    /\ UNCHANGED <<rows, disk, request, fetched, now, sweep, reader, issued, crashes>>

-----------------------------------------------------------------------------
(***************************************************************************)
(* GET /files/{token}/{filename}: the token is checked, then the file is   *)
(* opened.  The link is known from the SSE event as soon as it is issued.  *)
(***************************************************************************)
TokenValid(d) == token[d] # 0 /\ token[d] >= now

CheckToken(d) ==
    /\ reader[d] = "none"
    /\ TokenValid(d)
    /\ reader' = [reader EXCEPT ![d] = "checked"]
    /\ UNCHANGED <<rows, disk, request, run, sem, now, sweep, issued, crashes>>

ServeFile(d) ==
    /\ reader[d] = "checked"
    /\ reader' = [reader EXCEPT ![d] = IF file[ArtifactOf[d]] \in {"partial", "whole"}
                                       THEN file[ArtifactOf[d]] ELSE "missing"]
    /\ UNCHANGED <<rows, disk, request, run, sem, now, sweep, issued, crashes>>

-----------------------------------------------------------------------------
(***************************************************************************)
(* Cleaner.sweep: SELECT, DELETE, then per artifact COUNT and RemoveAll,   *)
(* each a call of its own.                                                 *)
(***************************************************************************)
Tick ==
    /\ now < MaxTime
    /\ now' = now + 1
    /\ UNCHANGED <<rows, disk, request, run, sem, sweep, reader, issued, crashes>>

Expired(t) == {d \in Downloads : token[d] # 0 /\ token[d] < t}

SelectExpired ==
    /\ cleaner = "idle"
    /\ Expired(now) # {}
    /\ cleaner' = "delete"
    /\ sweepNow' = now
    /\ todo' = {ArtifactOf[d] : d \in Expired(now)}
    /\ UNCHANGED <<rows, disk, request, run, sem, now, target, reader, issued, crashes>>

\* Mutant: expires_at <= now
DeleteUpToNow ==
    /\ cleaner = "delete"
    /\ cleaner' = "count"
    /\ token' = [d \in Downloads |-> IF token[d] <= sweepNow THEN 0 ELSE token[d]]
    /\ UNCHANGED <<job, disk, request, run, sem, now, sweepNow, todo, target,
                   reader, issued, crashes>>

\* A failed DELETE ends the sweep.
DeleteExpired ==
    /\ cleaner = "delete"
    /\ \/ /\ cleaner' = "count"
          /\ token' = [d \in Downloads |-> IF d \in Expired(sweepNow) THEN 0 ELSE token[d]]
          /\ UNCHANGED todo
       \/ /\ Fails("db")
          /\ cleaner' = "idle"
          /\ todo' = {}
          /\ UNCHANGED token
    /\ UNCHANGED <<job, disk, request, run, sem, now, sweepNow, target, reader,
                   issued, crashes>>

\* Mutant: the tokens of every artifact are counted.
LiveAnywhere(a) == {d \in Downloads : token[d] > now}

LiveTokens(a) == {d \in Downloads : ArtifactOf[d] = a /\ token[d] > now}

CountTokens ==
    /\ cleaner = "count"
    /\ \E a \in todo :
          \/ /\ LiveTokens(a) # {} \/ Fails("db")
             /\ todo' = todo \ {a}
             /\ UNCHANGED <<cleaner, target>>
          \/ /\ LiveTokens(a) = {}
             /\ cleaner' = "remove"
             /\ target' = a
             /\ UNCHANGED todo
    /\ UNCHANGED <<rows, disk, request, run, sem, now, sweepNow, reader, issued, crashes>>

RemoveDir ==
    /\ cleaner = "remove"
    /\ cleaner' = "count"
    /\ todo' = todo \ {target}
    /\ target' = None
    /\ \/ /\ file' = [file EXCEPT ![target] = "none"]
          /\ writer' = [writer EXCEPT ![target] = None]
       \/ Fails("disk") /\ UNCHANGED disk
    /\ UNCHANGED <<rows, request, run, sem, now, sweepNow, reader, issued, crashes>>

EndSweep ==
    /\ cleaner = "count"
    /\ todo = {}
    /\ cleaner' = "idle"
    /\ UNCHANGED <<rows, disk, request, run, sem, now, sweepNow, todo, target,
                   reader, issued, crashes>>

-----------------------------------------------------------------------------
Crash ==
    /\ crashes < MaxCrashes
    /\ crashes' = crashes + 1
    /\ pc' = [d \in Downloads |-> IF pc[d] \in {"none", "end"} THEN pc[d] ELSE "gone"]
    /\ handler' = [d \in Downloads |-> IF handler[d] = "idle" THEN "idle" ELSE "returned"]
    /\ ctx' = [d \in Downloads |-> IF handler[d] = "idle" THEN ctx[d] ELSE "cancelled"]
    /\ fetched' = [d \in Downloads |-> 0]
    /\ reader' = [d \in Downloads |-> IF reader[d] = "checked" THEN "none" ELSE reader[d]]
    /\ sem' = {}
    /\ cleaner' = "idle" /\ todo' = {} /\ target' = None
    /\ UNCHANGED <<rows, disk, now, sweepNow, issued>>

Handle(d) == Request(d) \/ TakeSlot(d) \/ Answer(d)

Run(d) == \/ Start(d)
          \/ ReadNZB(d)
          \/ FetchSegment(d)
          \/ FetchFails(d)
          \/ MakeDir(d)
          \/ OpenFile(d)
          \/ WriteFile(d)
          \/ InsertDownloadToken(d)
          \/ Done(d)
          \/ MarkJobFailed(d)
          \/ Release(d)

Read(d) == CheckToken(d) \/ ServeFile(d)

Sweep == SelectExpired \/ DeleteExpired \/ CountTokens \/ RemoveDir \/ EndSweep

Next == \/ \E d \in Downloads : Handle(d) \/ Disconnect(d) \/ Run(d) \/ Read(d)
        \/ Sweep
        \/ Tick
        \/ Crash

Spec == Init /\ [][Next]_vars

(***************************************************************************)
(* Goroutines that can move are scheduled, the clock runs, and the ticker  *)
(* of the Cleaner fires every Interval.                                    *)
(***************************************************************************)
Fairness == /\ \A d \in Downloads : /\ WF_vars(TakeSlot(d))
                                    /\ WF_vars(Answer(d))
                                    /\ WF_vars(Run(d))
            /\ WF_vars(Sweep)

FairSpec == Spec /\ Fairness

-----------------------------------------------------------------------------
\* The type invariant.
TypeOK ==
    /\ job \in [Downloads -> [status : {"absent", "queued", "running", "done", "failed"},
                              progress : 0 .. 100]]
    /\ token \in [Downloads -> 0 .. MaxTime + TTL]
    /\ file \in [Artifacts -> {"none", "empty", "partial", "whole"}]
    /\ writer \in [Artifacts -> Downloads \cup {None}]
    /\ handler \in [Downloads -> {"idle", "slot", "answer", "returned"}]
    /\ ctx \in [Downloads -> {"live", "cancelled"}]
    /\ pc \in [Downloads -> {"none", "start", "read", "fetch", "open", "write", "token",
                             "done", "failing", "release", "end", "gone"}]
    /\ fetched \in [Downloads -> Nat] /\ \A d \in Downloads : fetched[d] <= Segments[d]
    /\ sem \subseteq Downloads /\ Cardinality(sem) <= Slots
    /\ now \in 1 .. MaxTime
    /\ cleaner \in {"idle", "delete", "count", "remove"}
    /\ sweepNow \in 0 .. now
    /\ todo \subseteq Artifacts
    /\ target \in Artifacts \cup {None}
    /\ reader \in [Downloads -> {"none", "checked", "whole", "partial", "missing"}]
    /\ issued \subseteq Downloads
    /\ crashes \in 0 .. MaxCrashes

\* A client that polls and finds done can rely on a token having been stored,
\* whatever failed or was cancelled before (Run's order and its error returns).
DoneHasToken == \A d \in Downloads : job[d].status = "done" => d \in issued

\* A token is deleted only when serveFile would no longer accept it: the
\* sweep's boundary and the handler's are the same second.
TokenLivesItsTTL ==
    [][\A d \in Downloads : token[d] # 0 /\ token'[d] = 0 => token[d] < now]_vars

statusColumn   == [d \in Downloads |-> job[d].status]
progressColumn == [d \in Downloads |-> job[d].progress]

\* Whatever fails and however the context ends under it, the job row is at
\* worst stuck: nothing that a client saw of the job is undone.
Lifecycle == INSTANCE JobLifecycle WITH
                 Jobs     <- Downloads,
                 status   <- statusColumn,
                 progress <- progressColumn

FollowsLifecycle == Lifecycle!Spec

Alone(d) == \A e \in Downloads : ArtifactOf[e] = ArtifactOf[d] => e = d

\* The link of the only download of an artifact serves the whole file, unless
\* the token ran out between serveFile's check and its open.
SoleLinkServesWhole ==
    \A d \in Downloads :
        Alone(d) => /\ reader[d] # "partial"
                    /\ reader[d] = "missing" => token[d] = 0

\* Every request is answered and every goroutine it started ends.
RequestsEnd ==
    \A d \in Downloads : handler[d] = "slot" ~> handler[d] = "returned" /\ pc[d] = "end"

\* A file whose token has expired is removed, unless another token still
\* keeps it: "removes files whose download token has expired" (files.go).
ExpiredFilesGo ==
    \A d \in Downloads :
        d \in Expired(now) ~>
            \/ file[ArtifactOf[d]] = "none"
            \/ \E e \in Downloads : ArtifactOf[e] = ArtifactOf[d] /\ TokenValid(e)

(***************************************************************************)
(* The inductive invariant: what each place of the goroutine and of the    *)
(* sweep implies about the rows, the tokens and the files.                 *)
(***************************************************************************)
Working == {"start", "read", "fetch", "open", "write", "token", "done", "failing"}

\* The job's row, whose updates may be lost, follows the handler and Run.
JobInv(d) ==
    /\ handler[d] = "idle" <=> job[d].status = "absent"
    /\ handler[d] \in {"idle", "slot"} => pc[d] = "none"
    /\ pc[d] \in {"none", "start"} => job[d].status \in {"absent", "queued"}
    /\ pc[d] \in {"none", "start", "read"} => job[d].progress = 0
    /\ pc[d] \in Working => job[d].status \in {"queued", "running"}
    /\ pc[d] = "fetch" => job[d].progress <= Share(fetched[d], Segments[d])

\* A token is stored once, after everything that may fail in Run.
TokenInv(d) ==
    /\ token[d] # 0 => d \in issued
    /\ d \in issued => pc[d] \in {"done", "release", "end", "gone"}
    /\ pc[d] = "done" \/ job[d].status = "done" => d \in issued
    /\ reader[d] # "none" => d \in issued

\* The only download of an artifact: nobody else writes its file, and the
\* sweep looks at the artifact only when the token is on its way out.
SoleInv(d) ==
    LET a == ArtifactOf[d] IN
    /\ pc[d] = "write" => file[a] = "partial" /\ writer[a] = d
    /\ pc[d] = "token" => file[a] = "whole"
    /\ d \in issued => file[a] \in {"whole", "none"}
    /\ token[d] # 0 => file[a] = "whole"
    /\ a \in todo => d \in issued
    /\ a \in todo /\ cleaner = "delete" => token[d] < sweepNow
    /\ a \in todo /\ cleaner \in {"count", "remove"} => token[d] = 0
    /\ reader[d] # "partial"
    /\ reader[d] = "missing" => token[d] = 0

SweepInv == /\ cleaner = "idle" => todo = {}
            /\ cleaner = "remove" => target \in todo

\* No slot is leaked and none is held twice.
SlotsHeld == /\ sem = {d \in Downloads : pc[d] \in Working \cup {"release"}}
             /\ IsFiniteSet(sem)

\* Rows, tokens, files, slots and the sweep fit together whatever fails and
\* however downloads, clients, the sweep and a crash interleave.
Inv == /\ TypeOK
       /\ \A d \in Downloads : /\ JobInv(d)
                               /\ TokenInv(d)
                               /\ Alone(d) => SoleInv(d)
       /\ SweepInv
       /\ SlotsHeld

(***************************************************************************)
(* What the repository says and the code does not do.                      *)
(***************************************************************************)

\* A stream opened later shows "the latest picture" (helpers.go) read from the
\* row: a download whose goroutine has ended shows done or failed.
EndReachesRow ==
    \A d \in Downloads : pc[d] = "end" => job[d].status \in {"done", "failed"}

\* The directory goes only "if no other valid token references that artifact"
\* (files.go): a token serveFile accepts has its file.
ValidTokenHasFile ==
    \A d \in Downloads : TokenValid(d) => file[ArtifactOf[d]] \in {"partial", "whole"}
=============================================================================
