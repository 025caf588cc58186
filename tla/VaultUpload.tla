----------------------------- MODULE VaultUpload -----------------------------
(***************************************************************************)
(* The paid upload of ol1n-vault, from POST /upload/init to a finished     *)
(* upload job: the init handler, the NOWPayments webhook, the detached     *)
(* StartFromPaymentConfirm goroutine, the worker that bounds the jobs that *)
(* run together, UploadJob.Run, and the life of the process around them    *)
(* (crash, SIGTERM, restart).                                              *)
(*                                                                         *)
(* An upload u stands for one /upload/init request: the job id it          *)
(* generates, the artifact row first stored under that id and the invoice  *)
(* created for it.  SQLite, the file system, the UseNet provider and       *)
(* NOWPayments are external; Faults says which of them may fail a call.    *)
(***************************************************************************)
EXTENDS Naturals, FiniteSets

CONSTANTS
    Uploads,      \* the /upload/init requests
    Parts,        \* Parts[u]: the number of segments SplitSegments cuts u into
    Slots,        \* capacity of Worker.sem
    ForeignKeys,  \* TRUE: SQLite enforces REFERENCES (db.go's DSN asks for it)
    Faults,       \* the kinds of external call that may fail
    MaxStops      \* bound on the number of crashes and shutdowns

FaultKinds == {"disk", "invoice", "db", "nntp"}

ASSUME PartsAssumption  == Parts \in [Uploads -> Nat]
ASSUME SlotsAssumption  == Slots \in Nat \ {0}
ASSUME FaultsAssumption == Faults \subseteq FaultKinds
ASSUME StopsAssumption  == MaxStops \in Nat

(***************************************************************************)
(* A payment's statuses, in the order NOWPayments can announce them.       *)
(***************************************************************************)
PayStatus == {"waiting", "confirming", "confirmed", "sending", "finished",
              "failed", "expired"}

NextPayStatus(s) ==
    CASE s = "none"       -> {"waiting"}
      [] s = "waiting"    -> {"confirming", "expired"}
      [] s = "confirming" -> {"confirmed", "failed"}
      [] s = "confirmed"  -> {"sending"}
      [] s = "sending"    -> {"finished"}
      [] OTHER            -> {}

\* Mutant: releases the upload before the funds are secured.
IsConfirmingToo(s) == s \in {"confirming", "confirmed", "finished", "sending"}

IsTerminalConfirmed(s) == s \in {"confirmed", "finished", "sending"}

VARIABLES
    \* Durable: the SQLite rows and the files.
    artifact,   \* row of the artifact: status, payment_status, id
    job,        \* row of the job: status, progress, artifact_id
    tmp,        \* uploads whose file is complete in TmpDir
    nzb,        \* nzb[u]: number of segments the NZB on disk lists (0: no file)
    \* Outside the process: NOWPayments.
    invoice,    \* the payment's current status
    announced,  \* statuses for which an IPN may arrive, now or again
    \* Volatile: the goroutines of the process.
    handler,    \* where initUpload is
    pc,         \* where StartFromPaymentConfirm, Submit and Run are
    posted,     \* len(segments) in Run
    sem,        \* uploads whose goroutine holds a slot of Worker.sem
    wg,         \* uploads counted by Worker.wg
    proc,       \* the process
    \* Bookkeeping.
    starts,     \* history: how often the webhook started an upload goroutine
    stops       \* crashes and shutdowns so far

rows     == <<artifact, job>>
disk     == <<tmp, nzb>>
outside  == <<invoice, announced>>
pool     == <<sem, wg>>
process  == <<proc, stops>>
vars == <<artifact, job, tmp, nzb, invoice, announced, handler, pc, posted,
          sem, wg, proc, starts, stops>>

\* Shutdown lets requests that were accepted go on, and main's deferred calls
\* run beside every goroutine that is left.
Alive == proc \in {"up", "shutdown", "wait", "woken", "closing", "closed"}

Fails(kind) == kind \in Faults

\* A statement is executed until main's deferred db.Close, and may fail before.
DbOpen  == proc # "closed"
DbFails == Fails("db") \/ ~DbOpen

(***************************************************************************)
(* Where a goroutine is.  Pending: before wg.Add.  Working: between wg.Add *)
(* and the deferred wg.Done.                                               *)
(***************************************************************************)
Pending == {"lookup", "slot", "add"}
Working == {"start", "read", "post", "nzb", "promote", "unlink", "done",
            "relabel", "failing", "release", "wgdone"}
HoldsSlot == (Working \cup {"add"}) \ {"wgdone"}

NoArtifact == [status |-> "absent", pay |-> "none", id |-> "job"]
NoJob      == [status |-> "absent", progress |-> 0, ref |-> "job"]

Init ==
    /\ artifact  = [u \in Uploads |-> NoArtifact]
    /\ job       = [u \in Uploads |-> NoJob]
    /\ tmp       = {}
    /\ nzb       = [u \in Uploads |-> 0]
    /\ invoice   = [u \in Uploads |-> "none"]
    /\ announced = [u \in Uploads |-> {}]
    /\ handler   = [u \in Uploads |-> "idle"]
    /\ pc        = [u \in Uploads |-> "none"]
    /\ posted    = [u \in Uploads |-> 0]
    /\ sem = {}
    /\ wg  = {}
    /\ proc   = "up"
    /\ starts = [u \in Uploads |-> 0]
    /\ stops  = 0

-----------------------------------------------------------------------------
(***************************************************************************)
(* POST /upload/init.  Each step ends at an external call, so that a crash *)
(* or a failed call can fall between any two of them.                      *)
(***************************************************************************)

\* A bad multipart, a file over maxUploadSize or a failed write: no file stays.
ReceiveFile(u) ==
    /\ Alive
    /\ handler[u] = "idle"
    /\ \/ /\ tmp' = tmp \cup {u}
          /\ handler' = [handler EXCEPT ![u] = "invoice"]
       \/ /\ handler' = [handler EXCEPT ![u] = "refused"]
          /\ UNCHANGED tmp
    /\ UNCHANGED <<rows, nzb, outside, pc, posted, pool, process, starts>>

\* The error returns of initUpload after the file is written.
RefuseInit(u) ==
    /\ tmp' = tmp \ {u}
    /\ handler' = [handler EXCEPT ![u] = "refused"]
    /\ UNCHANGED rows

CreateInvoice(u) ==
    /\ Alive
    /\ handler[u] = "invoice"
    /\ \/ /\ handler' = [handler EXCEPT ![u] = "artifact"]
          /\ UNCHANGED <<rows, tmp>>
       \/ Fails("invoice") /\ RefuseInit(u)
    /\ UNCHANGED <<nzb, outside, pc, posted, pool, process, starts>>

InsertArtifactPending(u) ==
    /\ Alive
    /\ handler[u] = "artifact"
    /\ \/ /\ DbOpen
          /\ artifact' = [artifact EXCEPT ![u] =
                             [NoArtifact EXCEPT !.status = "pending_payment"]]
          /\ handler' = [handler EXCEPT ![u] = "job"]
          /\ UNCHANGED <<job, tmp>>
       \/ DbFails /\ RefuseInit(u)
    /\ UNCHANGED <<nzb, outside, pc, posted, pool, process, starts>>

\* The last step also answers the client: only now is the payment URL known.
InsertJob(u) ==
    /\ Alive
    /\ handler[u] = "job"
    /\ \/ /\ DbOpen
          /\ job' = [job EXCEPT ![u] = [NoJob EXCEPT !.status = "queued"]]
          /\ handler' = [handler EXCEPT ![u] = "answered"]
          /\ UNCHANGED <<artifact, tmp>>
       \/ DbFails /\ RefuseInit(u)
    /\ UNCHANGED <<nzb, outside, pc, posted, pool, process, starts>>

-----------------------------------------------------------------------------
(***************************************************************************)
(* NOWPayments (external): the payment moves on and every status it passes *)
(* stays announced, because an IPN may be late, repeated or out of order.  *)
(***************************************************************************)
PaymentMoves(u) ==
    /\ handler[u] = "answered"
    /\ \E s \in NextPayStatus(invoice[u]) :
          /\ invoice' = [invoice EXCEPT ![u] = s]
          /\ announced' = [announced EXCEPT ![u] = @ \cup {s}]
    /\ UNCHANGED <<rows, disk, handler, pc, posted, pool, process, starts>>

(***************************************************************************)
(* POST /upload/payment-confirm.  A database error leaves the row alone,   *)
(* which is a step that changes nothing.  After SIGTERM this is a request  *)
(* that was accepted before.                                               *)
(***************************************************************************)
\* Mutant: a late IPN takes the row back to pending_payment.
UpdateResetsStatus(u, s) ==
    /\ artifact' = [artifact EXCEPT ![u].pay = s, ![u].status = "pending_payment"]
    /\ UNCHANGED <<pc, starts>>

UpdateArtifactPaymentStatus(u, s) ==
    /\ artifact' = [artifact EXCEPT ![u].pay = s]
    /\ UNCHANGED <<pc, starts>>

\* Mutant: the UPDATE without "AND status = 'pending_payment'".
AdvancesAlways(u) == artifact[u].status # "absent"

CanAdvance(u) == artifact[u].status = "pending_payment"

\* The conditional UPDATE and, when it changed a row, the goroutine it starts.
MarkPaymentConfirmed(u, s) ==
    \/ /\ CanAdvance(u)
       /\ artifact' = [artifact EXCEPT ![u].status = "uploading", ![u].pay = s]
       /\ pc' = [pc EXCEPT ![u] = "lookup"]
       /\ starts' = [starts EXCEPT ![u] = @ + 1]
    \/ /\ ~CanAdvance(u)
       /\ UNCHANGED <<artifact, pc, starts>>

PaymentConfirm(u, s) ==
    /\ Alive
    /\ DbOpen
    /\ s \in announced[u]
    /\ IF IsTerminalConfirmed(s)
         THEN MarkPaymentConfirmed(u, s)
         ELSE UpdateArtifactPaymentStatus(u, s)
    /\ UNCHANGED <<job, disk, outside, handler, posted, pool, process>>

-----------------------------------------------------------------------------
(***************************************************************************)
(* The detached goroutine: StartFromPaymentConfirm, then Worker.Submit.    *)
(***************************************************************************)
Goto(u, from, to) ==
    /\ Alive
    /\ pc[u] = from
    /\ pc' = [pc EXCEPT ![u] = to]

\* The two SELECTs find the artifact by payment and the job by artifact.
Lookup(u) ==
    /\ \/ /\ DbOpen
          /\ job[u].status # "absent"
          /\ job[u].ref = artifact[u].id
          /\ Goto(u, "lookup", "slot")
       \/ /\ \/ job[u].status = "absent"
             \/ job[u].ref # artifact[u].id
             \/ DbFails
          /\ Goto(u, "lookup", "gone")
    /\ UNCHANGED <<rows, disk, outside, handler, posted, pool, process, starts>>

SlotFree == Cardinality(sem) < Slots

TakeSlot(u) ==
    /\ Goto(u, "slot", "add")
    /\ SlotFree
    /\ sem' = sem \cup {u}
    /\ UNCHANGED <<rows, disk, outside, handler, posted, wg, process, starts>>

\* Mutant: wg.Add forgotten.
WgAddForgotten(u) ==
    /\ Goto(u, "add", "start")
    /\ UNCHANGED <<rows, disk, outside, handler, posted, pool, process, starts>>

WgAdd(u) ==
    /\ Goto(u, "add", "start")
    /\ wg' = wg \cup {u}
    /\ UNCHANGED <<rows, disk, outside, handler, posted, sem, process, starts>>

(***************************************************************************)
(* The worker goroutine.  Its row updates ignore the error (_ = ...).      *)
(***************************************************************************)
JobWrite(row) ==
    \/ DbOpen /\ job' = row
    \/ DbFails /\ UNCHANGED job

Start(u) ==
    /\ Goto(u, "start", "read")
    /\ JobWrite([job EXCEPT ![u] =
                    [status |-> "running", progress |-> 0, ref |-> @.ref]])
    /\ UNCHANGED <<artifact, disk, outside, handler, posted, pool, process, starts>>

\* ReadFile and SplitSegments: a missing or an empty file fails the job.
ReadTmp(u) ==
    /\ \/ /\ u \in tmp
          /\ Parts[u] > 0
          /\ Goto(u, "read", "post")
       \/ /\ u \notin tmp \/ Parts[u] = 0 \/ Fails("disk")
          /\ Goto(u, "read", "failing")
    /\ posted' = [posted EXCEPT ![u] = 0]
    /\ UNCHANGED <<rows, disk, outside, handler, pool, process, starts>>

\* Mutant: the loop ends one segment early.
AllPostedEarly(u) == posted[u] + 1 >= Parts[u]

AllPosted(u) == posted[u] = Parts[u]

\* int(float64(n) / float64(total) * 95.0), up to the float's rounding
Percent(n, total) == (95 * n) \div total

PostPart(u) ==
    /\ ~AllPosted(u)
    /\ Goto(u, "post", "post")
    /\ posted' = [posted EXCEPT ![u] = @ + 1]
    /\ JobWrite([job EXCEPT ![u].progress = Percent(posted[u] + 1, Parts[u])])
    /\ UNCHANGED <<artifact, disk, outside, handler, pool, process, starts>>

PostFails(u) ==
    /\ Fails("nntp")
    /\ ~AllPosted(u)
    /\ Goto(u, "post", "failing")
    /\ UNCHANGED <<rows, disk, outside, handler, posted, pool, process, starts>>

EndOfParts(u) ==
    /\ AllPosted(u)
    /\ Goto(u, "post", "nzb")
    /\ UNCHANGED <<rows, disk, outside, handler, posted, pool, process, starts>>

\* Mutant: the temp file is removed before the promotion.
WriteNZBRemovesTmp(u) ==
    /\ Goto(u, "nzb", "promote")
    /\ nzb' = [nzb EXCEPT ![u] = posted[u]]
    /\ tmp' = tmp \ {u}
    /\ UNCHANGED <<rows, outside, handler, posted, pool, process, starts>>

WriteNZB(u) ==
    /\ \/ /\ nzb' = [nzb EXCEPT ![u] = posted[u]]
          /\ Goto(u, "nzb", "promote")
       \/ /\ Fails("disk")
          /\ Goto(u, "nzb", "failing")
          /\ UNCHANGED nzb
    /\ UNCHANGED <<rows, tmp, outside, handler, posted, pool, process, starts>>

(***************************************************************************)
(* PromoteArtifactToReady: one transaction of two UPDATEs.  The first one  *)
(* points the job at the hash before any artifact has it for its id, and   *)
(* the schema's REFERENCES is immediate, so an enforcing SQLite fails that *)
(* statement and the transaction rolls back.                               *)
(***************************************************************************)
FirstUpdateDangles(u) == /\ job[u].ref = artifact[u].id
                         /\ artifact[u].id # "hash"

\* Mutant: the job keeps the old artifact id.
PromoteForgetsJob(u) ==
    /\ Goto(u, "promote", "unlink")
    /\ artifact' = [artifact EXCEPT ![u].id = "hash", ![u].status = "ready"]
    /\ UNCHANGED <<job, disk, outside, handler, posted, pool, process, starts>>

PromoteArtifactToReady(u) ==
    /\ \/ /\ DbOpen
          /\ ~(ForeignKeys /\ FirstUpdateDangles(u))
          /\ Goto(u, "promote", "unlink")
          /\ job' = [job EXCEPT ![u].ref = "hash"]
          /\ artifact' = [artifact EXCEPT ![u].id = "hash", ![u].status = "ready"]
       \/ /\ (ForeignKeys /\ FirstUpdateDangles(u)) \/ DbFails
          /\ Goto(u, "promote", "failing")
          /\ UNCHANGED rows
    /\ UNCHANGED <<disk, outside, handler, posted, pool, process, starts>>

\* os.Remove, its error ignored
RemoveTmp(u) ==
    /\ Goto(u, "unlink", "done")
    /\ \/ tmp' = tmp \ {u}
       \/ Fails("disk") /\ UNCHANGED tmp
    /\ UNCHANGED <<rows, nzb, outside, handler, posted, pool, process, starts>>

Done(u) ==
    /\ Goto(u, "done", "relabel")
    /\ JobWrite([job EXCEPT ![u] =
                    [status |-> "done", progress |-> 100, ref |-> @.ref]])
    /\ UNCHANGED <<artifact, disk, outside, handler, posted, pool, process, starts>>

\* Mutant: a failed relabelling is returned as the error of Run.
RelabelMayFailJob(u) ==
    /\ \/ Goto(u, "relabel", "release")
       \/ Goto(u, "relabel", "failing")
    /\ UNCHANGED <<rows, disk, outside, handler, posted, pool, process, starts>>

UpdateJobArtifactID(u) ==
    /\ Goto(u, "relabel", "release")
    /\ JobWrite([job EXCEPT ![u].ref = "hash"])
    /\ UNCHANGED <<artifact, disk, outside, handler, posted, pool, process, starts>>

\* Mutants: the failure path returns before the slot is freed, or says nothing.
MarkJobFailedLeaks(u) ==
    /\ Goto(u, "failing", "wgdone")
    /\ JobWrite([job EXCEPT ![u].status = "failed"])
    /\ UNCHANGED <<artifact, disk, outside, handler, posted, pool, process, starts>>
MarkJobFailedSilent(u) ==
    /\ Goto(u, "failing", "release")
    /\ UNCHANGED <<rows, disk, outside, handler, posted, pool, process, starts>>

MarkJobFailed(u) ==
    /\ Goto(u, "failing", "release")
    /\ JobWrite([job EXCEPT ![u].status = "failed"])
    /\ UNCHANGED <<artifact, disk, outside, handler, posted, pool, process, starts>>

\* Mutant: the deferred wg.Done is missing.
WgNotDone(u) ==
    /\ Goto(u, "wgdone", "end")
    /\ UNCHANGED <<rows, disk, outside, handler, posted, pool, process, starts>>

\* Deferred calls run last-in first-out: the slot is freed before wg.Done.
ReleaseSlot(u) ==
    /\ Goto(u, "release", "wgdone")
    /\ sem' = sem \ {u}
    /\ UNCHANGED <<rows, disk, outside, handler, posted, wg, process, starts>>

\* The Done that brings the count to zero wakes main, if it is in Wait.
WgDone(u) ==
    /\ Goto(u, "wgdone", "end")
    /\ wg' = wg \ {u}
    /\ proc' = IF proc = "wait" /\ wg' = {} THEN "woken" ELSE proc
    /\ UNCHANGED <<rows, disk, outside, handler, posted, sem, stops, starts>>

-----------------------------------------------------------------------------
(***************************************************************************)
(* The process.  SIGTERM starts srv.Shutdown: no new request is accepted,  *)
(* the ones in flight may finish.  When they have, or 30 seconds later,    *)
(* main waits for wg, then its deferred calls close the NNTP client and    *)
(* the database, and its return ends every goroutine left.  Until then     *)
(* they go on, those too that wg.Add counts only after Wait has returned.  *)
(* A crash or a panic ends them at once.  systemd restarts the program     *)
(* after a failure, an operator after an exit; nothing in main looks at    *)
(* the rows then.                                                          *)
(***************************************************************************)
LoseGoroutines ==
    /\ pc' = [u \in Uploads |->
                IF pc[u] \in {"none", "end"} THEN pc[u] ELSE "gone"]
    /\ handler' = [u \in Uploads |->
                     IF handler[u] \in {"idle", "answered"}
                       THEN handler[u] ELSE "refused"]
    /\ posted' = [u \in Uploads |-> 0]
    /\ sem' = {}
    /\ wg' = {}

Crash ==
    /\ Alive
    /\ stops < MaxStops
    /\ stops' = stops + 1
    /\ proc' = "crashed"
    /\ LoseGoroutines
    /\ UNCHANGED <<rows, disk, outside, starts>>

Shutdown ==
    /\ proc = "up"
    /\ stops < MaxStops
    /\ stops' = stops + 1
    /\ proc' = "shutdown"
    /\ UNCHANGED <<rows, disk, outside, handler, pc, posted, pool, starts>>

\* Mutant: main does not call Wait.
ShutdownReturnsLast ==
    /\ proc = "shutdown"
    /\ proc' = "closing"
    /\ UNCHANGED <<rows, disk, outside, handler, pc, posted, pool, starts, stops>>

\* srv.Shutdown returns: all requests are done, or its 30 seconds are over.
\* Wait returns at once when nothing is counted.
ShutdownReturns ==
    /\ proc = "shutdown"
    /\ proc' = IF wg = {} THEN "closing" ELSE "wait"
    /\ UNCHANGED <<rows, disk, outside, handler, pc, posted, pool, starts, stops>>

Panic ==
    /\ proc' = "crashed"
    /\ LoseGoroutines
    /\ UNCHANGED <<rows, disk, outside, starts, stops>>

\* main runs again.  A WaitGroup that was counted up meanwhile panics ("reused
\* before previous Wait has returned").
WaitReturns ==
    /\ proc = "woken"
    /\ wg = {}
    /\ proc' = "closing"
    /\ UNCHANGED <<rows, disk, outside, handler, pc, posted, pool, starts, stops>>

WaitPanics ==
    /\ proc = "woken"
    /\ wg # {}
    /\ Panic

\* nntpClient.Close closes the channel of tokens first: a job that then needs
\* one sends on it.  One that finds an idle connection still posts (NntpPool).
ClientPanics(u) ==
    /\ proc \in {"closing", "closed"}
    /\ pc[u] = "post"
    /\ ~AllPosted(u)
    /\ Panic

\* The QUITs of nntpClient.Close have returned, and db.Close runs.
CloseDB ==
    /\ proc = "closing"
    /\ proc' = "closed"
    /\ UNCHANGED <<rows, disk, outside, handler, pc, posted, pool, starts, stops>>

Exit ==
    /\ proc = "closed"
    /\ proc' = "exited"
    /\ LoseGoroutines
    /\ UNCHANGED <<rows, disk, outside, starts, stops>>

Restart ==
    /\ proc \in {"crashed", "exited"}
    /\ proc' = "up"
    /\ UNCHANGED <<rows, disk, outside, handler, pc, posted, pool, starts, stops>>

-----------------------------------------------------------------------------
InitUpload(u) == \/ ReceiveFile(u)
                 \/ CreateInvoice(u)
                 \/ InsertArtifactPending(u)
                 \/ InsertJob(u)

StartFromPaymentConfirm(u) == Lookup(u) \/ TakeSlot(u) \/ WgAdd(u)

Run(u) == \/ Start(u)
          \/ ReadTmp(u)
          \/ PostPart(u)
          \/ PostFails(u)
          \/ EndOfParts(u)
          \/ WriteNZB(u)
          \/ PromoteArtifactToReady(u)
          \/ RemoveTmp(u)
          \/ Done(u)
          \/ UpdateJobArtifactID(u)
          \/ MarkJobFailed(u)
          \/ ReleaseSlot(u)
          \/ WgDone(u)

Process == \/ Crash
           \/ Shutdown
           \/ ShutdownReturns
           \/ WaitReturns
           \/ WaitPanics
           \/ CloseDB
           \/ Exit
           \/ Restart

Next == \/ \E u \in Uploads : \/ InitUpload(u)
                              \/ PaymentMoves(u)
                              \/ \E s \in PayStatus : PaymentConfirm(u, s)
                              \/ StartFromPaymentConfirm(u)
                              \/ Run(u)
                              \/ ClientPanics(u)
        \/ Process

Spec == Init /\ [][Next]_vars

(***************************************************************************)
(* The Go scheduler runs every goroutine that can move, main among them,   *)
(* and a slot freed goes to a waiter of Submit (uploads are started at     *)
(* most once, so a waiter cannot be overtaken for ever).                   *)
(***************************************************************************)
Fairness ==
    /\ \A u \in Uploads : /\ WF_vars(StartFromPaymentConfirm(u))
                          /\ WF_vars(Run(u))
    /\ WF_vars(ShutdownReturns)
    /\ WF_vars(WaitReturns \/ WaitPanics)
    /\ WF_vars(CloseDB)
    /\ WF_vars(Exit)

FairSpec == Spec /\ Fairness

-----------------------------------------------------------------------------
ArtifactRow == [status : {"absent", "pending_payment", "uploading", "ready"},
                pay    : PayStatus \cup {"none"},
                id     : {"job", "hash"}]

JobRow == [status   : {"absent", "queued", "running", "done", "failed"},
           progress : 0 .. 100,
           ref      : {"job", "hash"}]

\* The type invariant: every row, file and goroutine is in a state the code
\* can name, and Run never counts more segments than the file has.
TypeOK ==
    /\ artifact \in [Uploads -> ArtifactRow]
    /\ job \in [Uploads -> JobRow]
    /\ tmp \subseteq Uploads
    /\ nzb \in [Uploads -> Nat]
    /\ invoice \in [Uploads -> PayStatus \cup {"none"}]
    /\ announced \in [Uploads -> SUBSET PayStatus]
    /\ handler \in [Uploads -> {"idle", "invoice", "artifact", "job",
                                "answered", "refused"}]
    /\ pc \in [Uploads -> Pending \cup Working \cup {"none", "end", "gone"}]
    /\ posted \in [Uploads -> Nat]
    /\ \A u \in Uploads : posted[u] <= Parts[u]
    /\ sem \subseteq Uploads
    /\ wg \subseteq Uploads
    /\ proc \in {"up", "shutdown", "wait", "woken", "closing", "closed",
                "exited", "crashed"}
    /\ starts \in [Uploads -> Nat]
    /\ stops \in 0 .. MaxStops

(***************************************************************************)
(* Safety.                                                                 *)
(***************************************************************************)

\* However often, late or out of order the webhook is called, and whatever
\* crashes in between, an upload is started at most once (the status guard of
\* MarkPaymentConfirmed).
StartedOnce == \A u \in Uploads : starts[u] <= 1

\* Nothing is posted to UseNet before NOWPayments has said that the funds are
\* secured (IsTerminalConfirmed and the order of paymentConfirm).
PaidBeforeUpload ==
    \A u \in Uploads :
        artifact[u].status \in {"uploading", "ready"} =>
            announced[u] \cap {"confirmed", "sending", "finished"} # {}

\* Until its artifact is ready, the file of an upload that was answered stays
\* in TmpDir: no failed step and no crash loses the only copy (Run removes it
\* after the promotion, initUpload only before it answers).
SourceKept ==
    \A u \in Uploads :
        /\ job[u].status # "absent"
        /\ artifact[u].status \in {"pending_payment", "uploading"}
        => u \in tmp

\* A ready artifact is listed by an NZB with every segment of the file, and an
\* empty file never gets there (the posting loop, WriteFile before promotion).
ReadyIsComplete ==
    \A u \in Uploads :
        artifact[u].status = "ready" => nzb[u] = Parts[u] /\ Parts[u] > 0

\* The two rows of an upload agree at every moment a reader can look: the job
\* refers to the artifact's present id, done means ready, failed means not.
RowsAgree ==
    \A u \in Uploads :
        job[u].status # "absent" =>
            /\ artifact[u].status # "absent"
            /\ job[u].ref = artifact[u].id
            /\ job[u].status = "done" => artifact[u].status = "ready"
            /\ job[u].status = "failed" => artifact[u].status = "uploading"

\* No path through Submit and Run leaks or doubles a slot or a wg count: the
\* slots taken are those of the goroutines between Submit and the deferred
\* release, never more than the capacity, and Wait waits for these goroutines.
SlotsConserved ==
    /\ sem = {u \in Uploads : pc[u] \in HoldsSlot}
    /\ wg  = {u \in Uploads : pc[u] \in Working}
    /\ Cardinality(sem) <= Slots

ArtifactRank(s) == CASE s = "absent"          -> 0
                     [] s = "pending_payment" -> 1
                     [] s = "uploading"       -> 2
                     [] s = "ready"           -> 3

\* An artifact never goes back: a late or repeated IPN cannot undo an upload.
ArtifactNeverRegresses ==
    [][\A u \in Uploads :
          ArtifactRank(artifact[u].status) <= ArtifactRank(artifact'[u].status)]_vars

\* Wait has returned when it lets main go on: nothing that wg counted is at work.
\* What the exit then ends had not begun its job (see WaitCoversSubmitted).
WaitDrains ==
    [][proc # "closing" /\ proc' = "closing" =>
          \A u \in Uploads : pc[u] \notin Working]_vars

statusColumn   == [u \in Uploads |-> job[u].status]
progressColumn == [u \in Uploads |-> job[u].progress]

\* The jobs table as a client sees it behaves as JobLifecycle says, through
\* failures of every external call, crashes and restarts.
Lifecycle == INSTANCE JobLifecycle WITH
                 Jobs     <- Uploads,
                 status   <- statusColumn,
                 progress <- progressColumn

FollowsLifecycle == Lifecycle!Spec

(***************************************************************************)
(* Liveness.                                                               *)
(***************************************************************************)

\* A started upload ends, done or failed, unless the process is stopped.
StartedEnds ==
    \A u \in Uploads :
        artifact[u].status = "uploading" ~>
            job[u].status \in {"done", "failed"} \/ stops > 0

\* A job that has begun when SIGTERM arrives is not lost: its row ends done or
\* failed before the process does (no restart would take it up), unless it is
\* killed on top of that.
StopSparesBegun ==
    \A u \in Uploads :
        proc = "shutdown" /\ pc[u] \in Working ~>
            job[u].status \in {"done", "failed"} \/ stops > 1

\* SIGTERM leads to the end of the process, by an exit or by a panic on the way:
\* Wait is not held up by a leaked count.
ShutdownEnds == proc = "shutdown" ~> proc \in {"exited", "crashed"}

(***************************************************************************)
(* The inductive invariant: what each place of the handler and of the      *)
(* goroutine implies about the rows and the files.                         *)
(***************************************************************************)
Secured == {"confirmed", "sending", "finished"}

\* initUpload: the rows follow the handler, and nobody can pay before the end.
HandlerInv(u) ==
    /\ handler[u] \in {"idle", "invoice", "artifact"} => artifact[u].status = "absent"
    /\ handler[u] = "job" => artifact[u].status = "pending_payment"
    /\ handler[u] = "answered" <=> job[u].status # "absent"
    /\ handler[u] = "answered" => artifact[u].status # "absent"
    /\ handler[u] # "answered" =>
          announced[u] = {} /\ artifact[u].status \in {"absent", "pending_payment"}

\* The webhook: the row leaves pending_payment once, paid, with one goroutine.
StartInv(u) ==
    /\ artifact[u].status \in {"absent", "pending_payment"} =>
          starts[u] = 0 /\ pc[u] = "none" /\ job[u].status \in {"absent", "queued"}
    /\ artifact[u].status \in {"uploading", "ready"} =>
          starts[u] = 1 /\ announced[u] \cap Secured # {}

\* Run: the artifact is ready exactly after the promotion.
PhaseInv(u) ==
    /\ artifact[u].id = "hash" <=> artifact[u].status = "ready"
    /\ job[u].ref = artifact[u].id
    /\ pc[u] \in Pending \cup {"start", "read", "post", "nzb", "promote", "failing"} =>
          artifact[u].status = "uploading" /\ job[u].status \in {"queued", "running"}
    /\ pc[u] \in {"unlink", "done", "relabel"} => artifact[u].status = "ready"
    /\ job[u].status = "done" => artifact[u].status = "ready"
    /\ job[u].status = "failed" => artifact[u].status = "uploading"

FileInv(u) ==
    /\ handler[u] \in {"invoice", "artifact", "job"} => u \in tmp
    /\ /\ job[u].status # "absent"
       /\ artifact[u].status \in {"pending_payment", "uploading"}
       => u \in tmp

SegmentInv(u) ==
    /\ pc[u] \in {"post", "nzb", "promote"} => Parts[u] > 0
    /\ pc[u] = "nzb" => posted[u] = Parts[u]
    /\ pc[u] = "promote" => nzb[u] = Parts[u]
    /\ artifact[u].status = "ready" => nzb[u] = Parts[u] /\ Parts[u] > 0

\* The job row: its progress starts at 0 and never passes the segments posted,
\* and nothing ends the row before Done or MarkJobFailed.
ProgressInv(u) ==
    /\ pc[u] \in {"none", "read"} \cup Pending \cup {"start"} => job[u].progress = 0
    /\ pc[u] \in Pending \cup {"start"} => job[u].status = "queued"
    /\ pc[u] = "post" => job[u].progress <= Percent(posted[u], Parts[u])
    /\ pc[u] \in {"unlink", "done"} => job[u].status \in {"queued", "running"}

UploadInv(u) == /\ HandlerInv(u)
                /\ StartInv(u)
                /\ PhaseInv(u)
                /\ FileInv(u)
                /\ SegmentInv(u)
                /\ ProgressInv(u)

\* Each place of a goroutine fixes its rows and files, so the safety
\* properties above follow, and every step keeps this.
Inv == /\ TypeOK
       /\ \A u \in Uploads : UploadInv(u)
       /\ SlotsConserved
       /\ IsFiniteSet(sem)

(***************************************************************************)
(* What the repository says and the code does not do.                      *)
(***************************************************************************)

\* "UPDATE artifacts: status=ready" ends the flow of a file that was paid for
\* and posted (02-PLAN-VAULT.md, step 18): with no failing call, no job of a
\* non-empty file fails.
NoSpuriousFailure ==
    Faults = {} => \A u \in Uploads : Parts[u] > 0 => job[u].status # "failed"

\* A repeated webhook is a "safe no-op" (upload.go): while it is answered as
\* one, the upload is still under way or has ended.
RepeatIsSafe ==
    \A u \in Uploads :
        /\ proc = "up"
        /\ artifact[u].status = "uploading"
        => \/ pc[u] \in Pending \cup Working
           \/ job[u].status \in {"done", "failed"}

\* "Wait blocks until all submitted jobs have completed" (worker.go): when it
\* returns, no goroutine is in Submit or beyond.
WaitCoversSubmitted ==
    [][proc # "closing" /\ proc' = "closing" =>
          \A u \in Uploads : pc[u] \notin {"slot", "add"} \cup Working]_vars

\* "Useful for graceful shutdown" (worker.go): after SIGTERM nothing panics.
StopIsClean == [][~(WaitPanics \/ \E u \in Uploads : ClientPanics(u))]_vars
=============================================================================
