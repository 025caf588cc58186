# Verification of Ol1nSuperApp

TLA+ models of the programs in this repository, TLC configurations that check
them on small instances, and TLAPS proofs of what holds for every size.

    tlc -config MCVaultUploadSafety.cfg MCVaultUpload    # one run
    tlapm VaultUploadProofs.tla                          # one set of proofs

`PROJECT.json` lists the components, the runs, for every property a mutation of
the model that breaks it, the source lines behind every definition, the
findings, the hazards and the theorems.

## 1. The system

Three programs live in the repository.

**ol1n-vault** (Go) stores files on UseNet for a payment in a cryptocurrency.
**superol1n** (Go) is a gateway to Sonarr, Radarr, SABnzbd and an AI model.
**superol1n_app** (Flutter) is the client of both.

### 1.1 ol1n-vault

| component | state | operations | talks to |
|---|---|---|---|
| upload handler (`handler/upload.go`) | none of its own | `initUpload`, `paymentConfirm`, `status` | NOWPayments, SQLite, TmpDir; starts a detached goroutine |
| payment (`payment/*.go`) | none | `CreateInvoice`, `Verify`, `IsTerminalConfirmed` | NOWPayments |
| worker (`jobs/worker.go`) | `sem` (slots), `wg` | `Submit`, `Progress`, `Done`, `Wait` | job rows, broker |
| upload job (`jobs/upload_job.go`) | local to the goroutine | `StartFromPaymentConfirm`, `Run` | TmpDir, NNTP, NZBDir, SQLite |
| download handler (`handler/download.go`) | none | `request`, `serveFile`, `status` | worker, SQLite, FilesDir |
| download job (`jobs/download_job.go`) | local | `Run` | NZBDir, NNTP, FilesDir, SQLite |
| cleaner (`storage/files.go`) | none | `sweep`, hourly | tokens, FilesDir |
| NNTP client (`nntp/client.go`) | `idle`, `sema`, per connection `dead` | `acquire`, `release`, `PostArticle`, `FetchBody`, `Close` | the provider |
| codecs (`nntp/yenc.go`, `nntp/nzb.go`) | none | encode, decode | |
| broker (`sse/broker.go`) | `subs` | `Subscribe`, `cancel`, `Publish` | streams |
| status stream (`handler/helpers.go`) | local | `streamJobStatus` | broker, job rows, client |
| database (`db/*.go`) | artifacts, jobs, download_tokens | one statement or transaction each | |
| process (`cmd/vault/main.go`, systemd unit) | | start, SIGTERM, exit, restart | everything |

How an upload goes: `initUpload` writes the file to TmpDir, creates an invoice
and inserts an artifact (`pending_payment`) and a job (`queued`).  NOWPayments
calls `paymentConfirm`, as often as it likes and in any order; the first
confirmation moves the artifact to `uploading` by a conditional UPDATE and
starts a goroutine, which waits for a slot, posts every segment, writes the NZB
and promotes the artifact to `ready` under its content hash.  A download is a
job as well, but it runs under the context of the request; it writes a file and
a token, and the cleaner removes both after the token has expired.  Progress
goes to the job's row and then to the broker.

What is hard: several goroutines around four kinds of durable state (rows, temp
files, NZBs, served files) with no transaction across them; a webhook that is
repeated, late and reordered; a process that may die anywhere; two nested
limits (slots, connections); contexts that end under a job; checks and actions
split by a lock or a call (`Publish` and `cancel`, COUNT and RemoveAll).

What makes it correct: an upload starts once, only when paid, is never lost and
is ready only when complete; rows agree with each other; slots and tokens are
conserved; a link serves its file while its token lives; a stream tells the
truth, in order, and ends.

### 1.2 superol1n

| component | state | operations |
|---|---|---|
| events hub (`modules/events`) | `clients` | `Subscribe`, `Unsubscribe`, `Broadcast`; websocket handler, webhooks |
| authentication (`gateway/middleware/auth.go`) | JWKS cache | LAN key, JWT with a cached key set |
| handler chain (`gateway/server.go`, `logger.go`, `cors.go`) | none | Logger, CORS, Auth, mux |
| AI chat (`modules/ai`, `db/sqlite.go`) | conversations, messages | `Chat` (stream), `saveConversation`, `Models` |
| proxies (`modules/sonarr`, `radarr`, `sabnzbd`) | none | one upstream request each |

Hard: the cache is checked and refreshed under two separate locks; `Chat` needs
a Flusher through a wrapper that hides it; every question saves the whole
history again, row by row, beside the handler of a question that was given up;
the hub closes channels outside its lock.

Correct: no broadcast meets a closed channel or waits for a client, channels of
dead connections leave the hub, what the app was shown of a conversation is in
the database, and who may pass Auth is served.

### 1.3 superol1n_app

| component | state | operations |
|---|---|---|
| `WebSocketService`, `EventsProvider` | channel, last 200 events | connect, reconnect after 5 s, dispose |
| `AiProvider` | messages, streaming buffer | `sendMessage`, `newConversation` |
| `DownloadsProvider`, `MediaProvider` | lists and flags | load, search, pause, resume, delete |
| screens, theme, platform runners | | layout |

Hard: asynchronous answers applied in the order they arrive; a conversation
replaced while an answer streams; two callbacks that both reconnect.

Correct: answers stand under their questions, the app can always ask again,
and it keeps one way to its events, and one more for every attempt to connect
that failed.

## 2. Modules

| module | models | status |
|---|---|---|
| `JobLifecycle` | abstract: what the jobs table promises a client | checked, proved of both its implementations |
| `VaultUpload`, `MCVaultUpload`, `VaultUploadProofs` | 1.1 upload handler, webhook, worker, upload job, process | checked, proved |
| `NntpPool`, `NntpPoolProofs` | NNTP client pool | checked, proved |
| `VaultDownload`, `MCVaultDownload`, `VaultDownloadProofs` | download handler, download job, `serveFile`, cleaner | checked, proved |
| `SseBroker`, `SseBrokerProofs` | broker, status streams, the worker as publisher | checked, proved |
| `Articles`, `ArticlesProofs` | `SplitSegments`, yEnc, the loops of the upload and the download over segments, a provider that loses things | checked, proved |
| `EventsHub`, `EventsHubProofs` | hub, websocket handler and webhooks, composed with the app's socket and list of events | checked, proved |
| `AiChat`, `AiChatProofs` | `AiProvider`, composed with `Chat`, `saveConversation` and NIM | checked, proved |
| `Gateway` | Logger, CORS, Auth and its cache of keys, mux | checked (violations) |
| `SequenceLemmas` | what Append, Tail, `\o` and RemoveAt do to the elements and the order of a queue | proved |

"Proved" is about safety; section 5 says what is left to TLC.

### 2.1 JobLifecycle

The abstract specification of a job's row: absent, queued, running with a
progress that only grows, done at 100 or failed where it stood, once.  Updates
may be lost (the worker ignores their errors), so a status may be skipped; what
a client saw is never undone.  `VaultUpload` and `VaultDownload` each implement
it (`FollowsLifecycle`, an INSTANCE with a refinement mapping).

### 2.2 VaultUpload

An upload `u` is one `/upload/init` request.  `artifact[u]` and `job[u]` are
its rows, `tmp` and `nzb` its files, `invoice[u]` and `announced[u]` what
NOWPayments knows and may announce, `handler[u]` the position of `initUpload`
and `pc[u]` that of the goroutine from `StartFromPaymentConfirm` to the deferred
calls of `Submit`; `sem` and `wg` are the sets of uploads that hold a slot or a
count.  The content hash is the value `"hash"` of the field `id`.

Every action ends at one external call, so that a failure or a crash can fall
between any two.  `Faults` says which calls may fail; a failed row update of
the worker is the second disjunct of `JobWrite`, as the code drops the error.
`PaymentConfirm` may take any status ever announced: late, repeated and
reordered IPNs.  `ForeignKeys` says whether SQLite enforces REFERENCES, because
what happens in the promotion turns on it: `db.go` asks for it in the DSN.

`Crash` loses every goroutine at any moment.  The end of `main` is `proc`:
`"up"`, `"shutdown"` from the signal until `srv.Shutdown` returns, `"wait"` in
`Worker.Wait`, `"woken"` when the count has reached zero and `main` has not run
yet, `"closing"` in the deferred `nntpClient.Close`, `"closed"` from `db.Close`
on, `"exited"`.  Nothing else stops for that: requests that were accepted go on
(`Shutdown` gives up after 30 seconds), and so do webhooks and goroutines, up to
`Exit` (`Alive`).  A goroutine that waited for a slot can therefore be counted
and begin its job after `Wait` has returned.  Then it ends in one of four ways:
it finishes in time; the process exits under it; it needs a connection token and
sends on the closed channel (`ClientPanics`); or its statements fail on the
closed database (`DbFails`).  If it is counted while `main` is still in `Wait`,
`Wait` panics (`WaitPanics`).  `ClientPanics` may also not happen, as a job that
finds an idle connection needs no token; `NntpPool` has that in detail.

Abstractions.  The file is the number of its segments (`Parts[u]`, 0 for an
empty file); the float in the percentage is an integer division.  The id of an
IPN's payment is taken to be the one `CreateInvoice` stored.  Two uploads never
share a hash, as NZBs contain random message ids.  IPN signatures are assumed
verified.

Checked (`MCVaultUploadSafety`, two uploads, one of two segments and one empty,
one slot, all faults, one stop; the payment of the empty file is followed until
its confirmation, see `ShortIfEmpty` in section 3):
`StartedOnce`, `PaidBeforeUpload`, `SourceKept` (the only copy of a file is
never lost), `ReadyIsComplete`, `RowsAgree`,
`ArtifactNeverRegresses`, `WaitDrains` (when `Wait` lets `main` go on, no job
that `Submit` counted is at work), `FollowsLifecycle`, and the inductive
invariant `Inv`, which contains `TypeOK` and `SlotsConserved`.  The run has
`ForeignKeys = FALSE`, so that it gets beyond the promotion, and database faults:
a promotion that fails is then among its steps, and it is the step that
enforced references lead to, so the run has every behaviour of the repository's
setting.

Under fairness (`MCVaultUploadLive`), with `ForeignKeys = TRUE` as in the
repository and a disk and a provider that may fail: `StartedEnds`,
`StopSparesBegun` (a job that was counted when SIGTERM came ends in its row
before the process does; a restart would not take it up) and `ShutdownEnds`.
That a paid upload becomes ready is not among them: with the DSN's setting none
does (section 4).

### 2.3 NntpPool

A worker goroutine's position `pc[w]` in `acquire`, the operation and
`release`; `idle` the connections of the channel (as a set: they do not differ),
`sema` the number of tokens, `owns[w]` the connection in use, `dead` the flags.
The number of workers follows from the configured connections as in `main` and
`NewWorker` (`Concurrency`), for every integer an operator may configure.
`Close` closes `sema` whoever is where (it asks nobody, and `Wait` does not
cover every job), `CloseIdle` is its loop, one connection at a time, and `Exit`
the end of the process.  On the closed channel a receive never waits
(`ReceiveToken`) and a send panics (`TokenPanics`).

Checked, all with `Close` at any moment: tokens are those of open or opening
connections, and never fewer once `Close` has begun (`TokensMatch`, part of
`IInv`), no connection has two users (`Exclusive`), broken ones are not handed
out (`IdleUsable`), every operation ends, or the process with it
(`OperationEnds`), and `NeverWaits`: while the client is open, a worker that
finds no idle connection always finds a token, because there are never more
workers than `Connections/2+1` and connections are only opened when none is idle.  That rests on an inequality (`WorkersCover`, idle connections
plus active workers are at most the workers) that no single line of the code
states.

### 2.4 VaultDownload

A download `d` is one `POST /download/{artifact_id}`: `job[d]` its row,
`token[d]` the expiry of its token, `handler[d]`, `ctx[d]` and `pc[d]` the
request, its context and the goroutine; `file[a]` is what is on disk for an
artifact (no directory, an empty one, a partial or a whole file) and `writer[a]`
who truncated it last; `cleaner`, `sweepNow`, `todo` and `target` are the
position of `sweep`; `reader[d]` is a client of the link, between `serveFile`'s
check and its open.  The clock `now` ticks up to `MaxTime`; a token lives `TTL`.

A statement under a cancelled context is not executed (`CanWrite`), a fetch
under one may or may not fail, because `acquire` selects among what is ready.
`os.WriteFile` is two steps, truncate and write; concurrent writers and a
removal in between are covered by `Written`.  A crash is followed by a restart
at once.

Checked with two downloads of one artifact (`MCVaultDownloadSafety`): the
inductive invariant `Inv` (what each place of the goroutine and of the sweep
implies about rows, tokens, files and slots; its `TokenInv` says that a row is
done only after the token was stored, `DoneHasToken`), `TokenLivesItsTTL`,
`FollowsLifecycle`.  The sweep meets running jobs there: it may remove the
directory between a job's MkdirAll and its open, or the file under its write.
With two artifacts and fairness (`MCVaultDownloadLive`): `Inv` again, because
`SoleInv` speaks of the only download of an artifact, `SoleLinkServesWhole`,
`RequestsEnd`, `ExpiredFilesGo`.

### 2.5 SseBroker

One key of the broker, one job whose events `1 .. Events` are stored and then
published, and streams that subscribe, read the row, forward events and cancel.
`Publish` is a snapshot and one send per channel; `cancel` is an unsubscription
and a close.  A send on a closed channel is an action that ends the process.
Keys do not interact: their sets of channels are disjoint and the lock is held
for a few instructions.

Checked: `Inv` (which contains `InOrder`: a stream shows its events in their
order and none twice), `MissesNothing` (nothing falls between the row and the
events, whichever way the goroutines interleave), `TerminalIsStored`,
`StreamsEnd` (except for the three ways in which the end of a job is lost).

### 2.6 Articles

The way of a file's bytes: `SplitSegments` and `YEncEncodeSegment` make
`articles`, `nzb` lists them, the provider may lose an article or one line of
one (`Damage`, at any time), and `Fetch` decodes and joins.  Bytes are numbers,
lines are records of their kind, and headers keep the fields the decoder or a
reader uses.  A checksum is the data it was computed from, so CRC-32 is taken to
tell the damages apart; the zero that the code takes for "no checksum" is
`NoCRC`.  Encoding and decoding are computed, not assumed to be inverse.  The
loops over bytes and lines are functions of the number of turns (`EncodeLoop`,
`DecodeLoop`, `ReadLoop`): what a loop holds after `n` turns, from what it held
after `n - 1`.  `sort.Slice` is `Sorted`, the arrangement of the listed segments
by increasing number; that the listing order is that arrangement is a lemma
and not assumed.

Checked for every file of at most five bytes out of seven, those that become
NUL, TAB, LF, CR, `=` and a dot on the wire and an ordinary one, with parts of
three bytes and lines of two, so that a file may have a last short part, a part
a last short line, and either may fit exactly: `RoundTrip` (what comes back is
what went in, or an error, except for an article without its `=yend` line),
`WireSafe` (no data is taken for a line end, the end of an article or a header),
`PartsTile` (the announced ranges follow on each other).

### 2.7 EventsHub

A connection `c` is a socket of the app and the `wsHandler` at its other end:
`socket[c]`, `handler[c]`, its channel `buf[c]`, `clients` (the map) and
`closed`.  A webhook request `b` is at `hook[b]`, its broadcast has `todo[b]`
still to visit.  The RWMutex is the two predicates `NoReader` and `NoWriter`: a
goroutine that has called Lock waits for the readers and keeps new ones out.
The app has `timers` scheduled, `shown` events and `disposed`.  A connection may
break so that neither end knows (`Cut`), a write to it may or may not fail, and
a ping finds out.

Checked: `Inv`, which is `HubOK` (no send on a closed channel, although
`Unsubscribe` closes outside the lock as the vault's broker does: here the
deletion needs the write lock and sends hold the read lock) and `OnceInv` (why
no event is shown twice), `ReconnectsConserved` (one way to an event,
plus one for every attempt that failed, because `onError` and `onDone` both
reconnect; `dispose` ends none), `ShownOnce`, and under fairness
`WebhooksAnswered` and `GoneIsForgotten`.

### 2.8 AiChat

A question `q` is one `sendMessage`; `handler[q]` is where `Chat` is with it,
`request[q]` the snapshot it was sent with, `wire[q]` the lines the app has not
read, `todo[q]` the rows still to insert.  `newConversation` is one action: its
call changes nothing before the answer and may be made at any moment, mid-stream
as well.  NIM may refuse, end or break a stream anywhere, or say nothing for
ever; every insert may fail; the connection may break without the handler
learning of it, which then saves beside the next question's handler; the gateway
may crash.

Checked: `Inv` (`OneStream`: one response is read at a time;
`BufferIsOneAnswer`: what is shown and what is on the wire are together an
unbroken run of one answer; `Asked` and `Answered`: what the app shows is the
history the question was sent with, then the exchange; `SavedSoFar`: a beginning
of the exchange is stored, in order, and the rest is to do), `AnswersInPlace` (an answer stands under its question and is all the gateway
received; one that a new conversation overtook stands first and is the rest),
`HistoryStored` (a conversation that ends in an answer is in the database, in
order: the app takes the answer when the stream ends, and that is after the
save, not at `[DONE]`), and `AskAgain`.  The rows of another handler may lie
between those of an exchange, so "stored in order" is an embedding (`Within`)
and not a run of rows.

### 2.9 Gateway

A request's way through `Logger`, `CORS`, `Auth` with the check, the fetch and
the store of the keys as separate steps, and the mux to the first lines of a
module.  It says what the server makes of `EventsHub` and `AiChat`, which are
about their components on net/http's own ResponseWriter: behind `Logger` neither
the websocket nor the chat gets as far as their modules describe (section 4).

## 3. Runs

| run | cfg | expectation | states |
|---|---|---|---|
| upload_safety | MCVaultUploadSafety | pass | 950 k |
| upload_live | MCVaultUploadLive | pass | 37 k |
| upload_promote | MCVaultUploadPromote | violation | |
| pool | NntpPool | pass | 30 k |
| download_safety | MCVaultDownloadSafety | pass | 2.6 M |
| download_live | MCVaultDownloadLive | pass | 96 k |
| sse | SseBroker | pass | 1.0 M |
| sse_publish | SseBrokerPublish | violation | |
| articles | Articles | pass | 1.5 M |
| events | EventsHub | pass | 300 k |
| chat | AiChat | pass | 430 k |
| gateway_chat | Gateway | violation | |

Bounds, and why they are enough.

- Two uploads or downloads and one slot: one waits while the other runs; with
  two slots both run.  Uploads meet only in the slots and the process.
- Two segments: one posted and one still to post; an empty file besides.
- One stop: a crash at every point of every action or a SIGTERM, then a restart
  during which every IPN may come again.  A second stop finds no goroutine state that the
  first did not leave.
- `ShortIfEmpty` in upload_safety: the payment of the empty file does not go on
  beyond its confirmation, which is what starts its upload.  The other file's
  payment goes through every status, and what a later status does to a row does
  not depend on the other upload.  `ShortPayments` in upload_live stops both
  payments there: what is asked there begins with the confirmation.
- `OneReader` in download_safety: a client follows one of the two links.
  Following a link changes nothing but the client's own position.  These bounds
  are CONSTRAINTs of the cfgs and not part of the model: the proofs know nothing
  of them.
- `TTL` 1 and `MaxTime` 3: the second of expiry, the one before and the one
  after, for two tokens of different age.
- Three events, a channel of two: drops happen, in the middle and at the end.
- Three connections and two webhooks: one connection before a break, one after
  it and one more from a failed attempt; two broadcasts at once, and the second
  meets a channel of one that is full.
- Two questions, two conversations, answers of two chunks: a question that was
  given up beside the next one, and a new conversation before, in and after an
  answer.  A third question multiplies the states by more than ten and adds only
  a second handler of the first kind.
- One loss per file: a second one in another place is seen by the same checks.
- Symmetry is used in `MCVaultDownloadSafety` only, where both downloads are
  alike and no liveness is checked.
- `CHECK_DEADLOCK FALSE` everywhere: the requests of a run are finitely many,
  and when all have been served the system rests.

Fairness, and why the code justifies it.  Goroutines that can move are
scheduled by the Go runtime (weak fairness per goroutine); a slot that stays
free is taken by the waiter of `sem`.  `main` is scheduled as well, and
`srv.Shutdown` returns after its 30 seconds at the latest.  The cleaner's ticker
keeps firing.  Calls to the provider return, the QUITs of `nntpClient.Close`
among them: the code gives them no deadline, so this is an assumption.  (Not in `AiChat`, where
NIM owes nothing: the app's receive timeout is the fair action.)  A dead
websocket is found by the next ping.  Clients owe nothing: no
fairness on paying, on leaving a stream, on crashes or on stops.

## 4. What the violations show

- `NoSpuriousFailure` (upload_promote): `PromoteArtifactToReady` updates
  `jobs.artifact_id` before the artifact has the new id.  With
  `foreign_keys(ON)`, as the DSN asks, that statement fails at once, so no paid
  upload ever becomes ready.
- `PublishReturns` (sse_publish): a subscriber that cancels between Publish's
  snapshot and its send makes the send panic.  It needs no impatient client: a
  stream opened between the last row update and the last Publish ends by itself
  at that moment.
- `ChatStreams` (gateway_chat): `Logger` passes on a struct that embeds the
  interface `http.ResponseWriter`, so `Chat` finds no Flusher and answers 500
  to every request.  `wsHandler` needs a Hijacker and fails alike.

More properties are stated in the modules that TLC finds violated.  To see one,
put it in the place of the property of the cfg named here:

- `RepeatIsSafe` (in `MCVaultUploadPromote.cfg`, with `ForeignKeys = FALSE` and
  `MaxStops = 1`): after a crash, an upload that was paid stays `uploading`; the
  repeated webhook is a no-op and nothing resumes the job.
- `WaitCoversSubmitted` (in `MCVaultUploadPromote.cfg` as a PROPERTY, with
  `MaxStops = 1`): the comment at `worker.go:67` says that `Wait` blocks until all
  submitted jobs have completed.  `Submit` counts a job when it has a slot, so one
  that waits for a slot is not among them, and `main` goes on to close the client
  and the database under it.
- `StopIsClean` (in the same way): such a job panics at the closed channel of
  tokens, or `Wait` panics over it.
- `AcquireReturns` (in `NntpPool.cfg` as a PROPERTY): the same panic as the pool
  sees it, where `client.go:71` says that `acquire` blocks until a connection is
  available.
- `EndReachesRow` (in `MCVaultDownloadLive.cfg` with `Faults = {}`): the
  download's context ends with the response, and the job's last updates are not
  executed.
- `ValidTokenHasFile` (in `MCVaultDownloadSafety.cfg` with `Faults = {}`,
  `MaxCrashes = 0`, `MaxTime = 4`): a token stored between the sweep's COUNT and
  its RemoveAll loses its file.
- `StreamsAlwaysEnd` (in `SseBroker.cfg` with `Faults = {}`): a dropped terminal
  event leaves the stream open for ever.
- `TokenAdmits` (in `Gateway.cfg` with `MaxRotations = 0`): the cache holds keys
  as the JSON of a JWK and `Auth` gives them to a PEM parser, so every token is
  refused and only the LAN key passes.

Seen while modelling and left without a run: a late IPN overwrites `payment_status`; a failed upload
leaves its artifact `uploading`; a crash in the sweep orphans a directory; the
download handler answers only when its job has a slot; a yEnc article that lost
its last line is accepted without a checksum (the exception in `RoundTrip`); the
app's websocket sends no LAN key, so it cannot pass `Auth` on the LAN; the
webhooks are at `/ws/webhooks/...`, behind `Auth`, where the plan has
`/webhooks/...`; answers that a new conversation overtook are shown in it and
sent to NIM with its next question; `[DONE]` is sent before the save, where the
plan has it after; the comment in `yenc_test.go` on critical bytes names others
than those that are escaped; `resp.data.stream` is a stream of `Uint8List` in
Dio, for which `utf8.decoder` is no transformer at run time, so that
`sendMessage` may always end in its `catch` (`Throws` in `AiChat`).

## 5. Proofs

Proved by TLAPS for every value of the constants, from the assumptions named in
the modules (slots and capacities positive, segments and faults as typed, bytes
below 256, for the pool at most `Concurrency` workers).  Every safety invariant
and every action property of the passing runs is stated by a theorem, and so is
the refinement of `JobLifecycle` by both vault jobs.  All modules have the same
shape: an inductive invariant `Inv` or `IInv`, one lemma per group of actions
that keeps it, and the properties as consequences.  The runs check the invariant
as well, except for that of `ArticlesProofs`, which was checked once on the
same sizes with four byte values and two losses.  None of the
properties is inductive on its own; what each lacks is said here.

**VaultUploadProofs.**  `Typing` and `Invariance` show that `TypeOK` and `Inv`
hold in every reachable state; `AtMostOneStart`, `PaidFirst`, `SourceSafe`,
`ReadyComplete`, `RowsConsistent` and `SlotsExact` follow from `Inv`,
`NoRegress` and `WaitReturnsDrained` are action properties from the same
invariant: `main` passes from `Wait` to its deferred closes only in steps that
find the count at zero (`ClosingNeedsZero`), the count is that of the goroutines
at work (`SlotsConserved`), and what is submitted beside it is not yet at work.
That a started upload is not started again needs to know that its row has left
`pending_payment` (`StartInv`); that a ready artifact is complete needs to know
what each place of `Run` has already posted and written (`SegmentInv`); that the
rows agree needs the place of the goroutine relative to the promotion
(`PhaseInv`); that no error path of `initUpload` removes a file someone may pay
for needs that nobody is told the payment URL before the end (`HandlerInv`,
`FileInv`).  `Inv` is the conjunction.  `Implements` shows `FollowsLifecycle`:
five actions write a job's status or progress, each is a step of the abstract
job or lost, and the others are stutters; that posting never takes the
percentage back needs `ProgressInv`, which bounds the row by what the goroutine
has counted.

**VaultDownloadProofs.**  `Invariance` shows `Inv` with all faults and any
number of crashes, downloads and artifacts.  `DoneMeansToken` follows because a
token is stored after everything in `Run` that may fail (`TokenInv`).
`SoleLinkWhole` needs the cleaner: `SoleInv` says of the only download of an
artifact that a sweep has the artifact in hand only after that download's token
was stored, has expired and, before the directory goes, was deleted; so between
`serveFile`'s check and its open the file may go but is never a part.  With two
downloads of one artifact this is false, as the hazards say.  `TokensLive` is
the action property that the sweep's comparison and `serveFile`'s leave no
second between them.  `Implements` is the refinement of `JobLifecycle`: updates
are lost under an ended context, so `queued` may become `done`, and the row's
percentage is only known to be at most that of the fetched segments (`JobInv`,
`ShareGrows`).

**NntpPoolProofs.**  `PoolInvariance` shows `IInv`: types, tokens, ownership and
`WorkersCover`, through every step of a worker and through `Close` at any moment
of any worker.  No worker is assumed to be out when the client closes.  What
survives a close is that there are at least as many tokens as connections,
because the loop of `Close` closes connections and takes no token back; so a
release always finds a token to take (`TokenBack`).  `TokenAtHand`
(`NeverWaits`) follows by counting: while the client is open tokens are
idle connections plus holders, at most `Concurrency - 1` when one worker waits,
and `Concurrency - 1 < Capacity` for every configured number, negative ones
included.  `OneUser`, `IdleIsUsable` and `NoTokenLeak` are parts of `IInv` or
follow from it.

**SseBrokerProofs.**  `Invariance` shows `Inv`, the order of what a stream is
given among it: an event that is sent is later than all that were, because
nothing is given early (`NothingEarly`), and because the channels of one Publish
are visited once.  A panic leaves a Publish unfinished, so the bound is another
one after it.  `EndIsStored` adds `RowIsLatest`.  `NothingMissed` is inductive
beside `Inv`: what is delivered, dropped or unstored only grows, each turn of the
worker adds its event for every stream that was subscribed when the snapshot was
taken, and a stream that subscribed later has read the row after the event was
stored in it.

**EventsHubProofs.**  `HubInvariance` shows `HubOK` for any number of connections
and webhooks, and `NoSendOnClosed` is its third conjunct: the channels a
broadcast will visit are in the map (`todo` only shrinks while the read lock is
held, and a deletion needs the write lock), those that are closed are not.
`ReconnectsCounted` shows `ReconnectsConserved` by counting: with the invariant
that connections are used in order, a connect adds one live socket for the timer
it takes, and every end of a socket removes one for the timers it schedules.
`Invariance` and `NeverTwice` build on both: while no attempt has failed that
count leaves one live socket, so an event that is still queued for it cannot have
been shown by another, and a broadcast gives an event to a channel once.

**AiChatProofs.**  `Invariance` shows `Inv`.  Even its types need it: a row is
inserted only where `Chat` has a conversation (`SavedSoFar`).  The heart is
`BufferIsOneAnswer`: the chunks in the bubble and the lines on the wire are
together what the gateway received, from the last time the bubble was emptied;
each line the app reads moves one chunk from the second to the first.  `InPlace`
(`AnswersInPlace`) follows with `Asked`, since an answer is put under the history
its question was sent with.  `Stored` (`HistoryStored`) extends the embedding of
what is saved by one row per insert, and inserts of other handlers, which
come behind, do not disturb it.

**ArticlesProofs.**  The loops of the codec are functions of the number of their
turns, and their lemmas are by induction on it (`Induction`, from the least
number for which a claim fails).  `DecodeUndoesEncode`: the decoder gives back
every line, whatever bytes it has; an escape is two turns of the decoder, and the
last byte on the line is never a lone `=`.  `PartsFollow` is about
`SplitSegments` for every length and size, and `ArticleDecodes` joins the two.
`TrailerProtects` is the argument about losses: if an article still has its
trailer, what passes the checksum is the part, whichever of its lines are gone.
`Invariance` carries this through `Post`, `Damage` and `Fetch`, with the NZB as a
list of the posted parts, and `Restored`, `SafeOnTheWire` and `RangesTile` are
the three properties of the run.  (`Inv` of this module is not in a cfg: TLC
evaluates `RoundTrip`, `WireSafe` and `PartsTile`.)

**SequenceLemmas** has the facts the others share: the elements of a sequence
after Append, Tail, `\o` and RemoveAt, and when these keep it without
repetition.

Only model-checked: the liveness properties (`StartedEnds`, `StopSparesBegun`,
`ShutdownEnds`, `OperationEnds`, `RequestsEnd`, `ExpiredFilesGo`, `StreamsEnd`,
`WebhooksAnswered`, `GoneIsForgotten`, `AskAgain`): TLAPS proves nothing about
ENABLED, and so nothing from fairness.  The violations are TLC's as well.
Assumed by the models, and so by the proofs, are their abstractions: that CRC-32
tells the damages apart, that a lock's section and a statement are atomic, and
those named in section 2.

## 6. Not modelled, and the plan

Not modelled because there is nothing to check: layout, themes, generated
platform projects, workflows, the configuration readers, the API key gate, the
formatting of SSE lines, the text of NNTP commands, yEnc headers and XML, the
rewriting of paths in the proxies.  `ListReadyArtifacts`, `MarkArtifactFailed`
and `MarkArtifactNotarized` have no callers.  `DownloadsProvider` and
`MediaProvider` keep the last answer to each kind of request, in the order of
arrival; the repository states nothing that this could violate.

Next, proofs: the safety halves of the liveness properties, that is, that the
state from which each waits leaves some step of the waiting goroutine possible
(a slot is free or held by a goroutine that can move, `SweepInv` leaves the
sweep a step); what `Gateway` guarantees of `Auth` and its cache of keys; and
that the hub and the broker both implement one abstract publisher, of which the
broker falls short at a closed channel.
