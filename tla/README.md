# A TLA+ development of meticulous-sdk

This directory models the parts of meticulous-sdk that are hard to test: the
places where several actors share state, where a process or a Durable Object may
die between two steps, and where requests fail, are retried or overtake each
other. TLC checks each model on small instances; TLAPS proves the most important
safety properties for every instance.

`PROJECT.json` lists, for every definition that models code, the lines it stands
for (`map`), the runs, the mutated definition each property must catch
(`mutants`), the places where the code and its documentation disagree
(`findings`), and the hazards of the code with the properties that cover them.

## 1. The system and its components

| Component (package) | State | Operations | Hard behaviour | What makes it correct |
| --- | --- | --- | --- | --- |
| Recorder session Durable Object (backend-recorder-sidecar-worker) | durable batches, counter, session, alarm; metadata and chunks in S3 | report, alarm, flush, drain, abandon | reports and a second drain interleave at every await on S3; eviction between two steps; S3 writes that fail with effect | nothing acknowledged is forgotten silently; nothing is stranded without an alarm; what S3 holds can be read |
| Sidecar Worker routes, S3 client (same package) | cached credentials | validate, route to a shard, sign, PUT | a 403 that arrives late drops credentials another write has just fetched (one more round trip) | stateless but for the cache |
| Capture buffer of a request (backend-recorder-workerd) | buffered events, tracked jobs, chain of sends | track, add, flush, close | work that outlives the response; the runtime ends a request that nothing holds | all events are posted, in order, before the request ends |
| Replay half of the shim (same package) | handshake cache per isolate | handshake, tag, intercept | concurrent requests share a handshake; a failure may delete a newer entry; the sidecar comes and goes | a recorded session's calls stay off the real services; a failed handshake is forgotten |
| Multipart upload of a build (remote-replay-launcher, client) | buffer, parts, URL counter | data event, flush, PUT, finalize | concurrent parts, URLs handed out by a counter, retries, failure while streaming | S3 ends up with the stream, part by part; the upload always ends |
| Upload completion and base polling (same package, common) | retry and polling windows | diff, complete, poll, fall back | requests a gateway gave up on commit later; the window moves with each answer | the run made is the one asked for; no run is lost; bounded |
| Remote test run (same package), tunnel client | tunnel and its workers, retry window, lock | execute, poll, wait for the lock, close | polls overlap and are answered out of order; the backend may retry a failed run | the tunnel outlasts the run; nothing is left running after a return |
| Cache of replays (downloading-helpers) | directory, marker, lock | getOrFetchReplayArchive | processes sharing a directory, killed or failing at any point | the marker tells the truth; readers are not disturbed |
| Streamed tar extraction (same package) | attempts, pool of writes | extract, abort, retry | writes of an aborted attempt | the directory is complete on success |
| Custom checks (custom-checks) | one deadline shared by four polling loops | wait for the run, its merged run, its base | the run, its patching and its base move on between request and use | bounded; the run the user sees, against a complete base |
| OAuth and the API client (client, cli) | the token file shared by processes, each client's initial token | resolve, refresh, login, logout, rejection | refreshes of several processes at once, torn reads, rotation, crashes | tokens sent within their margin are live; the stored pair is usable |
| Debug workspace, commands, loader, launchers, redaction | little or none | orchestration, conversion | none of their own | functional tests reach it |

How they interact: the app's Worker (capture buffer) POSTs batches of events to
the sidecar, whose routes pick a shard and hand the report to a recorder session
object; the object writes chunks to S3, where ingestion, outside this
repository, reads them. Builds go to S3 through the multipart upload, whose
completion triggers a test run; an app on this machine is tested through a
tunnel instead. A test run's replays come back through the download helpers into
a cache directory that all tools of a machine share; custom checks wait for a
run before they compare its snapshots. All of them call the backend as whoever
the OAuth session says. In replay mode the app's Worker asks a replay sidecar
for the recorded answers of its outbound calls.

## 2. Modules

| Module | Models | Kind |
| --- | --- | --- |
| `RecordedEvents` | the promise to whoever reports events: at-least-once upload, losses only the admitted ones | abstract specification |
| `RecorderSession` | `recorder-session-object.ts`, `session-store.ts` | component; implements `RecordedEvents` |
| `MCRecorderSession` | a liveness property over the finitely many keys of a bounded run | for TLC |
| `CaptureBuffer` | `capture-buffer.ts`, and the wrapper and lifetime around it | component |
| `WorkerdReplay` | `with-meticulous.ts` (replay), `sidecar-client.ts`, `fetch-patch.ts`, `replay-fetch.ts` | component |
| `MultipartUpload` | `multipart-buffer-manager.ts`, `multipart-compressing-uploader.ts`, `uploadBufferToSignedUrl`, `retry-transient-upload-errors.ts` | component |
| `DeploymentTrigger` | the end of `asset-upload-utils.ts`, `upload-container.ts` and `run-with-uploaded-asset-chunks.ts`, `poll-for-base-test-run.ts`, `http-retry.utils.ts` | three flows over their common poll and retries |
| `RemoteTestRun` | `execute-remote-test-run.ts` over `tunnel.ts`, `tunnel-worker.entrypoint.ts`, `open-socket.ts` | launcher and tunnel composed |
| `ReplayArchive` | `scripts/replays.ts`, the directory lock, `download-file.ts` | component |
| `TarExtraction` | the streamed extraction of `download-file.ts` with parallel writes | component |
| `CustomChecksWait` | `wait-for-test-run.ts` over `test-run.api.ts` | component |
| `OAuthTokens` | `oauth-token-store.ts`, `oauth-refresh.ts`, `oauth-login.ts`, `api-token.utils.ts`, `client.ts`, the logout command, `handle-auth-failure.ts` | component, shared by processes |
| `X_proofs` | theorems about the module `X`, for `RecorderSession`, `CaptureBuffer`, `WorkerdReplay`, `MultipartUpload`, `CustomChecksWait`, `OAuthTokens` | proofs |
| `Launcher_proofs` | theorems about `DeploymentTrigger` and `RemoteTestRun` | proofs |
| `Downloads_proofs` | theorems about `ReplayArchive` and `TarExtraction` | proofs |

The last two extend both of their modules, which therefore share no name: that
is what the prefixes `Run` (`RunInit`, `RunSpec`) and `Tar` are for.

Each module models its counterpart (the backend, S3, the runtime, a provider) as
far as it answers: with everything the code distinguishes, at any time the code
allows. The clock of a model stops one tick beyond every bound its properties
mention.

### RecorderSession

`batches`, `seq`, `session` and `alarm` are the keys of the object's durable
storage and survive `Evict`; `gate`, `call` and `mem` are its memory and do not;
`metadata`, `chunks` and `marked` are the objects in S3. One action stands for
what the code does between two awaits at which another event may be delivered.
The Workers runtime closes the input gate during the object's own storage
operations and leaves it open during a `fetch`: `gate` is "open" while a drain
waits for S3, and names the holder in the storage-only tail of `drain()` and in
`append()`. That is why a report, and a second drain, may begin in the middle of
a first drain's uploads and not in the middle of its save and delete. `Start` is
the delivery of the alarm or of a flush up to the first S3 write, `UploadMetadata`,
`UploadChunk` and `Abandon` are settled S3 writes, `SaveState`, `DeleteBatches`,
`DropEverythingPending` and `Rearm` the tail. `Throw` is a storage error and
`Evict` the loss of memory; `FailReport` a report answered with an error. A PUT
that failed may have landed. Events are not modelled one by one: a batch is the
number it was accepted under, or 0 when it holds nothing that builds a span.

### CaptureBuffer

`events` and `chars` are the buffer, `job` the producers handed to `track`,
`batches` the sends with what each is chained behind. `held` is what has been
handed to `waitUntil`; `ContextEnds` is the runtime tearing down the request once
everything held has settled. `HandlerReturns` is one synchronous turn:
`reportInbound` and `close()` to its first await.

### WorkerdReplay

`cache` is `replaySessionInfoCache` in the order of its Map: a promise is
"pending" on the handshake of one request or settled. `asker` is whose handshake
a request awaits, `failed` whether that handshake failed it, `real` whether a
call of it reached the real service. When a handshake is answered everyone who
awaits it goes on in the same step (`Proceed`), and when it fails the entry of
its key is deleted whosever promise it holds by then (`Forget`). `evicted` is
history: the sessions that a full cache has dropped.

### MultipartUpload

The compressed stream is its byte positions. A data event appends and cuts at
most one part (`Data`), the end of the stream cuts the last (`StreamEnds`), the
limiter starts parts in order (`StartPart`, which runs `getUploadUrl` up to its
first await, so that the counter of pre-signed URLs moves in the same step).
`UnhandledRejection` is Node ending the process on a part that failed before
`finalize()` attached a handler. It is optional: the host may have a handler.

### DeploymentTrigger

`flow` says which of the three callers runs; they share `pollWhileBaseNotFound`
and differ in what they ask for (`MustHaveBase`), in what counts as a missing
base (`BaseMissing`), in their retries, and in the fallback, which for chunks
with version lookups makes no request (`FallBack`). `inner` and `outer` are the
attempts of the two nested `executeWithRetry`: the one every request goes
through, and the one around the completion of assets. `Serve` answers a request
or lets the gateway give up on it, in which case it may live on in `orphans` and
commit at any later time. `testRun` and `extra` are the result that the loop
carries: `extra` is the extension of the window last answered, by which
`TimedOut` judges.

### RemoteTestRun

`stage` is where `executeRemoteTestRun` is, `tunnel` and `worker` are the tunnel
and its cluster workers, `polls` the status requests in flight, by the ticks since
each was sent: no two are sent in one tick and none takes longer than `Latency`.
`setInterval` fires (`Fire`) whether or not the previous poll was answered, and
`PollAnswered` takes the answers in any order. `waiting` counts since
`startedWaitingForRetryAt`. `runStatus` belongs to the backend, which may retry a
failed run for a while. The first execution may end at once; a retried one is
active for `MinRun` ticks or more. The lock's polls overlap too; their answers are told apart only by what they say.
A worker that exits ends the process (`WorkerExits`), as nobody listens to the
tunnel's "error" event here.

### ReplayArchive

`disk`, `marker` and `lock` are shared by the processes; `pc`, `req`, `seen`,
`task`, `tries` and `late` are local to a call. A replay is immutable, so an artifact is
absent, partial or complete, or "mixed" after writers overlapped, which may turn out
to be either when the last of them ends. Artifacts in `InPlace` are truncated when their
response arrives, removed when the content breaks off, and retried; the others
are downloaded beside their target and only their extraction writes it. The
marker is opened (empty) and written in two steps, as `writeFile` does. `Crash`
kills a process at any step; its lock is then taken over. With
`LingerAfterFailure` a process whose call failed goes on with its other downloads
until it ends. `ExtractionTimesOut` is the race of `downloadAndExtractFile` against
its timer: the artifact counts as failed, or as done when it is best-effort, and the
extraction moves to `late[p]`, where it goes on writing until it ends (`LateEnds`) or
its process does, whoever has the lock by then.

### TarExtraction

`phase`, `attempt`, `aborted` and `read` are the loop of the call; `job` holds,
for every attempt, the writes in its pool, which nobody stops when the attempt
fails; `exists` and `file` are the directory. A write is two steps, because the
code is at the signal's mercy only around them: `open()`, which truncates whatever
the signal says by then, and the content. `Remove` may give up half-way, as its
error is swallowed. Entries lie in the directory itself; the memoized `mkdir` of
subdirectories and entries that are skipped are left out.

### CustomChecksWait

`phase` follows `findTestRunForCustomChecks`: the lookup of the run, the poll for
its end, the resolution of the run to show, the fetch of it, the registration,
the wait for the base. `call` says whether the loop of the phase has sent its
request, has an answer on its way, or sleeps: the backend (`head`, `patching`,
`base`) moves on in all three, so an `answer` may be out of date when it is used.
`now` counts from the one start time, and a request costs up to `Latency`.

### OAuthTokens

`file` is the token file: absent, torn (truncated and not yet written) or whole.
`step`, `held`, `reply` and `auth` are local to a caller, one process with one
client, which resolves its token when the client is made and before every
request. A request sends that one token in up to `DEFAULT_MAX_RETRIES` more attempts
(`attempt`, `AttemptFails`), as `makeRequestWithToken` resolves it outside of
`executeWithRetry`; the time they, the back-offs between them and the answer of a
refresh take is any number of ticks. `since` is the instant from which the margin of
the token runs: its resolution, or for a token just granted, the grant. `honoured` is what the identity provider knows: the refresh token it
accepts in each session. `ServeRefresh` answers a refresh, refuses it, or loses
its answer; with `rotates` each refresh token works once. `LoginExchanged` to
`LoginStored` and `Logout` are the user. `calm` restricts a behaviour to what
`NobodyIsLoggedOut` is about (no refresh fails, no rotation, nobody logs in or out);
`tornRead` remembers that somebody read a torn file, `overdue` that a request was
refused after its token's margin was used up.

## 3. Runs

| Run | Shows |
| --- | --- |
| `session_alarm` | the object driven by its alarm, with S3 failures and one eviction or storage error: typed, never stranded, readable, in order, backs off, keeps the promise of `RecordedEvents`, drains everything |
| `lost_batch` | *violated*: with two drains at once a chunk is overwritten and its batch lost |
| `capture_buffer` | order, completeness at the end of the request, everything eventually posted |
| `workerd_replay` | a recorded session's calls reach a real service only after its own handshake failed; one handshake per session at a time; recovery once the sidecar stays up |
| `multipart_upload` | parts tile the stream, URLs match, a resolved upload is complete, it terminates |
| `deployment_trigger` | the run made is the one asked for, no run is lost although requests were given up on, the flow ends although no base appears |
| `remote_test_run` | the tunnel is never closed under an active run, a return leaves nothing running, the launcher comes to an end |
| `replay_archive` | one writer, a true marker, undisturbed readers, the lock always released |
| `archive_bypass` | *violated*: a bypassing download that fails leaves the marker over an incomplete directory |
| `tar_extraction` | a returned extraction is complete although pools outlive their attempts; it ends even if writes stall for ever |
| `custom_checks` | the wait is bounded, ends, reports against the run the user sees and compares with a complete base |
| `oauth_tokens` | tokens that are sent, first or in a retry, are live within their margin; the stored pair is usable; nobody is logged out without a failure |

A violated run checks one property that states what a comment of the repository
says; `findings` quotes it.

Other places where the code and its documentation or intent part, met while
modelling and visible in the models, have no run of their own; the properties
are stated around them:

* A failed chunk upload below the failure limit drops its batches without a
  marker (`session-store.ts:174`); the sidecar's `README.md:95` promises that a
  truncated recording is always marked. `RecordedEvents` admits that loss.
* A part that fails while the tar still streams is an unhandled rejection
  (`multipart-buffer-manager.ts:81`): unless the host handles those, the process
  ends instead of `execute()` rejecting.
* Widening the scope of a cached replay re-writes what a caller of the narrower
  scope may be reading (`replays.ts:240`) once a scope contains artifacts that
  are fetched again; the two scopes of the run do not.
* The other downloads of a failed call go on after the lock is released
  (`replays.ts:528`), beside those of its next holder, if the process lives on.
* An extraction that exceeds its 300 s is given up but not stopped
  (`download-file.ts:201-205`). If the artifact is best-effort the call returns and
  releases the lock while the extraction still writes: the next holder writes the
  same files beside it, and may write its marker over what the two leave there. With
  `{"snapshottedAssets"}` in `BestEffortSets` TLC finds two writers in 14 steps, as
  it does in 12 with `LingerAfterFailure`.
* An `open()` that outlasts the removal of its attempt's directory and the delay
  truncates a file of the next attempt (`download-file.ts:632`).
* At its deadline the custom checks' wait returns a merged run that is still in
  progress, although `wait-for-test-run.ts:354-359` speaks of a terminal run; and
  its first poll throws on any failed read, not only on a timeout (145-146).
* `client.ts:290-291` lists the environment before OAuth; `getAuthToken` asks
  OAuth first.
* With a provider that rotates refresh tokens, the second of two concurrent
  refreshes fails and clears what the first stored; a refresh that was under way
  during a logout stores its pair after it, and one that fails late clears a
  fresh login.
* A request that is aborted after 60 s or backs off (`http-retry.utils.ts:142-162`)
  is sent again with the token resolved before (`client.ts:205-220`), which may
  have expired meanwhile: the margin is 30 s (`oauth-refresh.ts:8`). So may a token
  whose grant took longer than that to arrive, as the refresh has no timeout. The
  401 is not retried; `handleAuthFailure` then clears the file although the pair was
  never tried, while its message says that it could not be refreshed
  (`handle-auth-failure.ts:43-46`).
* When the test run is not created, or a poll fails, `executeRemoteTestRun`
  throws with the tunnel open and its interval running.

Bounds, and why they are enough:

* `session_alarm`: three stored batches, reports split into at most two groups,
  two batches per drain, two chunks per session, two consecutive failures. One
  drain then cannot take everything, a session fills up and rolls over, a
  session is abandoned by failures and comes back after the cooldown (one clock
  tick). One fault is one eviction or storage error at any step; more of the
  same starts from states that the first one already reaches.
* `lost_batch`: one flush beside the alarm, which is every pair of overlapping
  drains. What survives the overlap (nothing stranded, everything in S3 readable)
  is proved for any number of flushes, see section 5.
* `capture_buffer`: three jobs, three events beside the inbound one, a limit that
  one to three events reach. `MaxLate`, the jobs that begin after the handler
  returned, is below `MAX_DRAIN_ROUNDS`. This one matters: a job that is still
  pending when the rounds are used up was tracked before `closed` was set, so no
  `waitUntil` holds it. The source argues that capture is a leaf operation and
  two rounds are the most a body read can cause (`capture-buffer.ts`, on
  `MAX_DRAIN_ROUNDS`); the bound is that argument.
* `multipart_upload`: up to five bytes and a last piece, chunks of two, data
  events of up to three bytes, two pre-signed URLs, two slots, two attempts.
  Buffers end below, at and beyond a chunk, parts outnumber both URLs and slots,
  and the last part may exceed a chunk.
* `deployment_trigger`: one retry at each level, a window of two ticks that the
  server may double, requests of up to one tick. The first answer, the sleep, a poll that
  is retried and the last poll beyond the window fit, and one orphan of each kind
  may commit before, between and after them; a set of orphans is enough, as two
  of a kind commit the same.
* `remote_test_run`: a poll every tick that takes up to two, so three are in flight
  and overtake each other. `RetryWindow > RetryWithin + Latency` and
  `MinRun > PollEvery + 2 * Latency` are what `TunnelServesTheRun` needs of the
  backend, and the run takes both at their limit: with one tick less of either TLC
  finds the tunnel closed under a retried run. (The code says nothing about how
  long a retried run lasts. One that ends between two polls looks like a run that
  was never retried, and the window goes on over it.) One worker stands for
  several; the proofs are for any number.
* `replay_archive`: three processes, one artifact of each kind, the scopes
  `everything` and `screenshots-only`, one retry. The scopes, that nothing is
  best-effort and that a process ends when its call failed are the assumptions under
  which the properties hold (section 5). Extractions do time out in this run, but
  their calls then fail with the lock still held; `archive_bypass` lifts one
  assumption, the requests that bypass.
* `tar_extraction`: three files, two slots, one retry: a file is queued while two
  are being written, in each of two attempts. `StalledOpens` is FALSE: an open of
  an aborted attempt is over before the next one begins, one second and a removal
  later.
* `custom_checks`: a timeout of three ticks, sleeps of two, requests of up to one:
  a loop sleeps once or twice, wakes before, at or beyond the deadline, and the
  phases behind it start beyond it. That `now` stays within `Bound(phase)` is
  proved for all timeouts.
* `oauth_tokens`: two callers and the user, two sessions, a lifetime of two ticks,
  a margin of one, one retry, a clock that ends at three; nothing bounds how long an
  answer or a request takes but the end of the clock. A token expires while in use,
  also between two attempts of one request, is refreshed by both callers at once, and
  a second login overlaps both. Both exceptions of `SentTokensAreLive` and
  `NobodyIsLoggedOut` are reached: without `Overdue`, TLC finds an attempt that carries an
  expired token, and without `overdue`, its refusal logging the user out.
  The callers are symmetric and all properties are invariants, so the symmetry is
  sound.
* `workerd_replay`: three requests of two sessions, one recorded, a cache of one
  entry. Every entry of the other session evicts; two requests share a handshake
  while a third replaces it, or fails late under a newer one.

Deadlock is checked in `workerd_replay`, whose surroundings never stop. Elsewhere
it is not: a bounded behaviour may come to rest, and a
finished request, upload or process has nothing left to do.

## 4. Fairness

* `RecorderSession`: strong fairness of the alarm's delivery (the gate opens and
  closes around it) and of the steps of a drain. The runtime delivers a scheduled
  alarm at least once and repeats it when the handler dies; storage operations
  settle. That an S3 PUT settles is an assumption: `s3/storage.ts` gives it no
  timeout. Faults are bounded, as no system drains anything that is evicted in
  every drain.
* `CaptureBuffer`: jobs settle (body reads are cut off by a timer), POSTs settle
  (they are aborted after a timeout), the handler returns. Nothing forces the
  app to make calls.
* `MultipartUpload`: the upload does not stop while it can move: the stream ends
  or fails, and requests settle. The PUT of a part has no timeout of its own, so
  this too is an assumption about the network.
* `ReplayArchive`: a call that holds the lock goes on (each request has a timeout
  in the code). Nothing forces a call to be made, the lock to be won, or anybody
  to die.
* `WorkerdReplay`: the handshake and the lookup are bounded by timeouts in the code;
  a handler comes to its response, strongly fair as it may go back and forth
  between lookups. Nothing forces requests to arrive or the sidecar to come up.
* `DeploymentTrigger`: requests are answered, if only by a failure, and the client
  runs. A base may never appear and an orphan never commit.
* `RemoteTestRun`: requests are answered, timers fire and time passes. The run, the
  lock and the caller owe nothing: `ComesToAnEnd` names what it needs of them.
* `CustomChecksWait`: requests are answered or fail, and the client runs; the
  backend's runs may stay in progress for ever.
* `OAuthTokens`: none. Its properties are invariants.
* `TarExtraction`: only the timer, mkdir, rm, the delay, and the open of an attempt
  that is over (the assumption above). Neither the network nor a write of a live
  attempt has to settle: the deadline alone ends the call.

## 5. What is proved

All theorems hold for every value of the constants under the module's named
assumptions on them, and under what is said here. Each follows from an inductive
invariant: a property rarely is inductive, and what had to be added to it is the
argument.

`RecorderSession_proofs`, for any number of overlapping flushes and faults:

* `TypeCorrect`: `Spec => []TypeOK`. `TypeOK` alone is not inductive: an upload
  increments the chunk number and the failure count of the state its drain holds
  in memory. `PhaseOK` adds that a drain about to upload metadata or a chunk holds
  a live session with room for one more chunk and one more failure, and that only
  an abandoned session has used its failures up. The head of `drain()`
  establishes it (roll over when full, refuse while abandoned).
* `NeverStranded`: `Spec => []NoStranding`. The strengthening `AlarmInv` adds the
  middle of `append()`: between `setAlarm` and the `put` of the batches the alarm
  stays set, as none is delivered while the gate is closed.
* `GateServed`: `Spec => []GateInv`. Between saving its state and its last storage
  operation a drain is alone, so nothing arrives between its check for leftovers
  and its end; and a gate a drain holds is held by one that still has such an
  operation to do, after which it opens. No report waits for a gate nobody opens.
* `AlwaysReadable`: `Spec => []IngestReadable`. The strengthening `BackedInv` says
  that every session state, in storage or in the memory of any drain, is backed
  by S3: a metadata flag by the metadata, a chunk number n by chunks 1 to n. Both
  only grow in S3, so a stale state stays backed when another drain overtakes it.
  That is why overlapping drains can lose a batch and still leave no gap.

and, when no flush overlaps the alarm (`OneDrain`: `Flushers = {}`), still with
any evictions, errors and failures:

* `PromiseKept`: `Spec => KeepsPromise`, the refinement of `RecordedEvents`. The
  invariant `SoloInv` says what one drain alone may rely on: stored batches are
  numbered below the counter and in order (`StoreInv`), no id is used that was
  not minted (`IdsInv`), the drain has the stored session's chunk number in memory
  while it uploads (`DrainInv`), the slot of the next chunk is free or holds what a
  crashed drain put there from batches that are still stored (`SlotInv`), what a
  drain took is still stored until it deletes it (`TakenInv`). Each step then is
  one abstract step or a stutter.
* `NothingLost`: no acknowledged batch is lost unreported. This is the property
  `lost_batch` violates, so `OneDrain` is exactly what is missing there.
* `ChunksOrdered` (`OrderInv`): the chunks of all sessions hold the batches once,
  in arrival order, as long as no fault has happened.
* `BacksOff`: nothing is written between an abandonment and the end of its
  cooldown.
* `NumbersGrow`: `Spec => [][NotOlder(session', session)]_vars`: the session
  number only grows, the chunk number grows within a session, and a session once
  given up stays so. With a flusher it is false: a stale state is saved over a
  newer one.
* `MarkerIsFinal`: while no fault has happened, no chunk is written under a session
  that has its `abandoned.json`. `MarkInv` says that a marked session is an older
  one, or given up in storage or in the memory of the drain that marked it. An
  eviction or a failed save between the two is the only way around it (the hazard
  at session-store.ts:230).

`CaptureBuffer_proofs`, for any jobs, events and limits: `TypeCorrect`,
`FlushesOrdered`, and `ReportedBeforeTheEnd` when fewer jobs begin late than there
are drain rounds (`FewLate`). `ChainInv`: the flushes form one chain that ends in
`sending`, and what is sent outside it is held by a `waitUntil` of its own.
`RoundInv`: every round beyond the first is paid for by a job that began late, so
with few of those nobody is pending when the rounds are used up. `EndInv`: what
`close()` awaits is the end of the chain. Three more say what neither the runs nor
the types do: `EventsOnceInOrder`, every event added is in the buffer or in one
batch, and batch after batch is newer than the last, before and after `close()`
(`EventStep`: each step leaves the buffer, adds one event to it, or sends all of
it); with `FewLate` it gives `AllPostedOnce`: a request that has ended has posted
each of its events in exactly one batch. `SendsProgress`: as long as a batch is not
settled one is on the wire or may go there, the first of them, since a batch waits
for an earlier one only. It is the safety part of `EventuallyReported`, for any
number of batches.

`WorkerdReplay_proofs`, for any requests, sessions and cache size: `Hermetic`,
`HandshakeShared` and `CacheBounded` (no more than `MaxCached` entries, one per
session; proved, with no run of its own). `HandshakesCached` says that a handshake
under way has its entry unless the session was evicted, which is why no second
one begins; `EntriesTell` and `RequestsTell` that an entry, and whoever awaits it,
knows the truth about the session or a failure of that very handshake. From the
same invariant, `NobodyIsForgotten`: whoever awaits a promise, and every pending
promise in the cache, has a handshake of the same session still under way, whatever
was dropped, forgotten or replaced meanwhile. `OthersUntouched`: a request is served
from mocks, and a session remembered as found, only if the sidecar holds it.

`MultipartUpload_proofs`, for any stream, chunk size, slots and URLs:
`TypeCorrect`, `PartsTile`, `UrlsMatch`, `ResolvedComplete`. `UrlInv`: parts start
in order, and the counter has passed exactly the started full-size parts that
have a pre-signed URL; so the counter, when a part takes its URL, is that part's
number. `StoredInv`: what S3 holds under a number is that part. `EndInv`: once the
stream has ended everything is cut.

`Launcher_proofs`, about `DeploymentTrigger`, for any windows, retries and latencies: `RunAsAskedFor`,
`RunNotLost`, and `PollBounded` (no longer than the longest window, one sleep and
one call with its retries). The invariant relates the requests that may still
commit to what the caller asked for: an orphan that does not insist on a base
exists only when the caller did not, or the window has passed; and what an
answer says is true of the server from then on, as a run is never taken back.

`Launcher_proofs`, about `RemoteTestRun`, for any number of workers and all times
that satisfy `TimingAssumption`:

* `RunTypeCorrect`, `QuietReturn`.
* `TunnelServes`: `RunSpec => []TunnelServesTheRun`, by way of the stronger
  `AcceptedStaysDead`: from the moment a result is accepted until after the return
  the run is `Dead`, that is, it has ended and is past being retried. `AnswerInv`
  says how far an answer in flight may lag: while an "error" asked for a ticks ago is
  on its way, a run that is active again has been so for at most a ticks. `WaitInv` ties the window to the backend's clock: while
  the run is failed, the launcher has not waited for longer than the run has been so;
  while it is retried, for no longer than a retry may take and the retry has
  lasted, and `SeenSoon`, a poll that will report the run active is in flight or
  about to be sent and arrives before the run can end again (`SeenBeforeItEnds`).
  An error accepted at the end of the window is then too old to be retried
  (`AcceptedIsDead`). The attempt to prove this with `MinRun >= PollEvery + 2 *
  Latency` failed for a reason: a run that lasts exactly as long can end in the same
  tick as, and before, the poll that would have seen it.

`CustomChecksWait_proofs`, for any timeout, interval and latency: `TypeCorrect`,
`WaitBounded`, `ReportsAgainstShown`, `BaseComplete`. `ClockInv`: a request is sent
within one sleep of the deadline, or later only by the requests of the phases
before. `AnswerTells`: what an answer says of a run that has ended stays true.

`Downloads_proofs`, about `ReplayArchive`:

* `TypeCorrect`, for all constants.
* `LockKeepsAwaitedApart`, for all constants: if two processes write an artifact at
  once, one of the two writes is a leftover, an extraction that timed out or a
  download of a call that had failed. `LockInv`: the lock is held exactly from
  acquiring it to returning, and downloads are under way only in between or after
  a failure. It has no run of its own; TLC finds it to hold in an instance with two
  processes that outlive their calls, and best-effort and excluded artifacts.
* `LockExcludes`: one writer per artifact, leftovers included, if a process ends when
  a call failed in it and nothing is best-effort. `NoLeftovers`: an extraction that
  timed out is then a failed download of a call that still has the lock and can only
  fail. Neither assumption can be dropped, see section 3.
* `MarkerTruthful` and `ReadersUndisturbed`, for careful callers (`Careful`: two
  scopes, nothing excluded or best-effort, no lingering), any number of processes
  and artifacts. `CacheInv` says what a download knows: the marker it found is
  still there and is "none" or "screenshots-only", it writes nothing that this
  marker vouches for, its finished tasks are complete on disk; and that whoever
  is reading what it got has a marker that vouches for it. The run
  `archive_bypass` shows what happens without the first assumption; section 3
  describes the others.

`Downloads_proofs`, about `TarExtraction`, for any number of files, slots and retries:

* `TarTypeCorrect`. `TarTypeOK` is not inductive, because the loop counts after its
  delay and looks before it: `TarTypeInv` adds that it sleeps only when an attempt
  is left.
* `ReturnsAllFiles`: `Spec => []ReturnedIsComplete` when no open outlasts its
  attempt (`StalledOpens = FALSE`). `OthersQuiet` says that only the current
  attempt has an open under way; so what its pool has finished stays in place
  (`DoneIsThere`), and a call returns only when its pool has finished everything
  (`ReturnedDone`). What an earlier pool may still write is the same content.

`OAuthTokens_proofs`, for any callers, sessions, lifetime, margin and retries, and
without any assumption on how long answers and requests take:

* `TypeCorrect`, and `SentLive`: in every attempt, the token that is sent has not
  expired unless the answer of its grant and the attempts before have used up the
  margin. `ExpiryInv` says of a token in use that the margin, or a whole lifetime if
  it was just granted, counted from `since`, ends before the token does, and of a
  pair that is being stored that its lifetime counts from now; `WithinMargin` draws
  the conclusion.
* `PairUsable`, which is `StoredPairIsUsable`. `SessionInv` says that every pair is of
  a session there was, and that of a login in no other hands yet; `HonouredInv` that
  what the provider honours is never older than what is on file or asked with, and
  is what an answer on its way carries; `RotationInv` that with rotation a caller
  that is given a pair is the only one that has it until it is on file.
* `PairInOneHand`: with rotation, no two callers have been given pairs of one
  session at once. Proved, with no run of its own.
* `StaysLoggedIn`: while no refresh fails, nothing rotates and nobody logs in or out,
  nobody is logged out, however the refreshes of several processes overlap and
  requests are retried. `CalmInv` is its induction: until somebody reads a torn file
  or a request is refused past its token's margin there is one refresh token, which
  everybody reads, asks with and stores.

Every safety property that a passing run checks is stated by a theorem. Only
model-checked are the liveness properties (`EventuallyDrained`,
`EventuallyReported`, `Terminates`, `LockReleased`, `WaitEnds`, `ComesToAnEnd`,
`TriggerEnds`, `RecoversAfterBlip`), as TLAPS has no rule for fairness here. No
model uses a recursive definition, so nothing is left to induction over data.

## 6. What is not modelled, and why

The models concentrate on the few thousand lines in which something concurrent,
failing or delayed happens. Most of the repository is of another kind, and a
state machine of it would restate it:

* types and interfaces (`api`, `sdk-bundles-api`, most of `client/src/api`), and
  wrappers of one HTTP request each. What a failing request does to its caller is
  modelled at the callers;
* commands, prompts, formatting, progress output and the debugger's pages: one
  sequential pass from arguments to calls of the packages above;
* the debug workspace (`generate-debug-workspace.ts`, `fetch-dom-diffs.ts`): batch
  generation of files out of downloaded data;
* spans, signing, source instrumentation, redaction, session filters: pure
  functions over data, which unit tests reach;
* the launchers of recorder, replayer and loader, which fetch a bundle that is
  not in the repository and hand over to it; the coverage runtime, for the same
  reason; the virtual clock and random of the replay, which replace globals;
* the HTTP/2 plumbing of a tunnel worker, the docker calls of a container's push,
  the upload of a single asset chunk, the serial path of the extraction
  (`tar.extract`) and `streamDownloadAndInflateTar`: sequences of calls that hand
  the work to a library and succeed or throw;
* the per-file JSON cache of the download helpers, which is the lock of
  `ReplayArchive` around one file; the credential cache of `s3/storage.ts`, where
  concurrent misses share one promise and the worst order costs one more round trip;
* of the login, the callback server, the polling of the device flow and the
  migrations of older token files: one process, run by a person.

Modelled without a property, as the code promises nothing about it: a tunnel
worker's exit ends the launcher; the empty marker a killed process leaves; the
deaths and logouts listed in section 3. Not modelled because no property could
depend on it: the AUTH exchange of a tunnel socket has no timeout
(`open-socket.ts`), so opening a tunnel may wait for ever on a silent server.

External, and modelled only as the code uses it: the Workers runtime, S3, the
backend, the identity provider, Node's handling of rejections, proper-lockfile.
A lock holder whose event loop is blocked for longer than proper-lockfile's
staleness threshold can lose its lock while alive; the models leave that out.

What could follow: a composition of `CaptureBuffer` with `RecorderSession`, so that
the order of a request's events is followed from the Worker to the chunk; a
tunnel worker's pool of sockets.
