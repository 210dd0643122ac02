# VidForge: verification development

TLA+ models of VidForge, checked with TLC, with theorems checked by TLAPS.
VidForge takes video uploads, transcodes them to HLS on a queue of workers,
reports progress to a dashboard and job transitions to webhooks, shows published
videos to viewers, and manages the organisations, members, keys and viewers who
may do so.

Contents

1. The system: parts, state, interactions, what is hard about it
2. The modules and how they correspond to the code
3. The runs: what each asks, its bounds and why they are enough
4. Fairness
5. The proofs
6. Where the code and its comments disagree
7. What is only model-checked, and what is not modelled
8. What could come next

To check: `tlc -config X.cfg M` for the pairs listed in section 3, `tlapm M.tla`
for the eight proof modules (`TranscodePipelineTypes`, `TranscodePipelineProofs`,
`WebhookDeliveryProofs`, `ProgressStreamProofs`, `ViewersProofs`,
`MembersProofs`, `RolloutProofs`, `PortalProofs`). `PROJECT.json` holds the same
lists for tools, with the source lines behind every definition, the hazards, and
for every checked property a mutation of the code that breaks it.

## 1. The system

### Parts

| part | source | state it keeps | operations |
|---|---|---|---|
| api-gateway | `apps/api-gateway/src` | open SSE streams, the context of each request | REST to gRPC; role checks, uploads (register), lists, publishing, SSE bridge, playback |
| video-svc handlers | `apps/video-svc/src/service.ts` | none of its own; writes `TranscodeJob`, `Asset` rows, the queue, S3 | `submitTranscodeJob`, `generateThumbnails`, `cancelJob`, `deleteJob`, `streamProgress`, reads |
| transcode worker | `apps/video-svc/src/worker.ts`, `worker-main.ts` | map job id → `CancelToken` of each process | processor, `failed` handler, cancel subscriber |
| ffmpeg runner | `apps/video-svc/src/transcode.ts` | working directory of a job | download, probe, one ffmpeg run per rendition, upload |
| storage | `apps/video-svc/src/storage.ts` | S3 objects under `processed/<job>/` | `uploadDir`, `deletePrefix`, `downloadTo` |
| queues | `packages/queue/src` (BullMQ on Redis) | entries with state, attempts, lock; cancel channel | add, take, retry with backoff, stalled check |
| webhook publisher | `packages/webhooks/src/publish.ts` | – | one delivery per subscribed webhook and event |
| webhook delivery | `packages/webhooks/src/deliver.ts`, `target.ts`, `signature.ts` | – | re-read the webhook, check the target, sign, POST |
| jobs-svc | `apps/jobs-svc/src` | `Webhook` rows; runs the deliveries | register, list and delete webhooks, queue stats, queue-event feed, usage |
| auth-svc | `apps/auth-svc/src` | `Org`, `User`, `Viewer`, `ApiKey`, audit rows | sign-up, log-in, invitations, passwords, roles, viewers, API keys |
| context signing | `packages/svc-auth/src` | current and previous secret | sign, verify with age limit |
| health and drain | `packages/grpc-health/src`, `apps/api-gateway/src/main.ts` | serving status | drain on a signal, forced exit |
| dashboard | `apps/web/components` | asset and job lists, live overlay, EventSources | poll, page, upload, publish, listen, display |
| viewer app | `apps/viewer` | library list and search, player, watch position | search, page, play, throttled progress writes |
| metadata-svc, otel, proto, infra, e2e | | none | a stub, instrumentation, generated code, deployment, tests |

### How they interact

A client submits a job through the gateway. video-svc creates a `QUEUED` row,
adds a BullMQ entry whose id is the row's id, updates the asset and publishes
`job.enqueued`. A worker slot takes the entry, moves the row to `PROCESSING`
with an update guarded by the row's state, registers a `CancelToken`, runs the
stages, uploads the output object by object, moves the row to `COMPLETED` with
another guarded update, and marks the asset `READY`. If the processor throws,
BullMQ decides between another attempt and failure, and the worker's `failed`
handler writes `FAILED` when the attempts are used up.

Cancelling takes a queued entry out of the queue, writes `CANCELLED`, and
publishes the job id on a Redis channel that every worker process listens to;
the process that has a token for the job kills its ffmpeg. Deleting removes the
objects, then the row.

Each transition is handed to the publisher, which looks up the subscribed
webhooks and adds one delivery per webhook under a custom job id. jobs-svc works
the deliveries off. Meanwhile a dashboard polls the list of jobs and holds one
EventSource per active job, bridged by the gateway to `streamProgress`, which
listens to BullMQ's queue events.

Before any of that, the gateway asks auth-svc who is calling (`verifyToken`, which
reads the row again each time), and signs the answer into a context that the other
services verify; the context, not the row, is what a handler then decides with.
The secret behind it is rotated by redeploying the services with two secrets at once.

An uploaded file becomes an asset by `POST /v1/assets/register`, and a published
asset appears in the library of its organisation. Both lists are paged with the
last row as the cursor. A viewer's player reports its position and asks for it on return.

The parts share only the stores: Postgres, Redis and S3. No transaction spans
two of them, and each handler is an `async` function that anything may
interleave with at every `await`.

### What is hard

- **Check, await, act.** `cancelJob`, `deleteJob`, `streamProgress`, `inviteUser`,
  `assignRole`, `activateViewer`, `register` and the webhook processor read a row,
  await something, and act on what they read. The gateway's context is such a
  read too, and a bulk invitation acts on it up to fifty times.
- **Redelivery.** BullMQ hands a stalled entry out again while the first run is
  alive: two runs share a working directory, a token map keyed by job id and
  the rows.
- **Partial failure.** Postgres, Redis and S3 are written one after the other
  with no rollback. Some handlers have no `catch`: a rejection there ends the
  process, and every other call with it.
- **Lost messages.** Redis pub/sub keeps nothing. A cancel message that arrives
  before the run registers its token is gone.
- **Order.** Webhook deliveries run ten at a time, `job.enqueued` is published
  after the worker may have started, list answers and progress reports overtake each
  other, and database writes and queue events reach a watcher in either order.
- **Mixed versions.** During a rotation tasks with old and new secrets run side by
  side, crash and are replaced, while contexts are on their way.
- **Progress.** Every queued job has to end, over retries, backoff and stalls; a
  cancelled one has to give its worker back; a watcher has to learn of it; a
  draining process has to exit.

### What makes each part correct

| part | property |
|---|---|
| job state | no job that ended goes back to work; completion is announced once; a job in progress is not deleted (`ImplementsLifecycle`, `CompletedOnce`, `DeleteIsSafe`) |
| retries | `FAILED` only after the last attempt, with nothing left on the queue (`FailedIsExhausted`); every queued job ends (`Settles`), and until a process goes down somebody sees to it (`NothingStranded`) |
| output | a completed job has all its objects, an asset's playback URL points at complete HLS output, unless deletion was asked for or two runs shared a working directory (`CompletedHasOutput`, `PlaybackBacked`) |
| submission | one job per idempotency key (`OneJobPerKey`, proved) |
| cancellation | a cancelled job gives back its worker (`CancelFreesWorkers`); only a job that ended is given up as cancelled (`AbandonedIsEnded`) |
| webhooks | an event is queued for those who asked for it, and reported delivered or given up only for a reason (`ImplementsPromise`); an accepted event comes again only because its answer was lost or to make up for a fault (`AcceptedOnce`), attempts are bounded (`SentWithinAttempts`), a deleted webhook hears nothing but what was under way (`StopsAfterInFlight`), every delivery ends and no published event is forgotten (`DeliveriesEnd`, `PublishedIsQueued`) |
| watching a job | a stream ends once (`EndsOnce`), a list ends up with the truth (`ListEnds`), and what the board takes for a job's end is its end (`EndLasts`), because it then stops polling |
| context signing | throughout a rotation, no verifier refuses a context in its lifetime because its secret was rotated out (`OldContextsVerify`); that it refuses none because the secret is new to it is false (`ContextsVerify`, section 6) |
| deployment and drain | a stopped task exits (`DrainEnds`) |
| viewers | a settled revocation keeps the address out, also from sessions handed out before (`RevocationHolds`); a settled invitation leaves a way in (`InvitationHolds`); nobody holds a session without having activated (`SessionsActivated`) |
| members, API keys | a password somebody chose is not replaced by an invitation (`ChosenPasswordHolds`); an organisation keeps an owner unless a write went by outdated facts (`OwnerRemains`); a clash of names costs nobody the sign-up (`NameClashSurvived`) |
| uploads | one asset per upload, unless two registrations overlap (`OneAssetPerUpload`) |
| lists | pages repeat nothing and leave nothing out (`ListIsGapless`); the first page shown is that of the last search (`SearchIsLatest`) |
| watch position | a viewer who comes back starts where he left, where his reports are taken (`ResumesWhereLeft`) |

## 2. The modules

| module | what it is |
|---|---|
| `JobLifecycle` | abstract specification: the states a job goes through and the announcement of its completion, as a client sees them |
| `TranscodePipeline` | video-svc handlers, queue, workers, ffmpeg stages, S3, cancel channel, asset rows; implements `JobLifecycle` |
| `EventDelivery` | abstract specification: for whom an event is queued and how its delivery ends, as the owner of a webhook sees it |
| `WebhookDelivery` | publisher, delivery queue, delivery processor and receiver, webhook registration and deletion; implements `EventDelivery` |
| `ProgressStream` | `streamProgress`, the SSE bridge and the job board, over a job reduced to what a watcher can tell |
| `Viewers` | auth-svc's viewer handlers: invitation, revocation, activation and login |
| `Members` | auth-svc's member and API-key handlers, with the gateway's `requireRole` and the bulk invitation in front of them |
| `Rollout` | context signing over a rotation of its secret, composed with the rolling deployment, health, drain and forced exit of the services |
| `Portal` | registration of uploads, publishing, the paged lists of dashboard and library, search, and the viewer's player |
| `TranscodePipelineTypes`, `TranscodePipelineProofs` | proofs about `TranscodePipeline`, and of the refinement |
| `WebhookDeliveryProofs`, `ProgressStreamProofs`, `ViewersProofs`, `MembersProofs`, `RolloutProofs`, `PortalProofs` | proofs about the module of that name; the first also of the refinement |
| `MC...` | values of the constants for TLC |

`TranscodePipeline` and `WebhookDelivery` meet at `Publish`: the first records
the events that are handed over, the second takes calls of `publish` as its
input, in any order. `ProgressStream` has its own small version of the job,
because it needs the order between database writes and queue events, and none
of the stores. `Viewers` and `Members` are about one process and different tables;
they share its crashes, which both have. `Rollout` composes signing, deployment and
draining, which meet in the tasks: what a task may sign or verify depends on when it
started, and whether a call is answered on when it stops. `Portal` has three pages over one table of assets;
each behaviour is about one of them, chosen by `Init`, because a page is a load of its own.

### How code becomes actions

A handler is one action per `await`. Node runs the code between two awaits
without interruption, so it is one step; at the await anything may happen. The
program counter of a call in flight is `req[r].pc` or `call[c].pc`, of a processor run
`run[s].pc`, and holds the name of what is awaited next. Requests that are
refused before they write change nothing and are left out.

**TranscodePipeline.** `row`, `asset` are the Postgres tables, `s3` the objects
of each job, `entry` BullMQ's record, `run` the processor run of a worker slot,
`activeTokens` each process's token map, `cancelMsgs` messages not yet received,
`failWrite` a `failed` handler between its call and its update, `torn` the runs whose working
directory another run has removed.

| code | actions |
|---|---|
| `submitTranscodeJob`, `generateThumbnails` | `SubmitLookup` (idempotency lookup) → `SubmitCreate` → `SubmitEnqueue` → `SubmitAsset`; `SubmitError` for the catch |
| `cancelJob` | `CancelRead` → `CancelRemove` → `CancelUpdate` → `CancelPublish` |
| `deleteJob`, `deletePrefix` | `DeleteRead` → `DeleteList` → `DeleteObjects` → `DeleteRow` |
| a write to a row that is gone | `RowGone`, `FailWriteGone`, `ProgressOnDeletedRow`: Prisma rejects, nothing catches it, the process ends |
| processor | `Start` or `StartRefused` → `SetToken` → `Download` → (`BeginStage` → `EndStage`)* → `EndLastStage` → `UploadFile`* → `UploadDone` → `Complete` or `CompleteRefused` → `Announce` → `MarkReady` → `Finish`; `AbortStage`, `TranscodeError`, `DbError` |
| `failed` handler | `FailAttempt` (decides, publishes `RETRYING`) → `FailWrite` |
| cancel subscriber | `ReceiveCancel` |
| BullMQ (external) | `Claim`, `ClaimStalled`, `Promote`, `Stalled`, `LockLost`, `Finish`, `LateReport`, `AfterFail` |
| faults | `ApiCrash`, `ProcCrash`, `LockLost`, at most `MaxFaults` |

What is abstracted: ids are model values; a job's profile is its kind, `"hls"`
(renditions, segments and a playlist) or `"thumbs"` (one stage, images only);
the stored output is a set of up to two objects, enough for an upload or a
deletion to stop half way; the number of renditions is the constant `Stages`;
progress percentages are left out. The events are a set: repeating an
event with the same attempt makes the same event id, which is how
`publish.ts` identifies them. A slot's runs share `/tmp` with the other slots of its
process, so `Throw` and `UploadDone` (the `finally`) remove the directory under every run of the same job there
(`Sharing`, `RemoveDir`); a torn run may find any part of its files, also none, when it uploads. The history variable
`excused` holds the jobs whose deletion was asked for or a run of which uploaded so. Two worker processes
are taken to have a `/tmp` each, as containers do; two on one host without containers are one process in this respect.
A failing `queue.remove` in `cancelJob` is swallowed by its catch, so `CancelRemove` may leave the entry.

**WebhookDelivery.** `pub` are calls of `publish` (`PublishFind`, `PublishAdd`,
`PublishLost` for its catch and for a crash), `delivery[h][e]` is BullMQ's entry
with the custom id made of webhook and event, `run` a slot of the processor:
`Take` → `FindHook` or `Skip` → `RefuseTarget`, `Post` or `NetworkError` →
`Accepted`, `AcceptedUnheard` or `Rejected` → `Finish` or `FailAttempt`. `sent`, `acked` and
`late` record what a receiver saw, `unheard` the acceptances whose 2xx was lost or came after the timeout: for
the sender they are failures. Any refusal of the URL by `target.ts` is
`RefuseTarget`; signatures and payloads are data. jobs-svc serves
`deleteWebhook` and runs the deliveries in one process, so a second delete of
one row (`DeleteRowGone`) takes the deliveries down. `Choices` are the event types a
registration may name.

`EventDelivery` has no slots, locks, rows or POSTs. Its `asked` and `gone` are read off the
webhook rows, `fate` and `tries` off BullMQ's entries (waiting, delayed and active are all
`"queued"`; `tries` is `attemptsMade`), `heard` off what the receiver accepted, and `refusing`
off the slots about to report an error that BullMQ does not retry. A delivery in it leaves `"queued"` only by
`Completes`, which needs the receiver's acceptance or the webhook's deletion, and by `GivesUp`, which
needs the last attempt or a final refusal.

**ProgressStream.** The job side is `row`, `entry`, `worker`, `cancel` and the
queue `events` video-svc has not handled yet. `streamProgress` is `StreamFind`
(the read) → `StreamSubscribe` (listeners registered, or the end reported) →
`HandleEvent`. The board is `listed` (the `jobs` state), `live` (the overlay),
`source` (the open EventSource) and `poll` (list requests in flight). After the update to `COMPLETED`
the processor may still fail, in the asset update; BullMQ then retries an ended job.

**Viewers.** `viewer` is the table, `call` the handlers in flight, `links` the rows a
link was mailed for, `sessions` the rows a token was handed out for.

| code | actions |
|---|---|
| `inviteViewer` | `InviteRead` → `InviteUpdate` (the row is there), `InviteCreate` or `InviteRefused` (the unique index) → `InviteMail` → `Audit` |
| `revokeViewer` | `RevokeRead` → `RevokeWrite` → `Audit` |
| `activateViewer` | `ActivateRead` → (the hash) → `ActivateWrite` → `Session` |
| `viewerLogin` | `LoginRead` → (the comparison) → `Session` |
| `verifyToken` | `Accepts`, a state function: it reads the row again at every use |
| faults | `Error` (any await rejects; the handler's catch answers), `Down` (the process ends) |

`barred` and `welcome` are history variables. An address is barred from the moment a
revocation writes, unless an invitation decided earlier has still to be written,
and until the next invitation reads; `welcome` is the mirror image. They make
precise when a revocation or an invitation is *settled*: two that overlap may end
either way, and only a decision nothing older can overwrite is held to. A password is
there or not; a link or a session does not expire in the model, which lets more happen.

**Members.** `orgs`, `user`, `apiKey` are the tables, `call` the requests, each with the
context the gateway got for it (`actor` or `key`, `rank`, `org`), `sessions` who holds a token.

| code | actions |
|---|---|
| `requireRole` | `Gate`: `Accepts` for a session, `KeyAccepted` for a key; the rank stays with the request |
| `signUp`, `attemptSignup` | `SignUpRead` → `Slug` → `Commit`, or `Collide` → `Slug` (random bytes) → `Commit` or `Collide` |
| `inviteUser` | `InviteRead` → (the hash) → `InviteUpdate` or `InviteCreate`; a bulk invitation returns to `"Gated"` (`Answered`) |
| `changePassword`, `login`, `issueDevToken` | `ChangeRead` → (the hash) → `ChangeWrite`; `Login`; `IssueDevToken` (not in production) |
| `assignRole` | `RoleRead` (all refusals) → `RoleWrite` |
| `createApiKey`, `revokeApiKey` | `KeyCreate`, `KeyRevoke` |
| faults | `Error` where a catch answers; `Down`, which a rejection in a handler without a catch is enough for |

`chosen`, `refused`, `disputed` and the field `fresh` of a call are history. They say
which overlaps the code does not guard against: an invitation that read a row as
pending while its owner chose a password; a role written although the row or the
actor changed after they were read (`fresh` is lost when the actor is demoted or the key
revoked; the request, a bulk invitation with all its rows included, goes on). The properties are about everything else. All sign-ups ask for organisations of one
name: sign-ups of different names do not meet. An organisation is identified by its
slug, and the transaction's isolation by the two unique indexes (`IndexesFree`).

**Rollout.** `store` are the two secrets in Secrets Manager, `step` and `waited` the
operator's place in `README-secret-rotation.md`, `task` each ECS task with the secrets it read when
it started, `call` a request with the age and the secret of its context.

| code | actions |
|---|---|
| `signContext`, `verifyContext` | `Sign`; `Verify` (`Candidates`, `Expired`); `Tick` is time |
| the rotation procedure (external) | `CopyToPrevious` → `SetCurrent` → `RolloutDone` → `ClearPrevious` |
| ECS (external) | `Start` (reads both secrets), `Stop` (the signal, once a new task replaces it), `Crash` |
| service start | `Bind` |
| `drainOnSignals`, the gateway's `shutdown` | `Stop` → `CloseStreams` (gateway) → `Drain` (no call left) → `Exit`; `ForceExit` after the grace period |
| the end of a call or stream | `Answer`; a bulk invitation goes on with the context it has |

What ECS waits for before it stops an old task is `Replaces`. The task definitions of auth-svc and video-svc
(`ecs-auth.tf:43-77`, `ecs-video.tf:68-100`) have no `healthCheck` and no target group, so a new task only has to be
running; the gateway's load balancer asks `/healthz`. Services are redeployed in any order and all at once if ECS
likes. The clocks of all tasks agree; the refusal of contexts from the future is left out with that.

**Portal.** `asset` is the table in the order of creation, with the number of the publish call as
the date of publication (0: not published).

| code | actions |
|---|---|
| `POST /v1/assets/register` | `RegisterRead` → `RegisterCreate` or `RegisterFails` |
| `PATCH /v1/assets/:id/publish` | `Publish` |
| `GET /v1/assets`, `GET /v1/portal/library` | `ListRead`: order (`Precedes`), cursor (`Starts`), page (`Taken`) |
| `AssetsBoard`, library page | `Refresh`, `Type` → `Debounce` (with the effect's cleanup, `Superseded`), `LoadMore`, `ShowFirst`, `ShowMore`, `ListFails` |
| watch page | `Open` → `Lookup` or `LookupFails` |
| `Player` | `Manifest`, `Fatal`, `Play`, `TimeUpdate`, `Due`, `Pause`, `Hide`, `Leave`, `LeaveUnplayed` |
| progress report | `ReportOr` (with `ShouldReport`) → `ReportLands` or `ReportFails` |

`raced`, `whole`, `seen`, `found`, `missed`, `sure` and `left` are history. They name
the cases excepted from the properties: registrations that overlap, a refresh answered while
`loadMore` waits, a publication between two pages, a failed request, a
report that another can overtake. A title contains the one text one can search for or not (`Matching`).

## 3. The runs

| run | module / cfg | question |
|---|---|---|
| `runs` | `MCTranscodePipeline` / `PipelineRuns` | What do two runs of one job do to each other and to a call, for both kinds of job? |
| `calls` | … / `PipelineCalls` | What do two calls against one job do to each other and to a run; does every job end, and a cancelled one leave its worker? |
| `hooks` | `MCWebhookDelivery` / `Webhooks` | How often can a receiver get an event, and for how long after deletion; is every event queued and every delivery ended? |
| `progress_lists` | `MCProgressStream` / `ProgressLists` | Does a stream end once, a list end up right, and an end shown last? |
| `viewers` | `MCViewers` / `Viewers` | Do revocations and invitations hold against the activations and logins they overlap with? |
| `members` | `MCMembers` / `Members` | What do sign-ups, invitations, password changes, role changes and keys do to each other, decided on rows and contexts read earlier? |
| `rollout` | `MCRollout` / `Rollout` | Is no secret rotated out too early, and does every process exit, while a secret is rotated twice? |
| `portal` | `MCPortal` / `Portal` | Do uploads, lists, searches and watch positions survive the order their requests land in? |
| `cancelled_failed`, `orphaned_output`, `progress_display`, `rollout_contexts` | | counterexamples, see section 6 |

Bounds, and why they are enough:

- **`runs`**: one worker process with two slots, two attempts, one stalled
  redelivery allowed, one fault, one call at a time, both kinds of job. Two slots are what a lost
  lock needs to have two runs of one job; that they are of one process makes them share the token
  map and the working directory, which two processes do not. Two attempts separate "retry" from
  "give up"; the fault is a crash anywhere or a lost lock anywhere. The second
  run may overtake the first at each of its dozen awaits. The slots are interchangeable
  (`SymSlots`); the refinement is a safety property, for which that is sound. Two
  processes, and two jobs, of which no token or message reaches the other, are left to the theorems.
- **`calls`**: two calls at once (cancel and delete, delete twice, cancel twice), a process
  with two slots, so that one run may drop another's token, two stages, so that a cancel may arrive
  between them, two attempts, no crash and no lost lock; a process still ends by an unhandled
  rejection, when a call or a run writes to a row that is gone. A
  handler reads a job's row only once, so a third call adds no kind of overlap. Calls that overlap with a crash are in
  `runs`, one at a time. No symmetry is used, because of the temporal properties.
- **`hooks`**: one event published twice (what the custom job id is for), by two calls
  at once, two slots, two deletes at once, two attempts, one fault of any kind and any number of lost answers; the webhook may ask
  for the event's type, for another one, or for both. The run also checks the refinement.
  Deliveries of different events or webhooks share nothing but the slots.
- **`progress_lists`**: one job with two attempts and one browser; two list
  requests, so that one answer may overtake the other; one stream at a time, one
  progress event pending, one lost connection or failed request.
- **`viewers`**: two addresses; two row ids, so that a missing index would give one
  address both; three calls, so that an activation, an invitation and a revocation of one
  row are in flight together. Errors and crashes are unbounded, and so is the number
  of calls made one after the other.
- **`members`**: two people, two calls in flight and one key; the roles VIEWER, ADMIN and OWNER
  (EDITOR may do what VIEWER may in these handlers); two numbers for a slug, so that a
  sign-up finds the first taken; `Production = FALSE`, which lets `issueDevToken` hand out a
  session for a temporary password. Two owners may demote each other, an owner may be demoted
  by a key, and both may be in between the gateway and the write. Errors, crashes and the number of calls
  one after the other are unbounded.
- **`rollout`**: the gateway and one verifying service, two task ids each, so that the old
  and the new task of a deployment overlap; one call at a time, unary or a stream;
  `MaxAge = 1`, so that a context is fresh, nearly too old, or expired; three
  secrets, which is two rotations, so that what the first leaves behind meets the second. Every task
  may crash at any
  time. `rollout_contexts` is the same instance.
- **`portal`**: pages of one row, the smallest on which a cursor can go wrong; three
  assets for the dashboard's list; two assets and three publications for the library, so that the
  cursor's row may be unpublished or published again; one video of length two with two publications;
  two requests of each kind, so that one may overtake the other. Any report may be refused.

Deadlock is not checked: a finished system stops (all jobs deleted, all calls
answered, all secrets made), so every model has states without a successor that are correct. The
liveness properties say what must not stop.

Each property has a mutation in `PROJECT.json` that breaks it, e.g. dropping the
state guard of the update to `PROCESSING` breaks `ImplementsLifecycle`, letting an
invitation overwrite a member who has chosen a password breaks `ChosenPasswordHolds`,
verifying with the current secret only breaks `OldContextsVerify`, and leaving the
`forced` flag out of the throttle breaks `ResumesWhereLeft`.

## 4. Fairness

`Fairness` states what the runtime gives and nothing about people or faults:

- Weak fairness of each call's and each run's next step: Node runs the
  continuation of every await that has been answered, and Postgres, S3, Redis
  and ffmpeg do answer, with an error or without.
- Weak fairness of taking, promoting and the stalled check, per job: BullMQ's
  workers poll and its timers fire. In `WebhookDelivery` taking is strongly fair
  per delivery: BullMQ serves waiting entries first come, first served, so one
  that waits again and again while slots free up is taken at some point.
- Weak fairness of receiving a cancel message that has been published.
- In `ProgressStream`, the browser's timer and requests go on. Handling a message
  is strongly fair, because the EventSource delivers what it has in order even
  if answers to list requests keep coming between.
- In `Rollout`, weak fairness of `ForceExit` alone: `setTimeout` fires. Nothing is
  assumed of calls, streams or `CloseStreams`, since `DrainEnds` is about what happens
  when they do not end.

New requests, errors, crashes and lost connections have no fairness. A step of a
run that can fail may fail instead, so nothing assumes that an attempt succeeds.

A POST is taken to end. The timeout of `deliver.ts:58, 66` is one of socket inactivity, so a receiver that sends its
answer a byte at a time keeps an attempt open for as long as it likes: `DeliveriesEnd` assumes that none does.

`Settles` starts from a job that is *on the queue*. A submit that dies between
the insert and `queue.add` leaves a `QUEUED` row that nothing will ever move
(`service.ts:148`), which is why the property does not start from the row. `NothingStranded` is the part of
it that needs no fairness.
The run `calls` has no crash: after a crash between BullMQ's failure and the
`failed` handler's update, the row stays `PROCESSING` for good.

## 5. The proofs

Every invariant that a run checks is proved, and so are both refinements: for every number of jobs,
assets, webhooks, events, streams, viewers, members,
keys, services, tasks, uploads, calls, processes and slots, every limit, and any number of faults.
Only liveness is left to TLC (section 7).
The assumptions are those on the constants in each module (`PipelineAssumption`, `WebhookAssumption`,
…): they type the constants, exclude zero where the code does (attempts, stages, rows of a page) and
say that `None` is
no value. `WebhookAssumption` also says that the slots of jobs-svc are finitely many, since the
bounds count them. No theorem has a hypothesis of its own.

| module | theorem | states |
|---|---|---|
| `TranscodePipelineTypes` | `PipelineWellFormed` | `Spec => []WellFormed` |
| | `PipelineTypeCorrect` | `Spec => []TypeOK` |
| `TranscodePipelineProofs` | `FailedMeansExhausted` | `Spec => []FailedIsExhausted` |
| | `DeletesOnlyEndedJobs` | `Spec => []DeleteIsSafe` |
| | `CompletionAnnouncedOnce` | `Spec => []CompletedOnce` |
| | `CompletedJobsHaveOutput` | `Spec => []CompletedHasOutput` |
| | `PlaybackUrlsAreBacked` | `Spec => []PlaybackBacked` |
| | `KeysNameOneJob` | `Spec => []OneJobPerKey` |
| | `OnlyEndedJobsAreAbandoned` | `Spec => []AbandonedIsEnded` |
| | `NoJobIsStranded` | `Spec => []NothingStranded` |
| | `PipelineImplementsLifecycle` | `Spec => ImplementsLifecycle` |
| `WebhookDeliveryProofs` | `DeliveryWellFormed`, `DeliveryTypeCorrect` | `Spec => []WellFormed`, `Spec => []TypeOK` |
| | `OneAcceptance` | `Spec => []AcceptedOnce` |
| | `AttemptsBounded` | `Spec => []SentWithinAttempts` |
| | `DeletionStopsDelivery` | `Spec => []StopsAfterInFlight` |
| | `DeliveryKeepsPromise` | `Spec => ImplementsPromise` |
| `ProgressStreamProofs` | `StreamTypeCorrect` | `Spec => []TypeOK` |
| | `StreamsEndOnce` | `Spec => []EndsOnce` |
| | `EndsLast` | `Spec => []EndLasts` |
| `ViewersProofs` | `ViewersWellFormed`, `ViewersTypeCorrect` | `Spec => []WellFormed`, `Spec => []TypeOK` |
| | `RevokedStayOut` | `Spec => []RevocationHolds` |
| | `InvitedMayEnter` | `Spec => []InvitationHolds` |
| | `SessionsAreActivated` | `Spec => []SessionsActivated` |
| `MembersProofs` | `MembersWellFormed`, `MembersTypeCorrect` | `Spec => []WellFormed`, `Spec => []TypeOK` |
| | `NameClashesAreSurvived` | `Spec => []NameClashSurvived` |
| | `ChosenPasswordsHold` | `Spec => []ChosenPasswordHolds` |
| | `OwnersRemain` | `Spec => []OwnerRemains` |
| `RolloutProofs` | `RolloutWellFormed`, `RolloutTypeCorrect` | `Spec => []WellFormed`, `Spec => []TypeOK` |
| | `OldContextsAlwaysVerify` | `Spec => []OldContextsVerify` |
| `PortalProofs` | `PortalTypeCorrect` | `Spec => []TypeOK` |
| | `ListsAreGapless` | `Spec => []ListIsGapless` |
| | `UploadsClaimedOnce` | `Spec => []OneAssetPerUpload` |
| | `ViewersResume` | `Spec => []ResumesWhereLeft` |
| | `LatestSearchShown` | `Spec => []SearchIsLatest` |

### The transcode pipeline

**WellFormed.** `TypeOK` is not inductive: `attempt \in 0..MaxAttempts` is
preserved by `TakeJob` only if no waiting entry has used all its attempts, and
every use of `row[run[s].job]` needs a run with a job. `WellFormed` adds four
parts: `RunOK` (a run works on a created job and an attempt that exists), `ReqOK`
(the same for calls), `EntryOK` (an entry that will run again has an attempt
left, and the slot holding its lock is on the attempt after those counted) and
`EnqueueOK` (a job is queued by one call, and before that has no entry). The
last is why a job is never reset to its first attempt.

**FailureOK** extends `FailedIsExhausted` to the time between `FailAttempt` and
`FailWrite`, when the failure is decided and not yet written. `EntryOK` gives that
the failing attempt is the one after those counted, so `Exhausted` means that all
of them are.

**DeleteIsSafe** is inductive over `WellFormed`: no action leads from an ended
state to a live one. That is the heart of the pipeline's safety, and it rests on
the two guarded updates `Start` and `Complete`; the unconditional ones lead only to
ended states.

**AnnounceOK** strengthens `CompletedOnce` with the runs that are about to announce:
at most one per job, its row past `PROCESSING` and its completion not yet
announced. As nothing leads back to `PROCESSING`, the guard of `Complete` admits no
second run.

**OutputOK** follows the output from the upload on. While a run uploads, what is
stored and what it still has to store cover the job's files (`RunKeeps`); once it has
uploaded them they stay, whatever other runs do, unless `deleteJob` got
past its checks or the run uploaded from a torn directory (both mark the job `excused`). `PlaybackBacked` follows from `MarkReady`'s precondition in the same
invariant. The frame lemmas (`RowsFixedStep`, `ObjectsFixedStep`, …) say once, for
all actions, what they leave alone.

**KeysOK** adds to `OneJobPerKey` that a row not yet created has no key; the unique
index does the rest.

**AbandonOK** follows a cancellation from the row to the run. `MessageOK`: nobody is told of one before
the row says `CANCELLED`, and `RowsAgeStep` that no row comes back from there. `TokenOK`: a token in a process's
map is that of a run of this job inside `runTranscode`, because whoever leaves deletes the entry. It may be
the token of another run of the job, or none where two overlap, but never that of another job; so whom
`ReceiveCancel` stops had it coming. `RunMoves` says once what any action does to a slot: nothing, empty it,
give it an entry, tell it, or move it on.

**ReachOK** and **HeldOK** strengthen `NothingStranded`, which is not inductive: an active entry is seen to by the
slot in its lock, so one needs that no lock was lost, that nothing has stalled, that
the holder is still at work on it (`HeldOK`), and that an entry that failed while its row is live has its
`FAILED` on the way. The hypothesis `Undisturbed` is needed: a crash between BullMQ's
verdict and the update strands the row, and so does a write to a deleted row, which takes the `failed`
handlers of other jobs down with its process; a job past its stall limit with attempts left
stays `PROCESSING` as well.

**Refinement.** `LifeInitial` and `LifecycleStep` show that initial states map to
initial states and every step of the pipeline to a step of `JobLifecycle` or to a
stutter, under the mapping from rows to states and from `COMPLETED` events to
announcements. `Start` of a job already `PROCESSING` (a retry) and the unconditional
rewrites of a terminal state are among the steps that show why the abstract moves
are as wide as they are. `AnnounceOK` serves the refinement too: an announcement may
only be made of a job not yet announced.

### Webhooks

`WellFormed` adds to `TypeOK` that a delivery that is not over has an attempt left
and that the slot holding its lock is at the attempt after those counted (`EntryOK`). The
two bounds cannot be inductive as they stand, because they say nothing of slots that have read the
webhook and will post. A slot *holds* a delivery while BullMQ agrees that it does,
and works *behind* its back once the lock is lost. `SentOK` counts what was sent and the
slots behind that may still post (`Unposted`) against the faults and the attempts the
rightful slots have used (`Posted`); `AckedOK` does the same with those
that may still be accepted (`Unaccepted`), the acceptances nobody heard of (`unheard`) and a delivery that is accepted for good (`Over`). A lost lock moves
one slot behind and counts one fault; a crash or a second deletion empties the slots
and counts one; every other step leaves the balance as it is (`Balanced`), or adds a post on both sides.
`LateOK` counts late posts and the slots about to send (`Sending`): a slot only
gets there by reading an active row, so after the deletion their sum never grows.

**Refinement.** The invariant behind it, `PromiseOK`, has three parts, one for each kind of abstract step
that would else be impossible. `HookOK`: a webhook asks for no type exactly when it is not registered, so
`RegisterWebhook` is `Registers`. `AddressOK`: what a call of `publish` has found, and what is queued, was asked
for, because rows are never un-asked; so `PublishAdd`, which writes an
await later than it read, is `Queued`. `WorkOK`: a slot works only on what is queued, and one that is done was
accepted or found the row gone; so `Finish` is `Completes`. `FatesMove` maps each write to
BullMQ's entries, and `RefusingMoves` says that only an attempt that was finally refused begins to be
refusing. The rest is one lemma per group of actions (`AddKeepsPromise`,
`QueueKeepsPromise`, `WorkKeepsPromise`, `ReportKeepsPromise`, `DownKeepsPromise`). A slot that lost
its lock maps to `Accepts`, `Refuses` or nothing, never to a report: BullMQ checks the lock.

### Progress streams

`StreamOK` says that a stream still open has only written active states: the end and what
must come right before it are written in one step that closes the stream. The
type invariant needs that an entry waiting for a worker has attempts left.

`EndLasts` follows from `ToldOK`: while the row is active, nothing between the worker and the board says that
the job is over (`Unaware`), neither a processor that returned, nor a queue event, a
stream, what a stream has read, or a list answer; and no row becomes active again, because the
update to `PROCESSING` is guarded (`EndedStays`). A stream's `FAILED` has to be excepted: the
queue's event goes out before the row is written, and possibly with attempts left.

### Viewers

`WellFormed` is `TypeOK` with two parts: `CallOK` (a call past its read holds
a row of its address, or none if it is about to create one) and `OneRow` (no two rows of
one address, which is the index). `DecisionOK` is the invariant behind both decisions. Its
part `Settled` says that a barred address has no invitation between read and write and
a welcome one no revocation, so the only writes to its row that are left to come are
those of its own decision and of activations. `WriteRow` and `OthersKept` reduce each of
the three writes to what it does to one row: an activation leaves `revokedAt` alone, and
that is the whole reason why a late one cannot undo a revocation. `SessionOK` adds
to `SessionsActivated` that a call about to hand out a session has an activated row
(`ActivatedOK`); no write takes that back. `InvitedMayEnter` needs both: an activated
row that is not revoked has a password to log in with, and one that is not activated still
accepts the link.

### Members

`WellFormed` adds what a call may rely on between its read and its write (`Fine`): rows
are never deleted and never change organisation, so the row read is still there and still of the
actor's organisation. `KeyOK` and `OrgOK` say the same of keys and of slugs with random bytes, which
only their
sign-up can have taken; that is why the second collision of a sign-up is about its address.
`ChosenOK` strengthens `ChosenPasswordHolds`: no invitation that read the row as pending is in flight
(`Reinviting`), and none can start. `OwnerRemains` needs that a request nothing has overtaken acts
with the authority its actor or key has (`AuthorityIsCurrent`, an invariant of the proof: whatever changes a row
or a key marks the requests of its actor), in
`DemotedByOwner`: who demotes an owner on facts that still hold is another owner, because the guards
of `assignRole` let nobody lower a rank above his own nor his own, so somebody remains.

### Rollout

`WellFormed` adds that a call's tasks live as long as the call (`CallOK`). For
`OldContextsVerify`, `RotationOK` says for each step of the procedure what the stored secrets
are to each other (`StoreOK`), which ones a living task may have read (`TaskOK`), and which
secret an unexpired context may carry (`ContextOK`): one with the previous secret was signed before
step 3 ended, and is at least as old as the wait of step 4, so it has expired when the slot is cleared.
A verifier that was not yet redeployed has an older current secret than a context it does not know
(`Known`), which is the case the property leaves to `ContextsVerify`.

### Portal

Three of the properties have an invariant each. `ClaimOK`: an upload nobody raced for is claimed by one call or is
one asset, never both. `RowOK` and `StartOK`: while the row is to say where the viewer left, it says
so unless reports of that position and no other are on their way. `SearchOK`: every search in flight
is for the last text, because `Debounce` discards the others, and the rows shown are of that
text unless such a search is in flight or has failed.

`ListIsGapless` compares what the page shows with the rows in order (`InOrder`, a `CHOOSE`), so first
the order has to exist. It does, and is unique, without an induction over sets: mapping each row to
the number of rows before it is an injection into a set of the same size, hence onto, and its
inverse is the order (`NewestFirst`, `PlacesOfRows`, `OrderedPlaces`, `InOrderPlaces`). `TakenRows`
then says which rows an answer holds, by their places from the cursor's on. `RowsMove` says what
time does to them: a registration moves every
row of the dashboard's list down by one and nothing else does, publications reorder the library's. The
property is not inductive: it says nothing of the answers on their way. `PageInv` adds that each answer
holds the rows that follow its cursor, unless something was published meanwhile (`ReadOK`), that a request
for more has the cursor of the list it will be appended to (`MoreOK`), and that the rows a tab shows follow each other
in the order from some place on (`TabOK`), which registrations move and refreshes set back to the top.

## 6. Where the code and its comments disagree

Each of these has a run that TLC ends with a counterexample.

- **A cancelled job becomes FAILED** (`CancelledNeverFailed`). `worker.ts:114` says
  of the `failed` handler "Cancellations already wrote their terminal state; don't
  mark FAILED." It recognises a cancellation by its own run's error. A run that
  did not see the cancel message and fails its last attempt for another reason, or
  whose handler is already on its way to the update, writes `FAILED` by id over
  `CANCELLED`.
- **Deleting leaves objects behind** (`NothingOrphaned`). `service.ts:287-288` says
  "so nothing is orphaned". A cancelled job may be deleted while its run is still
  in `uploadDir`, which does not look at the token; what it stores after the list
  was taken stays in S3 without a row.
- **The board shows an ended job as running** (`DisplayEnds`). `JobsBoard.tsx:205-206`
  describes polling as the fallback for a stream that misses the end. Polling
  updates the list, but the display prefers the last event of the stream, which is
  never removed: a queued job that is cancelled, for which BullMQ emits neither
  `completed` nor `failed`, goes on being shown as QUEUED.
- **A rotation refuses fresh contexts** (`ContextsVerify`). `README-secret-rotation.md:5-10` says that in
  a plain replacement "any service still running the old task definition would immediately start rejecting"
  what redeployed ones signed, and that "Both secrets support a rollout-safe rotation instead." Its step 3 sets no
  order among the services, and `ecs-ci-deploy.sh:53-61` updates them all in one loop (jobs-svc not at all). A gateway that
  is redeployed, or crashes after step 2 and is replaced, before a verifier is, signs with a
  secret that verifier does not have, and the fresh context is refused: exactly the case quoted. The
  previous slot helps in the other direction only, from old signers to new verifiers, which is what
  `svc-auth/src/index.ts:10-13` claims and `OldContextsVerify` proves. Redeploying
  the gateway after all verifiers, with no crash of a gateway from step 2 on, would close the gap.

More behaviours were seen while modelling. No run is kept for them; where a property would
contradict them, its statement or a constant says so.

*Jobs and webhooks.* `cancelJob` decides on a state read two awaits before an unconditional
update, so a job that completed in between becomes `CANCELLED` after its completion was
announced (`video-svc/src/service.ts:266`). A cancel message that arrives before `activeTokens.set` is
dropped and the run goes to its end (`worker.ts:48`). A job may be `COMPLETED` and its asset not
`READY`, when the asset update fails or the worker dies before it, or when
`submitTranscodeJob` writes `PROCESSING` after the worker wrote `READY` (`worker.ts:98`,
`service.ts:160`). This is why `JobLifecycle` lets a completed job be cancelled and why no property
relates an asset's status to its jobs. `e2e/tests/api/webhooks.spec.ts:113-117` expects enqueued,
started, completed in this order, but `job.enqueued` is published after the worker may have started
(`service.ts:165`) and up to ten deliveries run at once. The job board's polling every two seconds
puts the list back to its first page, whatever pages were loaded.

A receiver may accept a delivery and its 2xx be lost or come after the timeout (`deliver.ts:58-67, 115-118`); the
attempt then fails and BullMQ posts again, without any fault. `AcceptedOnce` counts these.

*Deployment.* `README.md:98-101` says that the services "stay NOT_SERVING until their port is bound, so
nothing is routed to a task that isn't ready". Nothing in the task definitions of auth-svc and video-svc asks
for that status, so ECS may stop the last task that takes calls before the new one does, and no property
claims that a service stays up. `worker-main.ts:47-54` drains without a timer, although `README.md:97` says that
everything force-exits after the grace period.

*Members.* `assignRole` writes by ids read earlier: an owner may be demoted by somebody whose own
demotion was written in between, and two can leave an organisation without an owner (`auth-
svc/src/service.ts:433-442`). Two
invitations of one new address both find no row; the index refuses the second create in a handler without a
catch, and the unhandled rejection ends auth-svc. An invitation that read a row as pending puts a
temporary password over the one chosen
meanwhile (`service.ts:297`). A bulk invitation goes on with its context for all its rows (`account.ts:113-147`), after its key was revoked or
its actor demoted as well.

*Portal.* Two registrations of one upload that overlap make two assets, although
`e2e/tests/api/uploads.spec.ts:22` calls the key a one-time claim ticket. The gateway's CORS
methods (`api-gateway/src/main.ts:41`) lack PUT: from an origin of its own, which the portal has by
default (`main.ts:33-36`) and as deployed (`ecs-gateway.tf:71-75`), a preflight refuses every progress report,
nothing is ever stored, and the promise of `viewer/lib/progress.ts:9-11`, that a session "still gets its final position
saved", is not kept. `ReportFails` has that case, and `ResumesWhereLeft` is
about a portal whose reports are taken: of one on its own origin it says nothing. Hiding or
closing the page before the
manifest is parsed reports position 0 (`Player.tsx:109-113`), and after a failed lookup the first tick
overwrites the stored position. In the library, `loadMore` sends the text being typed with the cursor of
the text that was searched, and republishing moves a row within the order the cursor counts
on. An answer to `loadMore` that comes after a new search is appended to its rows (`page.tsx:107-125`): `SearchIsLatest`
is about first pages, `ListIsGapless` excepts lists with another text typed
between two pages, and so neither catches it. On the dashboard, a refresh answered while `loadMore` waits leaves a gap. Segment URLs are
signed for 900 s
while hls.js loads a VOD playlist once, so a long pause can outlive them.

## 7. What is only checked, and what is left out

Only model-checked: the liveness properties `Settles`, `CancelFreesWorkers`, `DeliveriesEnd`,
`PublishedIsQueued`, `ListEnds` and `DrainEnds`. The prover has neither fairness nor ENABLED.

Only proved: `OneJobPerKey`, and what two jobs of one asset do to each other: the
pipeline's runs have one job each, the theorems are for any number.

Not modelled, or not completely:

- *Content.* `CompletedHasOutput` is about objects being there. Two runs of one job
  in one process share a working directory (`transcode.ts:175`), so what is uploaded may be a
  mixture; the models do not say what is in an object. That objects may be missing after one of the runs removed
  the directory (`transcode.ts:243`) is modelled (`torn`), and excepted from the property.
- *Progress percentages.* Progress writes are not awaited (`worker.ts:62`), and one may
  land after `COMPLETED`.
- *Age-based removal* of finished queue entries (`packages/queue/src/index.ts:84-89`). An event published
  again after its entry was removed would be delivered again; `EventDelivery` is about the time before that.
- *More than one jobs-svc.* `WebhookDelivery` has one process for calls and
  deliveries, as deployed by the compose file.
- *The worker's drain.* Workers crash in the model; `worker.close()` waits for the jobs, for
  as long as it takes.
- *The queue-event feed* of jobs-svc (`streamQueueEvents`) forwards events and keeps nothing; a
  failing row lookup in
  one of its listeners is an unhandled rejection.
- *Rotating `JWT_SECRET`* has the same two slots and one verifier, which is also the signer.
- `getJob`, `listJobs`, `getOutputManifest`, `getUser`, `listOrgMembers`, `listApiKeys`,
  `listViewers`, `listWebhooks`, usage
  and queue statistics only read; `PATCH /v1/org` writes a name and a logo that nothing decides on.
- *Which password.* Two activations of one viewer, or two password changes of one member, that both read
  before either wrote both succeed and the later write's password stays; the models only say that
  there is one.
- *Expiry* of sessions, links, temporary passwords and keys: what expires is refused, like what is revoked.
- The audit log is written after each action and never read to decide anything; rate limits refuse.
- The tus protocol is `@tus/server`'s, playlists and segments hls.js's.
- Pure data: HMAC signatures, password hashes, ffmpeg arguments, playlists,
  URL and address rules (as one refusal), mail texts, branding.
- The remaining panels of the dashboard and pages of the viewer app fetch, show and submit one form.
- metadata-svc is a stub; telemetry, generated protos, Terraform and
  tests have no logic of their own.

## 8. What could come next

- A larger webhook instance: two webhooks and two events together are out of TLC's reach in a
  few minutes with the fault model; the theorems cover the safety part.
- Properties for the hazards that `PROJECT.json` lists without one, should the code come to guard against
  them: the overwritten completion (`service.ts:266`), the stranded `QUEUED` row (`service.ts:148`), the asset
  that never becomes `READY` (`worker.ts:98`), overlapping registrations (`uploads.ts:59`), invitations
  and role changes on outdated rows (`auth-svc/src/service.ts:297, 435`). Today each is what the code does, and a
  property would have to except it.
- The portal's reports from its own origin, and a service that stays up, once the deployment provides for either.
- The queue-event feed, once something reads it, and the job board's paging.
