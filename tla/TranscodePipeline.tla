------------------------- MODULE TranscodePipeline -------------------------
(***************************************************************************)
(* The transcode pipeline of video-svc: the gRPC handlers of               *)
(* apps/video-svc/src/service.ts that write job state, the BullMQ queue    *)
(* between them and the workers, the worker of worker.ts with the          *)
(* transcode of transcode.ts, and the three stores they share: Postgres    *)
(* rows, the S3 output of a job and the Redis cancel channel.              *)
(*                                                                         *)
(* A handler is one action per await: between two awaits a handler runs    *)
(* to completion, and anything may happen while it awaits.  Requests that  *)
(* are refused before they write (authentication, ownership, validation)   *)
(* change nothing and are left out.                                        *)
(***************************************************************************)
EXTENDS Naturals, FiniteSets

CONSTANTS
    Jobs,         \* ids of TranscodeJob rows; a BullMQ entry has its row's id
    Assets,       \* registered assets
    Keys,         \* idempotency keys clients may send
    Profiles,     \* kinds of job clients submit, see Kinds
    Reqs,         \* gRPC calls video-svc may have in flight
    Procs,        \* worker processes
    Slots,        \* concurrent processor runs, over all worker processes
    ProcOf,       \* the process a slot belongs to
    MaxAttempts,  \* defaultJobOptions.attempts of the transcode queue
    MaxStalled,   \* BullMQ's maxStalledCount
    Stages,       \* ffmpeg runs of a job with renditions
    MaxFaults,    \* bound on crashes and lost locks
    None          \* no value

ASSUME PipelineAssumption ==
    /\ MaxAttempts \in Nat \ {0}
    /\ MaxStalled \in Nat
    /\ Stages \in Nat \ {0}
    /\ MaxFaults \in Nat
    /\ Assets # {}
    /\ Profiles \subseteq {"hls", "thumbs"}
    /\ ProcOf \in [Slots -> Procs]
    /\ None \notin Jobs \cup Keys \cup Procs \cup Slots

VARIABLES
    row,          \* TranscodeJob table
    asset,        \* Asset table: status and the job playbackUrl points into
    s3,           \* objects stored under processed/<job>/
    entry,        \* BullMQ's record of a job
    run,          \* processor run of each slot
    activeTokens, \* each process's map from job id to the run's CancelToken
    cancelMsgs,   \* cancel messages published and not yet received
    failWrite,    \* process whose failed handler is about to write FAILED
    req,          \* gRPC calls in flight
    events,       \* webhook events handed to publishWebhook
    torn,         \* runs whose working directory another run removed
    excused,      \* history: jobs deleted, or uploaded from a torn directory
    faults        \* crashes and lost locks so far

vars == <<row, asset, s3, entry, run, activeTokens, cancelMsgs, failWrite,
          req, events, torn, excused, faults>>

-----------------------------------------------------------------------------
(* Types *)

Live     == {"QUEUED", "PROCESSING"}
Terminal == {"COMPLETED", "FAILED", "CANCELLED"}

\* "hls" is a profile with renditions, "thumbs" one without.
Kinds == {"hls", "thumbs"}

Row == [state : {"none", "deleted"} \cup Live \cup Terminal,
        kind : Kinds, asset : Assets, key : Keys \cup {None},
        manifest : BOOLEAN]

Asset == [status : {"UPLOADED", "PROCESSING", "READY"}, playback : Jobs \cup {None}]

Objects == {"master", "segments", "thumb"}

Entry == [st : {"absent", "waiting", "delayed", "active", "completed", "failed"},
          made : 0..MaxAttempts, stalled : 0..(MaxStalled + 1),
          lock : Slots \cup {None}]

RunPC == {"idle", "start", "token", "download", "check", "encode", "upload",
          "complete", "announce", "asset", "finish", "fail"}

Run == [pc : RunPC, job : Jobs \cup {None}, attempt : 0..MaxAttempts,
        err : {"none", "error", "cancelled", "stalled"}, cancelled : BOOLEAN,
        left : 0..Stages, todo : SUBSET Objects]

Req == [pc : {"idle", "create", "enqueue", "asset", "remove", "update",
              "publish", "list", "objects", "row"},
        kind : Kinds, asset : Assets, key : Keys \cup {None},
        job : Jobs \cup {None}, listed : SUBSET Objects]

EventTypes == {"ENQUEUED", "STARTED", "COMPLETED", "FAILED", "RETRYING"}
Event == [type : EventTypes, job : Jobs, attempt : 1..MaxAttempts]

TypeOK ==
    /\ row \in [Jobs -> Row]
    /\ asset \in [Assets -> Asset]
    /\ s3 \in [Jobs -> SUBSET Objects]
    /\ entry \in [Jobs -> Entry]
    /\ run \in [Slots -> Run]
    /\ activeTokens \in [Procs -> [Jobs -> Slots \cup {None}]]
    /\ cancelMsgs \subseteq Procs \X Jobs
    /\ failWrite \in [Jobs -> Procs \cup {None}]
    /\ req \in [Reqs -> Req]
    /\ events \subseteq Event
    /\ torn \subseteq Slots
    /\ excused \subseteq Jobs
    /\ faults \in 0..MaxFaults

-----------------------------------------------------------------------------
(* Helpers *)

\* What uploadDir stores for a finished job: extractThumbnails writes JPEGs
\* only, a job with renditions has segments and a master playlist.
Files(kind) == IF kind = "hls" THEN {"master", "segments"} ELSE {"thumb"}

NoAsset == CHOOSE a \in Assets : TRUE
NoRow   == [state |-> "none", kind |-> "hls", asset |-> NoAsset, key |-> None,
            manifest |-> FALSE]
NoEntry == [st |-> "absent", made |-> 0, stalled |-> 0, lock |-> None]
IdleRun == [pc |-> "idle", job |-> None, attempt |-> 0, err |-> "none",
            cancelled |-> FALSE, left |-> 0, todo |-> {}]
IdleReq == [pc |-> "idle", kind |-> "hls", asset |-> NoAsset, key |-> None,
            job |-> None, listed |-> {}]

\* publishWebhook never throws and does not hold its caller up: the event is
\* handed over in the step that calls it.
Publish(type, j, attempt) ==
    events' = events \cup {[type |-> type, job |-> j, attempt |-> attempt]}

\* A run or a request moves on.
RunTo(s, pc) == run' = [run EXCEPT ![s].pc = pc]
ReqTo(r, pc) == req' = [req EXCEPT ![r].pc = pc]
ReqDone(r)   == req' = [req EXCEPT ![r] = IdleReq]

\* The worker side.
workerVars == <<run, activeTokens, failWrite, torn>>

-----------------------------------------------------------------------------
(* submitTranscodeJob and generateThumbnails *)

\* No row has the key: what the lookup finds, and what the unique index
\* checks again when the row is inserted.
KeyFree(k) == \A j \in Jobs : row[j].key = k => row[j].state \in {"none", "deleted"}

KeyUnique(k) == KeyFree(k)

\* The idempotency lookup found no row.  (Finding one answers with that row
\* and changes nothing.)  A thumbnails job has no key to look up.
SubmitLookup(r, kind, a, k) ==
    /\ req[r].pc = "idle"
    /\ kind = "thumbs" => k = None
    /\ k # None => KeyFree(k)
    /\ req' = [req EXCEPT ![r] = [IdleReq EXCEPT !.pc = "create", !.kind = kind,
                                                 !.asset = a, !.key = k]]
    /\ UNCHANGED <<row, asset, s3, entry, workerVars, cancelMsgs, events, excused, faults>>

\* The row is created QUEUED; idempotencyKey is unique, so of two submits
\* that both missed the other's row the second insert is refused.
SubmitCreate(r, j) ==
    /\ req[r].pc = "create"
    /\ row[j].state = "none"
    /\ req[r].key # None => KeyUnique(req[r].key)
    /\ row' = [row EXCEPT ![j] = [state |-> "QUEUED", kind |-> req[r].kind,
                                  asset |-> req[r].asset, key |-> req[r].key,
                                  manifest |-> FALSE]]
    /\ req' = [req EXCEPT ![r] = [@ EXCEPT !.pc = "enqueue", !.job = j]]
    /\ UNCHANGED <<asset, s3, entry, workerVars, cancelMsgs, events, excused, faults>>

\* queue.add, after which generateThumbnails publishes and answers;
\* submitTranscodeJob has the asset row still to update.
SubmitEnqueue(r) ==
    LET j == req[r].job IN
    /\ req[r].pc = "enqueue"
    /\ entry' = [entry EXCEPT ![j].st = "waiting"]
    /\ IF req[r].kind = "hls"
         THEN ReqTo(r, "asset") /\ UNCHANGED events
         ELSE ReqDone(r) /\ Publish("ENQUEUED", j, 1)
    /\ UNCHANGED <<row, asset, s3, workerVars, cancelMsgs, excused, faults>>

SubmitAsset(r) ==
    /\ req[r].pc = "asset"
    /\ asset' = [asset EXCEPT ![req[r].asset].status = "PROCESSING"]
    /\ Publish("ENQUEUED", req[r].job, 1)
    /\ ReqDone(r)
    /\ UNCHANGED <<row, s3, entry, workerVars, cancelMsgs, excused, faults>>

\* Any awaited call throws: the catch answers INTERNAL and undoes nothing.
\* The unique constraint on the key is one way to get here from "create".
SubmitError(r) ==
    /\ req[r].pc \in {"create", "enqueue", "asset"}
    /\ ReqDone(r)
    /\ UNCHANGED <<row, asset, s3, entry, workerVars, cancelMsgs, events, excused, faults>>

-----------------------------------------------------------------------------
(* cancelJob *)

\* The row is read and found in a state that can be cancelled.
CancelRead(r, j) ==
    /\ req[r].pc = "idle"
    /\ row[j].state \in Live
    /\ req' = [req EXCEPT ![r] = [IdleReq EXCEPT !.pc = "remove", !.job = j]]
    /\ UNCHANGED <<row, asset, s3, entry, workerVars, cancelMsgs, events, excused, faults>>

\* queue.remove takes the entry out unless a worker holds its lock.  That it
\* may fail altogether is swallowed.
CancelRemove(r) ==
    LET j == req[r].job IN
    /\ req[r].pc = "remove"
    /\ \/ entry[j].st # "active" /\ entry' = [entry EXCEPT ![j].st = "absent"]
       \/ UNCHANGED entry
    /\ ReqTo(r, "update")
    /\ UNCHANGED <<row, asset, s3, workerVars, cancelMsgs, events, excused, faults>>

\* The update is not conditional on the state read before.
CancelUpdate(r) ==
    /\ req[r].pc = "update"
    /\ row[req[r].job].state # "deleted"
    /\ row' = [row EXCEPT ![req[r].job].state = "CANCELLED"]
    /\ ReqTo(r, "publish")
    /\ UNCHANGED <<asset, s3, entry, workerVars, cancelMsgs, events, excused, faults>>

\* cancelJob or deleteJob writes a row that is gone.  Prisma throws, nothing
\* in the handler catches it, and the unhandled rejection ends the process
\* with every call it was serving.
RowGone(r) ==
    /\ req[r].pc \in {"update", "row"}
    /\ row[req[r].job].state = "deleted"
    /\ req' = [q \in Reqs |-> IdleReq]
    /\ UNCHANGED <<row, asset, s3, entry, workerVars, cancelMsgs, events, excused, faults>>

\* Every worker process subscribes to the cancel channel.
CancelPublish(r) ==
    /\ req[r].pc = "publish"
    /\ cancelMsgs' = cancelMsgs \cup (Procs \X {req[r].job})
    /\ ReqDone(r)
    /\ UNCHANGED <<row, asset, s3, entry, workerVars, events, excused, faults>>

-----------------------------------------------------------------------------
(* deleteJob *)

MayDelete_Queued(j) == row[j].state \in Terminal \cup {"QUEUED"}  \* mutant: refuses PROCESSING only
MayDelete(j) == row[j].state \in Terminal

DeleteRead(r, j) ==
    /\ req[r].pc = "idle"
    /\ MayDelete(j)
    /\ req' = [req EXCEPT ![r] = [IdleReq EXCEPT !.pc = "list", !.job = j]]
    /\ excused' = excused \cup {j}
    /\ UNCHANGED <<row, asset, s3, entry, workerVars, cancelMsgs, events, faults>>

\* deletePrefix lists the objects, then deletes the ones it listed.
DeleteList(r) ==
    /\ req[r].pc = "list"
    /\ req' = [req EXCEPT ![r] = [@ EXCEPT !.pc = "objects", !.listed = s3[req[r].job]]]
    /\ UNCHANGED <<row, asset, s3, entry, workerVars, cancelMsgs, events, excused, faults>>

Purged(r) == [s3 EXCEPT ![req[r].job] = @ \ req[r].listed]

DeleteObjects(r) ==
    /\ req[r].pc = "objects"
    /\ s3' = Purged(r)
    /\ ReqTo(r, "row")
    /\ UNCHANGED <<row, asset, entry, workerVars, cancelMsgs, events, excused, faults>>

DeleteRow(r) ==
    /\ req[r].pc = "row"
    /\ row[req[r].job].state # "deleted"
    /\ row' = [row EXCEPT ![req[r].job].state = "deleted"]
    /\ ReqDone(r)
    /\ UNCHANGED <<asset, s3, entry, workerVars, cancelMsgs, events, excused, faults>>

\* The process serving the calls dies, or a call to Postgres, S3 or Redis
\* fails in cancelJob or deleteJob, which have no catch.
ApiCrash ==
    /\ faults < MaxFaults
    /\ \E r \in Reqs : req[r].pc # "idle"
    /\ faults' = faults + 1
    /\ req' = [q \in Reqs |-> IdleReq]
    /\ UNCHANGED <<row, asset, s3, entry, workerVars, cancelMsgs, events, excused>>

-----------------------------------------------------------------------------
(* BullMQ: handing jobs to worker slots, retries and stalls *)

\* A slot takes a waiting job.  One that stalled too often is failed by the
\* worker without calling the processor.
TakeJob(s, j, pc, err) ==
    /\ run[s].pc = "idle"
    /\ entry[j].st = "waiting"
    /\ entry' = [entry EXCEPT ![j] = [@ EXCEPT !.st = "active", !.lock = s]]
    /\ run' = [run EXCEPT ![s] = [IdleRun EXCEPT !.pc = pc, !.job = j,
                                    !.attempt = entry[j].made + 1, !.err = err]]
    /\ UNCHANGED <<row, asset, s3, activeTokens, cancelMsgs, failWrite, torn, req, events, excused, faults>>

Claim(s, j)        == entry[j].stalled <= MaxStalled /\ TakeJob(s, j, "start", "none")
ClaimStalled(s, j) == entry[j].stalled > MaxStalled /\ TakeJob(s, j, "fail", "stalled")

\* The backoff delay of a failed attempt is over.
Promote(j) ==
    /\ entry[j].st = "delayed"
    /\ entry' = [entry EXCEPT ![j].st = "waiting"]
    /\ UNCHANGED <<row, asset, s3, workerVars, cancelMsgs, req, events, excused, faults>>

StallCount(j) == IF entry[j].stalled > MaxStalled THEN entry[j].stalled ELSE entry[j].stalled + 1
Requeue(j) ==
    entry' = [entry EXCEPT ![j] = [@ EXCEPT !.st = "waiting", !.lock = None,
                                            !.stalled = StallCount(j)]]

\* The stalled-jobs check finds an active job whose worker is gone.
Stalled(j) ==
    /\ entry[j].st = "active"
    /\ run[entry[j].lock].pc = "idle" \/ run[entry[j].lock].job # j
    /\ Requeue(j)
    /\ UNCHANGED <<row, asset, s3, workerVars, cancelMsgs, req, events, excused, faults>>

\* A worker that cannot renew its lock loses the job while still working on
\* it: from here on two runs of the same job may be under way.
LockLost(j) ==
    /\ faults < MaxFaults
    /\ entry[j].st = "active"
    /\ run[entry[j].lock].pc # "idle" /\ run[entry[j].lock].job = j
    /\ Requeue(j)
    /\ faults' = faults + 1
    /\ UNCHANGED <<row, asset, s3, workerVars, cancelMsgs, req, events, excused>>

-----------------------------------------------------------------------------
(* The processor in worker.ts and runTranscode *)

MayStart_NotGone(j) == row[j].state \notin {"none", "deleted"}  \* mutant: update by id only
MayStart_Queued(j) == row[j].state = "QUEUED"                      \* mutant: refuses a retry
MayStart(j) == row[j].state \in Live

\* The guarded update to PROCESSING.
Start(s) ==
    /\ run[s].pc = "start"
    /\ MayStart(run[s].job)
    /\ row' = [row EXCEPT ![run[s].job].state = "PROCESSING"]
    /\ RunTo(s, "token")
    /\ UNCHANGED <<asset, s3, entry, activeTokens, cancelMsgs, failWrite, torn, req, events, excused, faults>>

\* No row matched: the job is taken to have been cancelled.
StartRefused(s) ==
    /\ run[s].pc = "start"
    /\ ~MayStart(run[s].job)
    /\ run' = [run EXCEPT ![s] = [@ EXCEPT !.pc = "fail", !.err = "cancelled"]]
    /\ UNCHANGED <<row, asset, s3, entry, activeTokens, cancelMsgs, failWrite, torn, req, events, excused, faults>>

\* The update has answered: STARTED is published and the run becomes
\* reachable for cancel messages.
SetToken(s) ==
    LET j == run[s].job IN
    /\ run[s].pc = "token"
    /\ Publish("STARTED", j, run[s].attempt)
    /\ activeTokens' = [activeTokens EXCEPT ![ProcOf[s]][j] = s]
    /\ RunTo(s, "download")
    /\ UNCHANGED <<row, asset, s3, entry, cancelMsgs, failWrite, torn, req, excused, faults>>

\* ffmpeg runs of a job: one per rendition, or one for the thumbnails.
StagesOf(kind) == IF kind = "hls" THEN Stages ELSE 1

\* The source is downloaded and probed.
Download(s) ==
    /\ run[s].pc = "download"
    /\ run' = [run EXCEPT ![s] = [@ EXCEPT !.pc = "check", !.left = StagesOf(row[run[s].job].kind)]]
    /\ UNCHANGED <<row, asset, s3, entry, activeTokens, cancelMsgs, failWrite, torn, req, events, excused, faults>>

\* The catch turns any error of a cancelled run into an unrecoverable one.
ErrorOf(s) == IF run[s].cancelled THEN "cancelled" ELSE "error"

\* Runs of a job share /tmp/vidforge-<job> when they share a process: the
\* finally of one removes it under the others.
Sharing(s) == {t \in Slots \ {s} : /\ ProcOf[t] = ProcOf[s] /\ run[t].job = run[s].job
                                   /\ run[t].pc \in {"download", "check", "encode", "upload"}}
RemoveDir(s) == torn' = (torn \ {s}) \cup Sharing(s)

\* The run throws: directory and token go, whoever made them.
Throw(s) ==
    /\ run' = [run EXCEPT ![s] = [@ EXCEPT !.pc = "fail", !.err = ErrorOf(s)]]
    /\ activeTokens' = [activeTokens EXCEPT ![ProcOf[s]][run[s].job] = None]
    /\ RemoveDir(s)
    /\ UNCHANGED <<row, asset, s3, entry, cancelMsgs, failWrite, req, events, excused, faults>>

\* The token is looked at before every ffmpeg run and nowhere else.
BeginStage(s) ==
    /\ run[s].pc = "check"
    /\ ~run[s].cancelled
    /\ RunTo(s, "encode")
    /\ UNCHANGED <<row, asset, s3, entry, activeTokens, cancelMsgs, failWrite, torn, req, events, excused, faults>>

AbortStage_Waits(s) == FALSE  \* mutant: a cancelled run is never rejected
AbortStage(s) ==
    /\ run[s].pc = "check"
    /\ run[s].cancelled
    /\ Throw(s)

\* Download, ffmpeg (killed or not) or upload fails.
TranscodeError(s) == run[s].pc \in {"download", "encode", "upload"} /\ Throw(s)

\* ffmpeg ends; it may have ended just before the kill reached it.  The
\* progress it reported is data no property here depends on.
EndStage(s) ==
    /\ run[s].pc = "encode"
    /\ run[s].left > 1
    /\ run' = [run EXCEPT ![s] = [@ EXCEPT !.pc = "check", !.left = run[s].left - 1]]
    /\ UNCHANGED <<row, asset, s3, entry, activeTokens, cancelMsgs, failWrite, torn, req, events, excused, faults>>

EndLastStage(s) ==
    /\ run[s].pc = "encode"
    /\ run[s].left = 1
    /\ run' = [run EXCEPT ![s] = [@ EXCEPT !.pc = "upload", !.left = 0,
                                           !.todo = Files(row[run[s].job].kind)]]
    /\ UNCHANGED <<row, asset, s3, entry, activeTokens, cancelMsgs, failWrite, torn, req, events, excused, faults>>

\* uploadDir stores one file after the other and never looks at the token.
\* What is left to do is what the run wrote, in a torn directory or not.
UploadFile(s, f) ==
    /\ run[s].pc = "upload"
    /\ f \in run[s].todo
    /\ s3' = [s3 EXCEPT ![run[s].job] = @ \cup {f}]
    /\ run' = [run EXCEPT ![s].todo = @ \ {f}]
    /\ UNCHANGED <<row, asset, entry, activeTokens, cancelMsgs, failWrite, torn, req, events, excused, faults>>

Uploaded_NotAwaited(s) == TRUE  \* mutant: uploadFile is not awaited
Uploaded(s) == run[s].todo = {} \/ s \in torn

\* All the directory holds is stored, which is not all the run wrote when the
\* directory was torn.  runTranscode returns; directory and token go.
UploadDone(s) ==
    /\ run[s].pc = "upload"
    /\ Uploaded(s)
    /\ activeTokens' = [activeTokens EXCEPT ![ProcOf[s]][run[s].job] = None]
    /\ RemoveDir(s)
    /\ RunTo(s, "complete")
    /\ excused' = IF s \in torn THEN excused \cup {run[s].job} ELSE excused
    /\ UNCHANGED <<row, asset, s3, entry, cancelMsgs, failWrite, req, events, faults>>

MayComplete_NotGone(j) == row[j].state \notin {"none", "deleted"}  \* mutant: update by id only
MayComplete(j) == row[j].state = "PROCESSING"

\* The guarded update to COMPLETED.
Complete(s) ==
    /\ run[s].pc = "complete"
    /\ MayComplete(run[s].job)
    /\ row' = [row EXCEPT ![run[s].job] = [@ EXCEPT !.state = "COMPLETED", !.manifest = TRUE]]
    /\ RunTo(s, "announce")
    /\ UNCHANGED <<asset, s3, entry, activeTokens, cancelMsgs, failWrite, torn, req, events, excused, faults>>

CompleteRefused(s) ==
    /\ run[s].pc = "complete"
    /\ ~MayComplete(run[s].job)
    /\ RunTo(s, "finish")
    /\ UNCHANGED <<row, asset, s3, entry, activeTokens, cancelMsgs, failWrite, torn, req, events, excused, faults>>

HasPlaylist_Always(j) == TRUE  \* mutant: no check of result.playlistStorageKey
HasPlaylist(j) == row[j].kind = "hls"

\* COMPLETED is published; a result without a playlist leaves the asset alone.
Announce(s) ==
    LET j == run[s].job IN
    /\ run[s].pc = "announce"
    /\ Publish("COMPLETED", j, run[s].attempt)
    /\ RunTo(s, IF HasPlaylist(j) THEN "asset" ELSE "finish")
    /\ UNCHANGED <<row, asset, s3, entry, activeTokens, cancelMsgs, failWrite, torn, req, excused, faults>>

MarkReady(s) ==
    LET j == run[s].job IN
    /\ run[s].pc = "asset"
    /\ asset' = [asset EXCEPT ![row[j].asset] = [status |-> "READY", playback |-> j]]
    /\ RunTo(s, "finish")
    /\ UNCHANGED <<row, s3, entry, activeTokens, cancelMsgs, failWrite, torn, req, events, excused, faults>>

\* One of the processor's own updates throws, before or after the try.
DbError(s) ==
    /\ run[s].pc \in {"start", "complete", "asset"}
    /\ run' = [run EXCEPT ![s] = [@ EXCEPT !.pc = "fail", !.err = "error"]]
    /\ UNCHANGED <<row, asset, s3, entry, activeTokens, cancelMsgs, failWrite, torn, req, events, excused, faults>>

-----------------------------------------------------------------------------
(* End of an attempt *)

\* A run may report its result only while it holds the job's lock.
Holds(s) == entry[run[s].job].st = "active" /\ entry[run[s].job].lock = s

\* The processor returned.
Finish(s) ==
    /\ run[s].pc = "finish"
    /\ Holds(s)
    /\ entry' = [entry EXCEPT ![run[s].job] = [@ EXCEPT !.st = "completed", !.lock = None]]
    /\ run' = [run EXCEPT ![s] = IdleRun]
    /\ UNCHANGED <<row, asset, s3, activeTokens, cancelMsgs, failWrite, torn, req, events, excused, faults>>

\* Without the lock BullMQ refuses the report, and no handler is called.
LateReport(s) ==
    /\ run[s].pc \in {"finish", "fail"}
    /\ ~Holds(s)
    /\ run' = [run EXCEPT ![s] = IdleRun]
    /\ UNCHANGED <<row, asset, s3, entry, activeTokens, cancelMsgs, failWrite, torn, req, events, excused, faults>>

Retries_OnceMore(s) == run[s].err = "error" /\ run[s].attempt <= MaxAttempts  \* mutant

\* BullMQ tries an attempt again unless it was the last one or the error is
\* unrecoverable.
Retries(s) == run[s].err = "error" /\ run[s].attempt < MaxAttempts
AfterFail(s) == IF Retries(s) THEN "delayed" ELSE "failed"

Exhausted_Early(s) == run[s].attempt + 1 >= MaxAttempts  \* mutant: counts the next attempt
Exhausted_Late(s)  == run[s].attempt > MaxAttempts       \* mutant: strict comparison
Exhausted(s) == run[s].attempt >= MaxAttempts

\* The processor threw: BullMQ counts the attempt and the failed handler
\* runs.  It ignores cancellations, publishes RETRYING while attempts are
\* left, and otherwise starts the update to FAILED.
FailAttempt(s) ==
    LET j == run[s].job IN
    /\ run[s].pc = "fail"
    /\ Holds(s)
    /\ entry' = [entry EXCEPT ![j] = [@ EXCEPT !.st = AfterFail(s), !.made = run[s].attempt,
                                               !.lock = None]]
    /\ run' = [run EXCEPT ![s] = IdleRun]
    /\ \/ run[s].err = "cancelled" /\ UNCHANGED <<failWrite, events>>
       \/ /\ run[s].err # "cancelled" /\ Exhausted(s)
          /\ failWrite' = [failWrite EXCEPT ![j] = ProcOf[s]]
          /\ UNCHANGED events
       \/ /\ run[s].err # "cancelled" /\ ~Exhausted(s)
          /\ Publish("RETRYING", j, run[s].attempt)
          /\ UNCHANGED failWrite
    /\ UNCHANGED <<row, asset, s3, activeTokens, torn, cancelMsgs, req, excused, faults>>

\* A worker process dies: its runs, its tokens, the handlers and the cancel
\* messages waiting in it are gone; entries it holds stay active.  A directory
\* it leaves behind is written again from the start.
ProcDown(p) ==
    /\ run' = [s \in Slots |-> IF ProcOf[s] = p THEN IdleRun ELSE run[s]]
    /\ activeTokens' = [activeTokens EXCEPT ![p] = [j \in Jobs |-> None]]
    /\ failWrite' = [j \in Jobs |-> IF failWrite[j] = p THEN None ELSE failWrite[j]]
    /\ cancelMsgs' = {m \in cancelMsgs : m[1] # p}
    /\ torn' = {s \in torn : ProcOf[s] # p}

\* The failed handler's update to FAILED, not conditional on the state.
FailWrite(j) ==
    /\ failWrite[j] # None
    /\ row[j].state # "deleted"
    /\ row' = [row EXCEPT ![j].state = "FAILED"]
    /\ failWrite' = [failWrite EXCEPT ![j] = None]
    /\ Publish("FAILED", j, MaxAttempts)
    /\ UNCHANGED <<asset, s3, entry, run, activeTokens, torn, cancelMsgs, req, excused, faults>>

\* On a deleted row it throws inside an event listener: the process ends.
FailWriteGone(j) ==
    /\ failWrite[j] # None
    /\ row[j].state = "deleted"
    /\ ProcDown(failWrite[j])
    /\ UNCHANGED <<row, asset, s3, entry, req, events, excused, faults>>

\* The unawaited progress update of a run whose row was deleted rejects with
\* nobody to catch it.
ProgressOnDeletedRow(s) ==
    /\ run[s].pc = "encode"
    /\ row[run[s].job].state = "deleted"
    /\ ProcDown(ProcOf[s])
    /\ UNCHANGED <<row, asset, s3, entry, req, events, excused, faults>>

ProcCrash(p) ==
    /\ faults < MaxFaults
    /\ faults' = faults + 1
    /\ ProcDown(p)
    /\ UNCHANGED <<row, asset, s3, entry, req, events, excused>>

\* The subscriber looks the job up in its process's map; a message for a job
\* that is not there is dropped.
ReceiveCancel(p, j) ==
    /\ <<p, j>> \in cancelMsgs
    /\ cancelMsgs' = cancelMsgs \ {<<p, j>>}
    /\ run' = IF activeTokens[p][j] = None THEN run
              ELSE [run EXCEPT ![activeTokens[p][j]].cancelled = TRUE]
    /\ UNCHANGED <<row, asset, s3, entry, activeTokens, failWrite, torn, req, events, excused, faults>>

-----------------------------------------------------------------------------
(* Specification *)

Init ==
    /\ row = [j \in Jobs |-> NoRow]
    /\ asset = [a \in Assets |-> [status |-> "UPLOADED", playback |-> None]]
    /\ s3 = [j \in Jobs |-> {}]
    /\ entry = [j \in Jobs |-> NoEntry]
    /\ run = [s \in Slots |-> IdleRun]
    /\ activeTokens = [p \in Procs |-> [j \in Jobs |-> None]]
    /\ cancelMsgs = {}
    /\ failWrite = [j \in Jobs |-> None]
    /\ req = [r \in Reqs |-> IdleReq]
    /\ events = {}
    /\ torn = {}
    /\ excused = {}
    /\ faults = 0

NewRequest(r) ==
    \/ \E kind \in Profiles, a \in Assets, k \in Keys \cup {None} : SubmitLookup(r, kind, a, k)
    \/ \E j \in Jobs : CancelRead(r, j) \/ DeleteRead(r, j)

\* What a request in flight does next when nothing goes wrong.
RequestStep(r) ==
    \/ \E j \in Jobs : SubmitCreate(r, j)
    \/ SubmitEnqueue(r) \/ SubmitAsset(r)
    \/ CancelRemove(r) \/ CancelUpdate(r) \/ CancelPublish(r)
    \/ DeleteList(r) \/ DeleteObjects(r) \/ DeleteRow(r) \/ RowGone(r)

\* What a run does next when nothing goes wrong.
RunStep(s) ==
    \/ Start(s) \/ StartRefused(s) \/ SetToken(s) \/ Download(s)
    \/ BeginStage(s) \/ AbortStage(s) \/ EndStage(s) \/ EndLastStage(s)
    \/ \E f \in Objects : UploadFile(s, f)
    \/ UploadDone(s) \/ Complete(s) \/ CompleteRefused(s) \/ Announce(s) \/ MarkReady(s)
    \/ Finish(s) \/ LateReport(s) \/ FailAttempt(s)

Next ==
    \/ \E r \in Reqs : NewRequest(r) \/ RequestStep(r) \/ SubmitError(r)
    \/ ApiCrash
    \/ \E s \in Slots : \/ RunStep(s) \/ TranscodeError(s) \/ DbError(s)
                        \/ ProgressOnDeletedRow(s)
                        \/ \E j \in Jobs : Claim(s, j) \/ ClaimStalled(s, j)
    \/ \E j \in Jobs : Promote(j) \/ Stalled(j) \/ LockLost(j)
                       \/ FailWrite(j) \/ FailWriteGone(j)
    \/ \E p \in Procs : ProcCrash(p) \/ \E j \in Jobs : ReceiveCancel(p, j)

\* Node runs every continuation whose await has answered, BullMQ keeps
\* polling, and its timers fire.  Clients and faults are not fair.
Fairness ==
    /\ \A r \in Reqs : WF_vars(RequestStep(r))
    /\ \A s \in Slots : WF_vars(RunStep(s))
    /\ \A j \in Jobs : /\ WF_vars(\E s \in Slots : Claim(s, j) \/ ClaimStalled(s, j))
                       /\ WF_vars(Promote(j)) /\ WF_vars(Stalled(j))
                       /\ WF_vars(FailWrite(j) \/ FailWriteGone(j))
    /\ \A p \in Procs, j \in Jobs : WF_vars(ReceiveCancel(p, j))

Spec     == Init /\ [][Next]_vars
FairSpec == Spec /\ Fairness

-----------------------------------------------------------------------------
(* Safety *)

\* The rows, read as job states, and the COMPLETED events, read as
\* announcements, behave like the abstract job life cycle: handlers, worker
\* runs and the failed handler together never revive a job that ended, never
\* complete one that is not PROCESSING, never delete one in progress, and
\* announce a completion at most once (worker.ts:36-44, 81-93).
Life == INSTANCE JobLifecycle WITH
          state <- [j \in Jobs |-> row[j].state],
          announced <- {e.job : e \in {d \in events : d.type = "COMPLETED"}}

ImplementsLifecycle == Life!LifeSpec

\* Two runs of one job can both reach the end of the processor (a lost lock
\* or a stall redelivers a job still being worked on), each with its own
\* attempt number and so its own event id.  The guarded update of
\* worker.ts:83-92 lets only one of them publish COMPLETED.
CompletedOnce ==
    \A d, e \in events : d.type = "COMPLETED" /\ e.type = "COMPLETED" /\ d.job = e.job => d = e

\* "Only mark FAILED once retries are exhausted" (worker.ts:121): a FAILED
\* job has used every attempt, and nothing of it is left on the queue.
FailedIsExhausted ==
    \A j \in Jobs : row[j].state = "FAILED" =>
        entry[j].made = MaxAttempts /\ entry[j].st \in {"failed", "absent"}

\* A job's output is all there: every object runTranscode uploads.
Stored(j) == Files(row[j].kind) \subseteq s3[j]

\* getOutputManifest answers for a COMPLETED job: it has a manifest, and
\* every object is in S3, however many runs of the job uploaded, failed half
\* way or were lost.  Two ways to lose objects are excused: somebody asked for
\* the job's deletion, or a run uploaded from a directory that another run of
\* the job in its process had removed (transcode.ts:175, 243).
CompletedHasOutput ==
    \A j \in Jobs : row[j].state = "COMPLETED" =>
        row[j].manifest /\ (Stored(j) \/ j \in excused)

\* The playbackUrl of an asset (worker.ts:97-106) points at a playlist that
\* was stored completely by a job with renditions, also when that job was
\* cancelled or failed after it had completed; with the same two excuses.
PlaybackBacked ==
    \A a \in Assets : LET j == asset[a].playback IN
        j # None => /\ row[j].kind = "hls" /\ row[j].asset = a
                    /\ Stored(j) \/ j \in excused

\* deleteJob acts on a state it read before two awaits (service.ts:284-290),
\* and still never removes the output or the row of a job in progress.
DeleteIsSafe ==
    \A r \in Reqs : req[r].pc \in {"list", "objects", "row"} =>
        row[req[r].job].state \in Terminal \cup {"deleted"}

\* A client that sends a key twice, also at the same time, gets one job:
\* the lookup of service.ts:114-121 can miss a row that is being created,
\* and the unique column refuses the second insert.
OneJobPerKey ==
    \A i, j \in Jobs :
        /\ row[i].key # None /\ row[i].key = row[j].key
        /\ row[i].state # "deleted" /\ row[j].state # "deleted"
        => i = j

\* "The row is already CANCELLED (cancelJob set it); just stop without
\* retrying" (worker.ts:71-74): an attempt is given up as cancelled, and its
\* job never tried again, only when the job did end.  Tokens are kept by job id
\* and shared by overlapping runs (worker.ts:48, 78), and a message may come late.
AbandonedIsEnded ==
    \A s \in Slots :
        /\ run[s].cancelled => row[run[s].job].state \in {"CANCELLED", "FAILED", "deleted"}
        /\ run[s].err = "cancelled" => row[run[s].job].state \notin Live

\* Somebody will see to the job: BullMQ, the slot that holds its lock, or the
\* failed handler.
SeenTo(j) ==
    \/ entry[j].st \in {"waiting", "delayed"}
    \/ entry[j].st = "active" /\ run[entry[j].lock].pc # "idle" /\ run[entry[j].lock].job = j
    \/ failWrite[j] # None

\* A process goes down when it crashes, and when it writes a deleted row.
Undisturbed == faults = 0 /\ \A j \in Jobs : row[j].state # "deleted"

\* Until a process goes down, a job that is not over and was queued is not
\* forgotten, whatever its attempts ran into: BullMQ's verdict on an attempt and
\* the failed handler's (packages/queue/src/index.ts:26-31, worker.ts:111-131)
\* leave no attempt that neither retries nor ends the job.
NothingStranded ==
    Undisturbed => \A j \in Jobs : entry[j].st # "absent" /\ row[j].state \in Live => SeenTo(j)

-----------------------------------------------------------------------------
(* Liveness *)

\* A job on the queue ends: it is completed, marked FAILED after its
\* retries, or cancelled (worker.ts:31-132).
Settles ==
    \A j \in Jobs : (entry[j].st # "absent" /\ row[j].state \in Live)
                        ~> row[j].state \notin Live

\* A cancelled job stops using a worker (service.ts:262-264).
CancelFreesWorkers ==
    \A j \in Jobs : (row[j].state = "CANCELLED") ~> (\A s \in Slots : run[s].job # j)

-----------------------------------------------------------------------------
(* What comments and tests of the repository say and the code does not do *)

\* worker.ts:114 "Cancellations already wrote their terminal state; don't
\* mark FAILED."
CancelledNeverFailed ==
    [][\A j \in Jobs : row[j].state = "CANCELLED" => row'[j].state # "FAILED"]_vars

\* service.ts:287-288 "Remove the HLS output before the row: ... so nothing
\* is orphaned."
NothingOrphaned ==
    \A j \in Jobs : row[j].state = "deleted" => s3[j] = {}

=============================================================================
