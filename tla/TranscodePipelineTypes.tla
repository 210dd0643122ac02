----------------------- MODULE TranscodePipelineTypes -----------------------
(***************************************************************************)
(* Type correctness of TranscodePipeline, for every number of jobs,        *)
(* workers and calls, every retry limit and any number of faults, and the  *)
(* invariant every other proof about the pipeline starts from: which       *)
(* records a run, a call or a queue entry may refer to.                    *)
(***************************************************************************)
EXTENDS TranscodePipeline, TLAPS

-----------------------------------------------------------------------------
(* The inductive invariant *)

\* A run works on a job that was created, on an attempt that exists, and
\* has a stage left while it loops over them.
RunOK ==
    \A s \in Slots :
        /\ run[s].pc # "idle" => /\ run[s].job \in Jobs
                                 /\ run[s].attempt >= 1
                                 /\ row[run[s].job].state # "none"
        /\ run[s].pc \in {"check", "encode"} => run[s].left >= 1

\* A call past its first read works on a job that was created.
ReqOK ==
    \A r \in Reqs :
        req[r].pc \notin {"idle", "create"} =>
            req[r].job \in Jobs /\ row[req[r].job].state # "none"

\* An entry that will run again has an attempt left; the slot holding its
\* lock, if it still works on it, is on the attempt after those counted.
EntryOK ==
    \A j \in Jobs :
        /\ entry[j].st \in {"waiting", "delayed", "active"} => entry[j].made < MaxAttempts
        /\ entry[j].st # "absent" => row[j].state # "none"
        /\ entry[j].st = "active" => entry[j].lock \in Slots
        /\ \A s \in Slots :
             entry[j].st = "active" /\ entry[j].lock = s /\ run[s].pc # "idle" /\ run[s].job = j
               => run[s].attempt = entry[j].made + 1

\* Until its one submit call has queued it, a job has no entry and no
\* attempt behind it.
EnqueueOK ==
    /\ \A j \in Jobs : row[j].state = "none" => entry[j].made = 0
    /\ \A r \in Reqs : req[r].pc = "enqueue" =>
         entry[req[r].job].st = "absent" /\ entry[req[r].job].made = 0
    /\ \A r, q \in Reqs :
         req[r].pc = "enqueue" /\ req[q].pc = "enqueue" /\ req[r].job = req[q].job => r = q

WellFormed == TypeOK /\ RunOK /\ ReqOK /\ EntryOK /\ EnqueueOK

\* It holds before anything was submitted.
LEMMA WellFormedInit == Init => WellFormed
BY PipelineAssumption
   DEF Init, WellFormed, TypeOK, RunOK, ReqOK, EntryOK, EnqueueOK, NoRow, NoEntry, IdleRun, IdleReq,
       NoAsset, Row, Asset, Entry, Run, Req, RunPC, Kinds, Live, Terminal

-----------------------------------------------------------------------------
(* What the proofs use of the constants and the helpers *)

\* The assumptions on the constants, in the form the steps use them.
LEMMA Constants ==
    /\ MaxFaults \in Nat /\ MaxAttempts \in Nat /\ MaxAttempts >= 1 /\ MaxStalled \in Nat
    /\ Stages \in 0..Stages /\ 1 \in 0..Stages /\ 1 \in 1..MaxAttempts /\ MaxAttempts \in 1..MaxAttempts
    /\ Profiles \subseteq Kinds /\ \A s \in Slots : ProcOf[s] \in Procs
    /\ Stages \in Nat /\ Stages >= 1
BY PipelineAssumption DEF Kinds

\* The records of a slot and a call that do nothing.
LEMMA IdleTypes == IdleRun \in Run /\ IdleReq \in Req
BY PipelineAssumption DEF IdleRun, Run, RunPC, IdleReq, Req, Kinds, NoAsset

\* A run that is under way has a job and an attempt.
LEMMA RunTypes ==
    ASSUME WellFormed, NEW s \in Slots, run[s].pc # "idle"
    PROVE  run[s].job \in Jobs /\ run[s].attempt \in 1..MaxAttempts
BY Constants DEF WellFormed, TypeOK, RunOK, Run

\* A call past its first write has a job.
LEMMA ReqTypes ==
    ASSUME WellFormed, NEW r \in Reqs, req[r].pc \notin {"idle", "create"}
    PROVE  req[r].job \in Jobs
BY DEF WellFormed, ReqOK

\* Every output is made of objects.
LEMMA FilesType == ASSUME NEW kind PROVE Files(kind) \in SUBSET Objects
BY DEF Files, Objects

\* No job has more ffmpeg runs than Stages.
LEMMA StagesType == ASSUME NEW kind PROVE StagesOf(kind) \in 0..Stages
BY Constants DEF StagesOf

\* The stall count stops one above BullMQ's limit.
LEMMA StallType == ASSUME WellFormed, NEW j \in Jobs PROVE StallCount(j) \in 0..(MaxStalled + 1)
BY Constants DEF StallCount, WellFormed, TypeOK, Entry

\* A processor that throws has one of two errors.
LEMMA ErrorType == ASSUME NEW s PROVE ErrorOf(s) \in {"error", "cancelled"}
BY DEF ErrorOf

\* A failed attempt is retried or final.
LEMMA AfterFailType == ASSUME NEW s PROVE AfterFail(s) \in {"delayed", "failed"}
BY DEF AfterFail

-----------------------------------------------------------------------------
(* Every step keeps the types *)

LEMMA TypeStep == ASSUME WellFormed, [Next]_vars PROVE TypeOK'
<1>row. row \in [Jobs -> Row]
  BY DEF WellFormed, TypeOK
<1>asset. asset \in [Assets -> Asset]
  BY DEF WellFormed, TypeOK
<1>s3. s3 \in [Jobs -> SUBSET Objects]
  BY DEF WellFormed, TypeOK
<1>entry. entry \in [Jobs -> Entry]
  BY DEF WellFormed, TypeOK
<1>run. run \in [Slots -> Run]
  BY DEF WellFormed, TypeOK
<1>activeTokens. activeTokens \in [Procs -> [Jobs -> Slots \cup {None}]]
  BY DEF WellFormed, TypeOK
<1>cancelMsgs. cancelMsgs \subseteq Procs \X Jobs
  BY DEF WellFormed, TypeOK
<1>failWrite. failWrite \in [Jobs -> Procs \cup {None}]
  BY DEF WellFormed, TypeOK
<1>req. req \in [Reqs -> Req]
  BY DEF WellFormed, TypeOK
<1>events. events \subseteq Event
  BY DEF WellFormed, TypeOK
<1>torn. torn \subseteq Slots
  BY DEF WellFormed, TypeOK
<1>excused. excused \subseteq Jobs
  BY DEF WellFormed, TypeOK
<1>faults. faults \in 0..MaxFaults
  BY DEF WellFormed, TypeOK
<1>j. \A s \in Slots : run[s].pc # "idle" => run[s].job \in Jobs /\ run[s].attempt \in 1..MaxAttempts
  BY RunTypes
<1>r. \A r \in Reqs : req[r].pc \notin {"idle", "create"} => req[r].job \in Jobs
  BY ReqTypes
<1>made. \A j \in Jobs : entry[j].st = "waiting" => entry[j].made + 1 \in 0..MaxAttempts
  BY <1>entry, Constants DEF WellFormed, EntryOK, Entry
<1>1. ASSUME NEW r \in Reqs, NEW kind \in Profiles, NEW a \in Assets, NEW k \in Keys \cup {None},
     SubmitLookup(r, kind, a, k) PROVE TypeOK'
  <2>1. req' \in [Reqs -> Req]
    BY <1>1, <1>req, PipelineAssumption DEF SubmitLookup, Req, Kinds, IdleReq, NoAsset
  <2>2. QED  BY <1>1, <2>1 DEF WellFormed, TypeOK, SubmitLookup, workerVars
<1>2. ASSUME NEW r \in Reqs, NEW j \in Jobs, SubmitCreate(r, j) PROVE TypeOK'
  <2>1. row' \in [Jobs -> Row]
    BY <1>2, <1>row, <1>req, <1>r DEF SubmitCreate, Row, Live, Terminal, Req
  <2>2. req' \in [Reqs -> Req]
    BY <1>2, <1>req, <1>r, IdleTypes DEF SubmitCreate, Req
  <2>3. QED  BY <1>2, <2>1, <2>2 DEF WellFormed, TypeOK, SubmitCreate, workerVars
<1>3. ASSUME NEW r \in Reqs, SubmitEnqueue(r) PROVE TypeOK'
  <2>1. entry' \in [Jobs -> Entry]
    BY <1>3, <1>entry, <1>req, <1>r DEF SubmitEnqueue, ReqTo, ReqDone, Publish, Entry, Req
  <2>2. req' \in [Reqs -> Req]
    BY <1>3, <1>req, <1>r, IdleTypes DEF SubmitEnqueue, ReqTo, ReqDone, Publish, Req
  <2>3. events' \subseteq Event
    BY <1>3, <1>events, <1>req, <1>r, Constants DEF SubmitEnqueue, ReqTo, ReqDone, Publish,
        Event, EventTypes, Req
  <2>4. QED  BY <1>3, <2>1, <2>2, <2>3 DEF WellFormed, TypeOK, SubmitEnqueue, ReqTo, ReqDone, Publish, workerVars
<1>4. ASSUME NEW r \in Reqs, SubmitAsset(r) PROVE TypeOK'
  <2>1. asset' \in [Assets -> Asset]
    BY <1>4, <1>asset, <1>req, <1>r DEF SubmitAsset, ReqDone, Publish, Asset, Req
  <2>2. events' \subseteq Event
    BY <1>4, <1>events, <1>req, <1>r, Constants DEF SubmitAsset, ReqDone, Publish, Event,
        EventTypes, Req
  <2>3. req' \in [Reqs -> Req]
    BY <1>4, <1>req, <1>r, IdleTypes DEF SubmitAsset, ReqDone, Publish, Req
  <2>4. QED  BY <1>4, <2>1, <2>2, <2>3 DEF WellFormed, TypeOK, SubmitAsset, ReqDone, Publish, workerVars
<1>5. ASSUME NEW r \in Reqs, SubmitError(r) PROVE TypeOK'
  <2>1. req' \in [Reqs -> Req]
    BY <1>5, <1>req, <1>r, IdleTypes DEF SubmitError, ReqDone, Req
  <2>2. QED  BY <1>5, <2>1 DEF WellFormed, TypeOK, SubmitError, ReqDone, workerVars
<1>6. ASSUME NEW r \in Reqs, NEW j \in Jobs, CancelRead(r, j) PROVE TypeOK'
  <2>1. req' \in [Reqs -> Req]
    BY <1>6, <1>req, <1>r, IdleTypes DEF CancelRead, Req
  <2>2. QED  BY <1>6, <2>1 DEF WellFormed, TypeOK, CancelRead, workerVars
<1>7. ASSUME NEW r \in Reqs, CancelRemove(r) PROVE TypeOK'
  <2>1. entry' \in [Jobs -> Entry]
    BY <1>7, <1>entry, <1>req, <1>r DEF CancelRemove, ReqTo, Entry, Req
  <2>2. req' \in [Reqs -> Req]
    BY <1>7, <1>req, <1>r, IdleTypes DEF CancelRemove, ReqTo, Req
  <2>3. QED  BY <1>7, <2>1, <2>2 DEF WellFormed, TypeOK, CancelRemove, ReqTo, workerVars
<1>8. ASSUME NEW r \in Reqs, CancelUpdate(r) PROVE TypeOK'
  <2>1. row' \in [Jobs -> Row]
    BY <1>8, <1>row, <1>req, <1>r DEF CancelUpdate, ReqTo, Row, Live, Terminal, Req
  <2>2. req' \in [Reqs -> Req]
    BY <1>8, <1>req, <1>r, IdleTypes DEF CancelUpdate, ReqTo, Req
  <2>3. QED  BY <1>8, <2>1, <2>2 DEF WellFormed, TypeOK, CancelUpdate, ReqTo, workerVars
<1>9. ASSUME NEW r \in Reqs, CancelPublish(r) PROVE TypeOK'
  <2>1. cancelMsgs' \subseteq Procs \X Jobs
    BY <1>9, <1>cancelMsgs, <1>req, <1>r DEF CancelPublish, ReqDone, Req
  <2>2. req' \in [Reqs -> Req]
    BY <1>9, <1>req, <1>r, IdleTypes DEF CancelPublish, ReqDone, Req
  <2>3. QED  BY <1>9, <2>1, <2>2 DEF WellFormed, TypeOK, CancelPublish, ReqDone, workerVars
<1>10. ASSUME NEW r \in Reqs, NEW j \in Jobs, DeleteRead(r, j) PROVE TypeOK'
  <2>1. req' \in [Reqs -> Req]
    BY <1>10, <1>req, <1>r, IdleTypes DEF DeleteRead, MayDelete, Req
  <2>2. excused' \subseteq Jobs
    BY <1>10, <1>excused, <1>req, <1>r DEF DeleteRead, MayDelete, Req
  <2>3. QED  BY <1>10, <2>1, <2>2 DEF WellFormed, TypeOK, DeleteRead, MayDelete, workerVars
<1>11. ASSUME NEW r \in Reqs, DeleteList(r) PROVE TypeOK'
  <2>1. req' \in [Reqs -> Req]
    BY <1>11, <1>req, <1>r, <1>s3 DEF DeleteList, Req
  <2>2. QED  BY <1>11, <2>1 DEF WellFormed, TypeOK, DeleteList, workerVars
<1>12. ASSUME NEW r \in Reqs, DeleteObjects(r) PROVE TypeOK'
  <2>1. s3' \in [Jobs -> SUBSET Objects]
    BY <1>12, <1>s3, <1>req, <1>r DEF DeleteObjects, ReqTo, Purged, Req
  <2>2. req' \in [Reqs -> Req]
    BY <1>12, <1>req, <1>r, IdleTypes DEF DeleteObjects, ReqTo, Purged, Req
  <2>3. QED  BY <1>12, <2>1, <2>2 DEF WellFormed, TypeOK, DeleteObjects, ReqTo, Purged, workerVars
<1>13. ASSUME NEW r \in Reqs, DeleteRow(r) PROVE TypeOK'
  <2>1. row' \in [Jobs -> Row]
    BY <1>13, <1>row, <1>req, <1>r DEF DeleteRow, ReqDone, Row, Live, Terminal, Req
  <2>2. req' \in [Reqs -> Req]
    BY <1>13, <1>req, <1>r, IdleTypes DEF DeleteRow, ReqDone, Req
  <2>3. QED  BY <1>13, <2>1, <2>2 DEF WellFormed, TypeOK, DeleteRow, ReqDone, workerVars
<1>14. ASSUME NEW r \in Reqs, RowGone(r) PROVE TypeOK'
  <2>1. req' \in [Reqs -> Req]
    BY <1>14, <1>req, <1>r, IdleTypes DEF RowGone, Req
  <2>2. QED  BY <1>14, <2>1 DEF WellFormed, TypeOK, RowGone, workerVars
<1>15. ASSUME ApiCrash PROVE TypeOK'
  <2>1. faults' \in 0..MaxFaults
    BY <1>15, <1>faults, Constants DEF ApiCrash
  <2>2. req' \in [Reqs -> Req]
    BY <1>15, <1>req, IdleTypes DEF ApiCrash, Req
  <2>3. QED  BY <1>15, <2>1, <2>2 DEF WellFormed, TypeOK, ApiCrash, workerVars
<1>16. ASSUME NEW s \in Slots, NEW j \in Jobs, Claim(s, j) PROVE TypeOK'
  <2>1. entry' \in [Jobs -> Entry]
    BY <1>16, <1>entry, <1>run, <1>j DEF Claim, TakeJob, Entry, Run
  <2>2. run' \in [Slots -> Run]
    BY <1>16, <1>run, <1>made, IdleTypes DEF Claim, TakeJob, Run, RunPC
  <2>3. QED  BY <1>16, <2>1, <2>2 DEF WellFormed, TypeOK, Claim, TakeJob
<1>17. ASSUME NEW s \in Slots, NEW j \in Jobs, ClaimStalled(s, j) PROVE TypeOK'
  <2>1. entry' \in [Jobs -> Entry]
    BY <1>17, <1>entry, <1>run, <1>j DEF ClaimStalled, TakeJob, Entry, Run
  <2>2. run' \in [Slots -> Run]
    BY <1>17, <1>run, <1>made, IdleTypes DEF ClaimStalled, TakeJob, Run, RunPC
  <2>3. QED  BY <1>17, <2>1, <2>2 DEF WellFormed, TypeOK, ClaimStalled, TakeJob
<1>18. ASSUME NEW j \in Jobs, Promote(j) PROVE TypeOK'
  <2>1. entry' \in [Jobs -> Entry]
    BY <1>18, <1>entry DEF Promote, Entry
  <2>2. QED  BY <1>18, <2>1 DEF WellFormed, TypeOK, Promote, workerVars
<1>19. ASSUME NEW j \in Jobs, Stalled(j) PROVE TypeOK'
  <2>1. entry' \in [Jobs -> Entry]
    BY <1>19, <1>entry, StallType DEF Stalled, Requeue, Entry
  <2>2. QED  BY <1>19, <2>1 DEF WellFormed, TypeOK, Stalled, Requeue, workerVars
<1>20. ASSUME NEW j \in Jobs, LockLost(j) PROVE TypeOK'
  <2>1. entry' \in [Jobs -> Entry]
    BY <1>20, <1>entry, StallType DEF LockLost, Requeue, Entry
  <2>2. faults' \in 0..MaxFaults
    BY <1>20, <1>faults, Constants DEF LockLost, Requeue
  <2>3. QED  BY <1>20, <2>1, <2>2 DEF WellFormed, TypeOK, LockLost, Requeue, workerVars
<1>21. ASSUME NEW s \in Slots, Start(s) PROVE TypeOK'
  <2>1. row' \in [Jobs -> Row]
    BY <1>21, <1>row, <1>run, <1>j DEF Start, RunTo, Row, Live, Terminal, Run
  <2>2. run' \in [Slots -> Run]
    BY <1>21, <1>run, <1>j, IdleTypes DEF Start, RunTo, Run, RunPC
  <2>3. QED  BY <1>21, <2>1, <2>2 DEF WellFormed, TypeOK, Start, RunTo
<1>22. ASSUME NEW s \in Slots, StartRefused(s) PROVE TypeOK'
  <2>1. run' \in [Slots -> Run]
    <3>1. [run[s] EXCEPT !.pc = "fail", !.err = "cancelled"] \in Run
      BY <1>run DEF Run, RunPC
    <3>2. run' = [run EXCEPT ![s] = [run[s] EXCEPT !.pc = "fail", !.err = "cancelled"]]
      BY <1>22, <1>run DEF StartRefused
    <3>3. QED  BY <3>1, <3>2, <1>run
  <2>2. QED  BY <1>22, <2>1 DEF WellFormed, TypeOK, StartRefused
<1>23. ASSUME NEW s \in Slots, SetToken(s) PROVE TypeOK'
  <2>1. events' \subseteq Event
    BY <1>23, <1>events, <1>run, <1>j, Constants DEF SetToken, RunTo, Publish, Event, EventTypes,
        Run
  <2>2. activeTokens' \in [Procs -> [Jobs -> Slots \cup {None}]]
    BY <1>23, <1>activeTokens, <1>run, <1>j DEF SetToken, RunTo, Publish, Run
  <2>3. run' \in [Slots -> Run]
    BY <1>23, <1>run, <1>j, IdleTypes DEF SetToken, RunTo, Publish, Run, RunPC
  <2>4. QED  BY <1>23, <2>1, <2>2, <2>3 DEF WellFormed, TypeOK, SetToken, RunTo, Publish
<1>24. ASSUME NEW s \in Slots, Download(s) PROVE TypeOK'
  <2>1. run' \in [Slots -> Run]
    <3>1. [run[s] EXCEPT !.pc = "check", !.left = StagesOf(row[run[s].job].kind)] \in Run
      BY <1>run, StagesType DEF Run, RunPC
    <3>2. run' = [run EXCEPT ![s] = [run[s] EXCEPT !.pc = "check", !.left = StagesOf(row[run[s].job].kind)]]
      BY <1>24, <1>run DEF Download
    <3>3. QED  BY <3>1, <3>2, <1>run
  <2>2. QED  BY <1>24, <2>1 DEF WellFormed, TypeOK, Download
<1>25. ASSUME NEW s \in Slots, BeginStage(s) PROVE TypeOK'
  <2>1. run' \in [Slots -> Run]
    BY <1>25, <1>run, <1>j, IdleTypes DEF BeginStage, RunTo, Run, RunPC
  <2>2. QED  BY <1>25, <2>1 DEF WellFormed, TypeOK, BeginStage, RunTo
<1>26. ASSUME NEW s \in Slots, AbortStage(s) PROVE TypeOK'
  <2>1. run' \in [Slots -> Run]
    <3>1. [run[s] EXCEPT !.pc = "fail", !.err = ErrorOf(s)] \in Run
      BY <1>run, ErrorType DEF Run, RunPC
    <3>2. run' = [run EXCEPT ![s] = [run[s] EXCEPT !.pc = "fail", !.err = ErrorOf(s)]]
      BY <1>26, <1>run DEF AbortStage, Throw
    <3>3. QED  BY <3>1, <3>2, <1>run
  <2>2. activeTokens' \in [Procs -> [Jobs -> Slots \cup {None}]]
    BY <1>26, <1>activeTokens, <1>run, <1>j DEF AbortStage, Throw, Run
  <2>3. torn' \subseteq Slots
    BY <1>26, <1>torn DEF AbortStage, Throw, RemoveDir, Sharing
  <2>4. QED  BY <1>26, <2>1, <2>2, <2>3 DEF WellFormed, TypeOK, AbortStage, Throw
<1>27. ASSUME NEW s \in Slots, TranscodeError(s) PROVE TypeOK'
  <2>1. run' \in [Slots -> Run]
    <3>1. [run[s] EXCEPT !.pc = "fail", !.err = ErrorOf(s)] \in Run
      BY <1>run, ErrorType DEF Run, RunPC
    <3>2. run' = [run EXCEPT ![s] = [run[s] EXCEPT !.pc = "fail", !.err = ErrorOf(s)]]
      BY <1>27, <1>run DEF TranscodeError, Throw
    <3>3. QED  BY <3>1, <3>2, <1>run
  <2>2. activeTokens' \in [Procs -> [Jobs -> Slots \cup {None}]]
    BY <1>27, <1>activeTokens, <1>run, <1>j DEF TranscodeError, Throw, Run
  <2>3. torn' \subseteq Slots
    BY <1>27, <1>torn DEF TranscodeError, Throw, RemoveDir, Sharing
  <2>4. QED  BY <1>27, <2>1, <2>2, <2>3 DEF WellFormed, TypeOK, TranscodeError, Throw
<1>28. ASSUME NEW s \in Slots, EndStage(s) PROVE TypeOK'
  <2>1. run' \in [Slots -> Run]
    <3>0. run[s].left - 1 \in 0..Stages
      BY <1>28, <1>run, Constants DEF EndStage, Run
    <3>1. [run[s] EXCEPT !.pc = "check", !.left = run[s].left - 1] \in Run
      BY <3>0, <1>run DEF Run, RunPC
    <3>2. run' = [run EXCEPT ![s] = [run[s] EXCEPT !.pc = "check", !.left = run[s].left - 1]]
      BY <1>28, <1>run DEF EndStage
    <3>3. QED  BY <3>1, <3>2, <1>run
  <2>2. QED  BY <1>28, <2>1 DEF WellFormed, TypeOK, EndStage
<1>29. ASSUME NEW s \in Slots, EndLastStage(s) PROVE TypeOK'
  <2>1. run' \in [Slots -> Run]
    <3>0. 0 \in 0..Stages /\ Files(row[run[s].job].kind) \in SUBSET Objects
      BY FilesType, Constants
    <3>1. [run[s] EXCEPT !.pc = "upload", !.left = 0, !.todo = Files(row[run[s].job].kind)] \in Run
      BY <3>0, <1>run DEF Run, RunPC
    <3>2. run' = [run EXCEPT ![s] = [run[s] EXCEPT !.pc = "upload", !.left = 0, !.todo = Files(row[run[s].job].kind)]]
      BY <1>29, <1>run DEF EndLastStage
    <3>3. QED  BY <3>1, <3>2, <1>run
  <2>2. QED  BY <1>29, <2>1 DEF WellFormed, TypeOK, EndLastStage
<1>30. ASSUME NEW s \in Slots, NEW f \in Objects, UploadFile(s, f) PROVE TypeOK'
  <2>1. s3' \in [Jobs -> SUBSET Objects]
    BY <1>30, <1>s3, <1>run, <1>j DEF UploadFile, Run
  <2>2. run' \in [Slots -> Run]
    BY <1>30, <1>run, <1>j, IdleTypes DEF UploadFile, Run, RunPC
  <2>3. QED  BY <1>30, <2>1, <2>2 DEF WellFormed, TypeOK, UploadFile
<1>31. ASSUME NEW s \in Slots, UploadDone(s) PROVE TypeOK'
  <2>1. activeTokens' \in [Procs -> [Jobs -> Slots \cup {None}]]
    BY <1>31, <1>activeTokens, <1>run, <1>j DEF UploadDone, RunTo, Run
  <2>2. run' \in [Slots -> Run]
    BY <1>31, <1>run, <1>j, IdleTypes DEF UploadDone, RunTo, Run, RunPC
  <2>3. torn' \subseteq Slots
    BY <1>31, <1>torn DEF UploadDone, RemoveDir, Sharing
  <2>4. excused' \subseteq Jobs
    BY <1>31, <1>excused, <1>j DEF UploadDone
  <2>5. QED  BY <1>31, <2>1, <2>2, <2>3, <2>4 DEF WellFormed, TypeOK, UploadDone, RunTo
<1>32. ASSUME NEW s \in Slots, Complete(s) PROVE TypeOK'
  <2>1. row' \in [Jobs -> Row]
    BY <1>32, <1>row DEF Complete, Row, Terminal
  <2>2. run' \in [Slots -> Run]
    BY <1>32, <1>run, <1>j, IdleTypes DEF Complete, RunTo, Run, RunPC
  <2>3. QED  BY <1>32, <2>1, <2>2 DEF WellFormed, TypeOK, Complete, RunTo
<1>33. ASSUME NEW s \in Slots, CompleteRefused(s) PROVE TypeOK'
  <2>1. run' \in [Slots -> Run]
    BY <1>33, <1>run, <1>j, IdleTypes DEF CompleteRefused, RunTo, Run, RunPC
  <2>2. QED  BY <1>33, <2>1 DEF WellFormed, TypeOK, CompleteRefused, RunTo
<1>34. ASSUME NEW s \in Slots, Announce(s) PROVE TypeOK'
  <2>1. events' \subseteq Event
    BY <1>34, <1>events, <1>run, <1>j, Constants DEF Announce, RunTo, Publish, Event, EventTypes,
        Run
  <2>2. run' \in [Slots -> Run]
    BY <1>34, <1>run, <1>j, IdleTypes DEF Announce, RunTo, Publish, Run, RunPC
  <2>3. QED  BY <1>34, <2>1, <2>2 DEF WellFormed, TypeOK, Announce, RunTo, Publish
<1>35. ASSUME NEW s \in Slots, MarkReady(s) PROVE TypeOK'
  <2>1. asset' \in [Assets -> Asset]
    BY <1>35, <1>asset, <1>run, <1>j DEF MarkReady, RunTo, Asset, Run
  <2>2. run' \in [Slots -> Run]
    BY <1>35, <1>run, <1>j, IdleTypes DEF MarkReady, RunTo, Run, RunPC
  <2>3. QED  BY <1>35, <2>1, <2>2 DEF WellFormed, TypeOK, MarkReady, RunTo
<1>36. ASSUME NEW s \in Slots, DbError(s) PROVE TypeOK'
  <2>1. run' \in [Slots -> Run]
    <3>1. [run[s] EXCEPT !.pc = "fail", !.err = "error"] \in Run
      BY <1>run DEF Run, RunPC
    <3>2. run' = [run EXCEPT ![s] = [run[s] EXCEPT !.pc = "fail", !.err = "error"]]
      BY <1>36, <1>run DEF DbError
    <3>3. QED  BY <3>1, <3>2, <1>run
  <2>2. QED  BY <1>36, <2>1 DEF WellFormed, TypeOK, DbError
<1>37. ASSUME NEW s \in Slots, Finish(s) PROVE TypeOK'
  <2>1. entry' \in [Jobs -> Entry]
    BY <1>37, <1>entry, <1>run, <1>j DEF Finish, Entry, Run
  <2>2. run' \in [Slots -> Run]
    BY <1>37, <1>run, <1>j, IdleTypes DEF Finish, Run, RunPC
  <2>3. QED  BY <1>37, <2>1, <2>2 DEF WellFormed, TypeOK, Finish
<1>38. ASSUME NEW s \in Slots, LateReport(s) PROVE TypeOK'
  <2>1. run' \in [Slots -> Run]
    BY <1>38, <1>run, <1>j, IdleTypes DEF LateReport, Run, RunPC
  <2>2. QED  BY <1>38, <2>1 DEF WellFormed, TypeOK, LateReport
<1>39. ASSUME NEW s \in Slots, FailAttempt(s) PROVE TypeOK'
  <2>1. entry' \in [Jobs -> Entry]
    <3>1. run[s].job \in Jobs /\ run[s].attempt \in 0..MaxAttempts
      BY <1>39, <1>j, Constants DEF FailAttempt
    <3>2. [entry[run[s].job] EXCEPT !.st = AfterFail(s), !.made = run[s].attempt, !.lock = None] \in Entry
      BY <3>1, <1>entry, AfterFailType DEF Entry
    <3>3. entry' = [entry EXCEPT ![run[s].job] = [entry[run[s].job] EXCEPT !.st = AfterFail(s), !.made = run[s].attempt, !.lock = None]]
      BY <1>39, <1>entry DEF FailAttempt
    <3>4. QED  BY <3>2, <3>3, <1>entry
  <2>2. run' \in [Slots -> Run]
    BY <1>39, <1>run, <1>j, Constants, IdleTypes DEF FailAttempt, Publish, Run, RunPC
  <2>3. failWrite' \in [Jobs -> Procs \cup {None}]
    BY <1>39, <1>failWrite, <1>run, <1>j, Constants DEF FailAttempt, Publish, Run
  <2>4. events' \subseteq Event
    BY <1>39, <1>events, <1>run, <1>j, Constants DEF FailAttempt, Publish, Event, EventTypes, Run
  <2>5. QED  BY <1>39, <2>1, <2>2, <2>3, <2>4 DEF WellFormed, TypeOK, FailAttempt, Publish
<1>40. ASSUME NEW j \in Jobs, FailWrite(j) PROVE TypeOK'
  <2>1. row' \in [Jobs -> Row]
    BY <1>40, <1>row DEF FailWrite, Publish, Row, Live, Terminal
  <2>2. failWrite' \in [Jobs -> Procs \cup {None}]
    BY <1>40, <1>failWrite DEF FailWrite, Publish
  <2>3. events' \subseteq Event
    BY <1>40, <1>events, Constants DEF FailWrite, Publish, Event, EventTypes
  <2>4. QED  BY <1>40, <2>1, <2>2, <2>3 DEF WellFormed, TypeOK, FailWrite, Publish
<1>41. ASSUME NEW j \in Jobs, FailWriteGone(j) PROVE TypeOK'
  <2>1. run' \in [Slots -> Run]
    BY <1>41, <1>run, IdleTypes DEF FailWriteGone, ProcDown
  <2>2. activeTokens' \in [Procs -> [Jobs -> Slots \cup {None}]]
    BY <1>41, <1>activeTokens DEF FailWriteGone, ProcDown
  <2>3. failWrite' \in [Jobs -> Procs \cup {None}]
    BY <1>41, <1>failWrite DEF FailWriteGone, ProcDown
  <2>4. cancelMsgs' \subseteq Procs \X Jobs
    BY <1>41, <1>cancelMsgs DEF FailWriteGone, ProcDown
  <2>5. QED  BY <1>41, <2>1, <2>2, <2>3, <2>4 DEF WellFormed, TypeOK, FailWriteGone, ProcDown
<1>42. ASSUME NEW s \in Slots, ProgressOnDeletedRow(s) PROVE TypeOK'
  <2>1. run' \in [Slots -> Run]
    BY <1>42, <1>run, <1>j, IdleTypes DEF ProgressOnDeletedRow, ProcDown
  <2>2. activeTokens' \in [Procs -> [Jobs -> Slots \cup {None}]]
    BY <1>42, <1>activeTokens, <1>run, <1>j DEF ProgressOnDeletedRow, ProcDown, Run
  <2>3. failWrite' \in [Jobs -> Procs \cup {None}]
    BY <1>42, <1>failWrite, <1>run, <1>j DEF ProgressOnDeletedRow, ProcDown, Run
  <2>4. cancelMsgs' \subseteq Procs \X Jobs
    BY <1>42, <1>cancelMsgs, <1>run, <1>j DEF ProgressOnDeletedRow, ProcDown, Run
  <2>5. QED  BY <1>42, <2>1, <2>2, <2>3, <2>4 DEF WellFormed, TypeOK, ProgressOnDeletedRow, ProcDown
<1>43. ASSUME NEW p \in Procs, ProcCrash(p) PROVE TypeOK'
  <2>1. faults' \in 0..MaxFaults
    BY <1>43, <1>faults, Constants DEF ProcCrash, ProcDown
  <2>2. run' \in [Slots -> Run]
    BY <1>43, <1>run, IdleTypes DEF ProcCrash, ProcDown
  <2>3. activeTokens' \in [Procs -> [Jobs -> Slots \cup {None}]]
    BY <1>43, <1>activeTokens DEF ProcCrash, ProcDown
  <2>4. failWrite' \in [Jobs -> Procs \cup {None}]
    BY <1>43, <1>failWrite DEF ProcCrash, ProcDown
  <2>5. cancelMsgs' \subseteq Procs \X Jobs
    BY <1>43, <1>cancelMsgs DEF ProcCrash, ProcDown
  <2>6. QED  BY <1>43, <2>1, <2>2, <2>3, <2>4, <2>5 DEF WellFormed, TypeOK, ProcCrash, ProcDown
<1>44. ASSUME NEW p \in Procs, NEW j \in Jobs, ReceiveCancel(p, j) PROVE TypeOK'
  <2>1. cancelMsgs' \subseteq Procs \X Jobs
    BY <1>44, <1>cancelMsgs, Constants DEF ReceiveCancel
  <2>2. run' \in [Slots -> Run]
    <3>1. CASE activeTokens[p][j] = None
      BY <3>1, <1>44, <1>run DEF ReceiveCancel
    <3>2. CASE activeTokens[p][j] # None
      <4> DEFINE t == activeTokens[p][j]
      <4>1. run' = [run EXCEPT ![t] = [run[t] EXCEPT !.cancelled = TRUE]]
        BY <3>2, <1>44 DEF ReceiveCancel
      <4>2. \A u \in Run : [u EXCEPT !.cancelled = TRUE] \in Run
        BY DEF Run
      <4>3. QED  BY <4>1, <4>2, <1>run
    <3>3. QED  BY <3>1, <3>2
  <2>3. QED  BY <1>44, <2>1, <2>2 DEF WellFormed, TypeOK, ReceiveCancel
<1>45. CASE UNCHANGED vars
  BY <1>45 DEF vars, WellFormed, TypeOK
<1>46. QED
  BY <1>1, <1>2, <1>3, <1>4, <1>5, <1>6, <1>7, <1>8, <1>9, <1>10, <1>11, <1>12, <1>13, <1>14,
      <1>15, <1>16, <1>17, <1>18, <1>19, <1>20, <1>21, <1>22, <1>23, <1>24, <1>25, <1>26, <1>27,
      <1>28, <1>29, <1>30, <1>31, <1>32, <1>33, <1>34, <1>35, <1>36, <1>37, <1>38, <1>39, <1>40,
      <1>41, <1>42, <1>43, <1>44, <1>45 DEF Next, NewRequest, RequestStep, RunStep

-----------------------------------------------------------------------------
(* Every step keeps the references *)

LEMMA ProgressStep == ASSUME WellFormed, [Next]_vars PROVE RunOK' /\ ReqOK' /\ EntryOK' /\
    EnqueueOK'
<1>row. row \in [Jobs -> Row]
  BY DEF WellFormed, TypeOK
<1>entry. entry \in [Jobs -> Entry]
  BY DEF WellFormed, TypeOK
<1>run. run \in [Slots -> Run]
  BY DEF WellFormed, TypeOK
<1>req. req \in [Reqs -> Req]
  BY DEF WellFormed, TypeOK
<1>runok. RunOK
  BY DEF WellFormed
<1>reqok. ReqOK
  BY DEF WellFormed
<1>entryok. EntryOK
  BY DEF WellFormed
<1>enqueueok. EnqueueOK
  BY DEF WellFormed
<1>j. \A s \in Slots : run[s].pc # "idle" => run[s].job \in Jobs /\ run[s].attempt \in 1..MaxAttempts
  BY RunTypes
<1>r. \A r \in Reqs : req[r].pc \notin {"idle", "create"} => req[r].job \in Jobs
  BY ReqTypes
<1>1. ASSUME NEW r \in Reqs, NEW kind \in Profiles, NEW a \in Assets, NEW k \in Keys \cup {None},
     SubmitLookup(r, kind, a, k) PROVE RunOK' /\ ReqOK' /\ EntryOK' /\ EnqueueOK'
  <2>1. RunOK'
    BY <1>1, <1>runok DEF RunOK, SubmitLookup, workerVars
  <2>2. ReqOK'
    BY <1>1, <1>reqok, <1>req, <1>row, <1>r DEF ReqOK, SubmitLookup, workerVars, IdleReq
  <2>3. EntryOK'
    BY <1>1, <1>entryok DEF EntryOK, SubmitLookup, workerVars
  <2>4. EnqueueOK'
    BY <1>1, <1>enqueueok, <1>entry, <1>req, <1>row, <1>reqok, <1>r DEF EnqueueOK, SubmitLookup,
        workerVars, IdleReq, ReqOK
  <2>5. QED  BY <2>1, <2>2, <2>3, <2>4
<1>2. ASSUME NEW r \in Reqs, NEW j \in Jobs, SubmitCreate(r, j) PROVE RunOK' /\ ReqOK' /\
     EntryOK' /\ EnqueueOK'
  <2>1. RunOK'
    BY <1>2, <1>runok, <1>run, <1>row, <1>entryok, <1>req, <1>reqok, <1>r DEF RunOK,
        SubmitCreate, workerVars
  <2>2. ReqOK'
    BY <1>2, <1>reqok, <1>req, <1>row, <1>r DEF ReqOK, SubmitCreate, workerVars
  <2>3. EntryOK'
    BY <1>2, <1>entryok, <1>entry, <1>run, <1>row, <1>runok, <1>req, <1>reqok, <1>r DEF EntryOK,
        SubmitCreate, workerVars
  <2>4. EnqueueOK'
    BY <1>2, <1>enqueueok, <1>entry, <1>req, <1>row, <1>reqok, <1>r, <1>entryok DEF EnqueueOK,
        SubmitCreate, workerVars, EntryOK, ReqOK
  <2>5. QED  BY <2>1, <2>2, <2>3, <2>4
<1>3. ASSUME NEW r \in Reqs, SubmitEnqueue(r) PROVE RunOK' /\ ReqOK' /\ EntryOK' /\ EnqueueOK'
  <2>1. RunOK'
    BY <1>3, <1>runok DEF RunOK, SubmitEnqueue, ReqTo, ReqDone, Publish, workerVars
  <2>2. ReqOK'
    <3>1. \A q \in Reqs : q # r => req'[q] = req[q]
      BY <1>3, <1>req DEF SubmitEnqueue, ReqTo, ReqDone
    <3>2. req'[r].pc = "idle" \/ (req'[r].pc = "asset" /\ req'[r].job = req[r].job)
      BY <1>3, <1>req DEF SubmitEnqueue, ReqTo, ReqDone, IdleReq, Req
    <3>3. QED  BY <1>3, <3>1, <3>2, <1>reqok DEF ReqOK, SubmitEnqueue
  <2>3. EntryOK'
    BY <1>3, <1>entryok, <1>entry, <1>run, <1>row, <1>runok, <1>req, <1>reqok, <1>r,
        <1>enqueueok, Constants DEF EntryOK, SubmitEnqueue, ReqTo, ReqDone, Publish, workerVars,
        IdleReq, ReqOK, EnqueueOK
  <2>4. EnqueueOK'
    <3>1. \A q \in Reqs : q # r => req'[q] = req[q]
      BY <1>3, <1>req DEF SubmitEnqueue, ReqTo, ReqDone
    <3>2. req'[r].pc # "enqueue"
      BY <1>3, <1>req DEF SubmitEnqueue, ReqTo, ReqDone, IdleReq, Req
    <3>3. /\ \A j \in Jobs : entry'[j].made = entry[j].made
          /\ \A j \in Jobs : j # req[r].job => entry'[j] = entry[j]
      BY <1>3, <1>entry DEF SubmitEnqueue, Entry
    <3>4. row' = row /\ req[r].pc = "enqueue"
      BY <1>3 DEF SubmitEnqueue
    <3>5. \A q \in Reqs : req[q].pc = "enqueue" => req[q].job \in Jobs
      BY ReqTypes
    <3>6. QED  BY <3>1, <3>2, <3>3, <3>4, <3>5, <1>enqueueok DEF EnqueueOK
  <2>5. QED  BY <2>1, <2>2, <2>3, <2>4
<1>4. ASSUME NEW r \in Reqs, SubmitAsset(r) PROVE RunOK' /\ ReqOK' /\ EntryOK' /\ EnqueueOK'
  <2>1. RunOK'
    BY <1>4, <1>runok DEF RunOK, SubmitAsset, ReqDone, Publish, workerVars
  <2>2. ReqOK'
    BY <1>4, <1>reqok, <1>req, <1>row, <1>r DEF ReqOK, SubmitAsset, ReqDone, Publish, workerVars,
        IdleReq
  <2>3. EntryOK'
    BY <1>4, <1>entryok DEF EntryOK, SubmitAsset, ReqDone, Publish, workerVars
  <2>4. EnqueueOK'
    BY <1>4, <1>enqueueok, <1>entry, <1>req, <1>row, <1>reqok, <1>r DEF EnqueueOK, SubmitAsset,
        ReqDone, Publish, workerVars, IdleReq, ReqOK
  <2>5. QED  BY <2>1, <2>2, <2>3, <2>4
<1>5. ASSUME NEW r \in Reqs, SubmitError(r) PROVE RunOK' /\ ReqOK' /\ EntryOK' /\ EnqueueOK'
  <2>1. RunOK'
    BY <1>5, <1>runok DEF RunOK, SubmitError, ReqDone, workerVars
  <2>2. ReqOK'
    BY <1>5, <1>reqok, <1>req, <1>row, <1>r DEF ReqOK, SubmitError, ReqDone, workerVars, IdleReq
  <2>3. EntryOK'
    BY <1>5, <1>entryok DEF EntryOK, SubmitError, ReqDone, workerVars
  <2>4. EnqueueOK'
    BY <1>5, <1>enqueueok, <1>entry, <1>req, <1>row, <1>reqok, <1>r DEF EnqueueOK, SubmitError,
        ReqDone, workerVars, IdleReq, ReqOK
  <2>5. QED  BY <2>1, <2>2, <2>3, <2>4
<1>6. ASSUME NEW r \in Reqs, NEW j \in Jobs, CancelRead(r, j) PROVE RunOK' /\ ReqOK' /\ EntryOK'
     /\ EnqueueOK'
  <2>1. RunOK'
    BY <1>6, <1>runok DEF RunOK, CancelRead, workerVars
  <2>2. ReqOK'
    BY <1>6, <1>reqok, <1>req, <1>row, <1>r DEF ReqOK, CancelRead, workerVars, IdleReq, Live,
        Terminal
  <2>3. EntryOK'
    BY <1>6, <1>entryok DEF EntryOK, CancelRead, workerVars
  <2>4. EnqueueOK'
    BY <1>6, <1>enqueueok, <1>entry, <1>req, <1>row, <1>reqok, <1>r DEF EnqueueOK, CancelRead,
        workerVars, IdleReq, Live, Terminal, ReqOK
  <2>5. QED  BY <2>1, <2>2, <2>3, <2>4
<1>7. ASSUME NEW r \in Reqs, CancelRemove(r) PROVE RunOK' /\ ReqOK' /\ EntryOK' /\ EnqueueOK'
  <2>1. RunOK'
    BY <1>7, <1>runok DEF RunOK, CancelRemove, ReqTo, workerVars
  <2>2. ReqOK'
    BY <1>7, <1>reqok, <1>req, <1>row, <1>r DEF ReqOK, CancelRemove, ReqTo, workerVars
  <2>3. CASE entry' = [entry EXCEPT ![req[r].job].st = "absent"] /\ entry[req[r].job].st # "active"
    <3>1. EntryOK'
      BY <2>3, <1>7, <1>entryok, <1>entry, <1>run, <1>row, <1>runok, <1>req, <1>reqok, <1>r DEF EntryOK,
          CancelRemove, ReqTo, workerVars
    <3>2. EnqueueOK'
      BY <2>3, <1>7, <1>enqueueok, <1>entry, <1>req, <1>row, <1>reqok, <1>r DEF EnqueueOK, CancelRemove,
          ReqTo, workerVars, ReqOK
    <3>3. QED  BY <2>1, <2>2, <3>1, <3>2
  <2>4. CASE UNCHANGED entry
    <3>1. EntryOK'
      BY <2>4, <1>7, <1>entryok DEF EntryOK, CancelRemove, workerVars
    <3>2. EnqueueOK'
      BY <2>4, <1>7, <1>enqueueok, <1>req, <1>r DEF EnqueueOK, CancelRemove, ReqTo, workerVars
    <3>3. QED  BY <2>1, <2>2, <3>1, <3>2
  <2>5. QED  BY <1>7, <2>3, <2>4 DEF CancelRemove
<1>8. ASSUME NEW r \in Reqs, CancelUpdate(r) PROVE RunOK' /\ ReqOK' /\ EntryOK' /\ EnqueueOK'
  <2>1. RunOK'
    BY <1>8, <1>runok, <1>run, <1>row, <1>entryok, <1>req, <1>reqok, <1>r DEF RunOK,
        CancelUpdate, ReqTo, workerVars
  <2>2. ReqOK'
    BY <1>8, <1>reqok, <1>req, <1>row, <1>r DEF ReqOK, CancelUpdate, ReqTo, workerVars
  <2>3. EntryOK'
    BY <1>8, <1>entryok, <1>entry, <1>run, <1>row, <1>runok, <1>req, <1>reqok, <1>r DEF EntryOK,
        CancelUpdate, ReqTo, workerVars
  <2>4. EnqueueOK'
    BY <1>8, <1>enqueueok, <1>entry, <1>req, <1>row, <1>reqok, <1>r DEF EnqueueOK, CancelUpdate,
        ReqTo, workerVars, ReqOK
  <2>5. QED  BY <2>1, <2>2, <2>3, <2>4
<1>9. ASSUME NEW r \in Reqs, CancelPublish(r) PROVE RunOK' /\ ReqOK' /\ EntryOK' /\ EnqueueOK'
  <2>1. RunOK'
    BY <1>9, <1>runok DEF RunOK, CancelPublish, ReqDone, workerVars
  <2>2. ReqOK'
    BY <1>9, <1>reqok, <1>req, <1>row, <1>r DEF ReqOK, CancelPublish, ReqDone, workerVars, IdleReq
  <2>3. EntryOK'
    BY <1>9, <1>entryok DEF EntryOK, CancelPublish, ReqDone, workerVars
  <2>4. EnqueueOK'
    BY <1>9, <1>enqueueok, <1>entry, <1>req, <1>row, <1>reqok, <1>r DEF EnqueueOK, CancelPublish,
        ReqDone, workerVars, IdleReq, ReqOK
  <2>5. QED  BY <2>1, <2>2, <2>3, <2>4
<1>10. ASSUME NEW r \in Reqs, NEW j \in Jobs, DeleteRead(r, j) PROVE RunOK' /\ ReqOK' /\ EntryOK'
     /\ EnqueueOK'
  <2>1. RunOK'
    BY <1>10, <1>runok DEF RunOK, DeleteRead, MayDelete, workerVars
  <2>2. ReqOK'
    BY <1>10, <1>reqok, <1>req, <1>row, <1>r DEF ReqOK, DeleteRead, MayDelete, workerVars,
        IdleReq, Live, Terminal
  <2>3. EntryOK'
    BY <1>10, <1>entryok DEF EntryOK, DeleteRead, MayDelete, workerVars
  <2>4. EnqueueOK'
    BY <1>10, <1>enqueueok, <1>entry, <1>req, <1>row, <1>reqok, <1>r DEF EnqueueOK, DeleteRead,
        MayDelete, workerVars, IdleReq, Live, Terminal, ReqOK
  <2>5. QED  BY <2>1, <2>2, <2>3, <2>4
<1>11. ASSUME NEW r \in Reqs, DeleteList(r) PROVE RunOK' /\ ReqOK' /\ EntryOK' /\ EnqueueOK'
  <2>1. RunOK'
    BY <1>11, <1>runok DEF RunOK, DeleteList, workerVars
  <2>2. ReqOK'
    BY <1>11, <1>reqok, <1>req, <1>row, <1>r DEF ReqOK, DeleteList, workerVars
  <2>3. EntryOK'
    BY <1>11, <1>entryok DEF EntryOK, DeleteList, workerVars
  <2>4. EnqueueOK'
    BY <1>11, <1>enqueueok, <1>entry, <1>req, <1>row, <1>reqok, <1>r DEF EnqueueOK, DeleteList,
        workerVars, ReqOK
  <2>5. QED  BY <2>1, <2>2, <2>3, <2>4
<1>12. ASSUME NEW r \in Reqs, DeleteObjects(r) PROVE RunOK' /\ ReqOK' /\ EntryOK' /\ EnqueueOK'
  <2>1. RunOK'
    BY <1>12, <1>runok DEF RunOK, DeleteObjects, ReqTo, Purged, workerVars
  <2>2. ReqOK'
    BY <1>12, <1>reqok, <1>req, <1>row, <1>r DEF ReqOK, DeleteObjects, ReqTo, Purged, workerVars
  <2>3. EntryOK'
    BY <1>12, <1>entryok DEF EntryOK, DeleteObjects, ReqTo, Purged, workerVars
  <2>4. EnqueueOK'
    BY <1>12, <1>enqueueok, <1>entry, <1>req, <1>row, <1>reqok, <1>r DEF EnqueueOK,
        DeleteObjects, ReqTo, Purged, workerVars, ReqOK
  <2>5. QED  BY <2>1, <2>2, <2>3, <2>4
<1>13. ASSUME NEW r \in Reqs, DeleteRow(r) PROVE RunOK' /\ ReqOK' /\ EntryOK' /\ EnqueueOK'
  <2>1. RunOK'
    BY <1>13, <1>runok, <1>run, <1>row, <1>entryok, <1>req, <1>reqok, <1>r DEF RunOK, DeleteRow,
        ReqDone, workerVars, IdleReq
  <2>2. ReqOK'
    BY <1>13, <1>reqok, <1>req, <1>row, <1>r DEF ReqOK, DeleteRow, ReqDone, workerVars, IdleReq
  <2>3. EntryOK'
    BY <1>13, <1>entryok, <1>entry, <1>run, <1>row, <1>runok, <1>req, <1>reqok, <1>r DEF EntryOK,
        DeleteRow, ReqDone, workerVars, IdleReq
  <2>4. EnqueueOK'
    BY <1>13, <1>enqueueok, <1>entry, <1>req, <1>row, <1>reqok, <1>r DEF EnqueueOK, DeleteRow,
        ReqDone, workerVars, IdleReq, ReqOK
  <2>5. QED  BY <2>1, <2>2, <2>3, <2>4
<1>14. ASSUME NEW r \in Reqs, RowGone(r) PROVE RunOK' /\ ReqOK' /\ EntryOK' /\ EnqueueOK'
  <2>1. RunOK'
    BY <1>14, <1>runok DEF RunOK, RowGone, workerVars
  <2>2. ReqOK'
    BY <1>14, <1>reqok, <1>req, <1>row, <1>r DEF ReqOK, RowGone, workerVars, IdleReq
  <2>3. EntryOK'
    BY <1>14, <1>entryok DEF EntryOK, RowGone, workerVars
  <2>4. EnqueueOK'
    BY <1>14, <1>enqueueok, <1>entry, <1>req, <1>row, <1>reqok, <1>r DEF EnqueueOK, RowGone,
        workerVars, IdleReq, ReqOK
  <2>5. QED  BY <2>1, <2>2, <2>3, <2>4
<1>15. ASSUME ApiCrash PROVE RunOK' /\ ReqOK' /\ EntryOK' /\ EnqueueOK'
  <2>1. RunOK'
    BY <1>15, <1>runok DEF RunOK, ApiCrash, workerVars
  <2>2. ReqOK'
    BY <1>15, <1>reqok, <1>req, <1>row DEF ReqOK, ApiCrash, workerVars, IdleReq
  <2>3. EntryOK'
    BY <1>15, <1>entryok DEF EntryOK, ApiCrash, workerVars
  <2>4. EnqueueOK'
    BY <1>15, <1>enqueueok, <1>entry, <1>req, <1>row, <1>reqok DEF EnqueueOK, ApiCrash,
        workerVars, IdleReq, ReqOK
  <2>5. QED  BY <2>1, <2>2, <2>3, <2>4
<1>16. ASSUME NEW s \in Slots, NEW j \in Jobs, Claim(s, j) PROVE RunOK' /\ ReqOK' /\ EntryOK' /\
     EnqueueOK'
  <2>1. RunOK'
    <3>1. run' = [run EXCEPT ![s] = run'[s]] /\ run'[s].job = j /\ run'[s].attempt = entry[j].made + 1
            /\ run'[s].pc \in {"start", "fail"}
      BY <1>16, <1>run DEF Claim, TakeJob, IdleRun
    <3>2. row[j].state # "none" /\ row' = row /\ entry[j].made \in Nat
      BY <1>16, <1>entryok, <1>entry, Constants DEF EntryOK, Claim, TakeJob, Entry
    <3>3. QED  BY <3>1, <3>2, <1>runok, <1>run DEF RunOK
  <2>2. ReqOK'
    BY <1>16, <1>reqok DEF ReqOK, Claim, TakeJob
  <2>3. EntryOK'
    BY <1>16, <1>entryok, <1>entry, <1>run, <1>row, <1>runok, <1>j DEF EntryOK, Claim, TakeJob,
        IdleRun
  <2>4. EnqueueOK'
    BY <1>16, <1>enqueueok, <1>entry, <1>req, <1>row, <1>j, <1>reqok, <1>runok DEF EnqueueOK,
        Claim, TakeJob, IdleRun, ReqOK, RunOK, Holds
  <2>5. QED  BY <2>1, <2>2, <2>3, <2>4
<1>17. ASSUME NEW s \in Slots, NEW j \in Jobs, ClaimStalled(s, j) PROVE RunOK' /\ ReqOK' /\
     EntryOK' /\ EnqueueOK'
  <2>1. RunOK'
    <3>1. run' = [run EXCEPT ![s] = run'[s]] /\ run'[s].job = j /\ run'[s].attempt = entry[j].made + 1
            /\ run'[s].pc \in {"start", "fail"}
      BY <1>17, <1>run DEF ClaimStalled, TakeJob, IdleRun
    <3>2. row[j].state # "none" /\ row' = row /\ entry[j].made \in Nat
      BY <1>17, <1>entryok, <1>entry, Constants DEF EntryOK, ClaimStalled, TakeJob, Entry
    <3>3. QED  BY <3>1, <3>2, <1>runok, <1>run DEF RunOK
  <2>2. ReqOK'
    BY <1>17, <1>reqok DEF ReqOK, ClaimStalled, TakeJob
  <2>3. EntryOK'
    BY <1>17, <1>entryok, <1>entry, <1>run, <1>row, <1>runok, <1>j DEF EntryOK, ClaimStalled,
        TakeJob, IdleRun
  <2>4. EnqueueOK'
    BY <1>17, <1>enqueueok, <1>entry, <1>req, <1>row, <1>j, <1>reqok, <1>runok DEF EnqueueOK,
        ClaimStalled, TakeJob, IdleRun, ReqOK, RunOK, Holds
  <2>5. QED  BY <2>1, <2>2, <2>3, <2>4
<1>18. ASSUME NEW j \in Jobs, Promote(j) PROVE RunOK' /\ ReqOK' /\ EntryOK' /\ EnqueueOK'
  <2>1. RunOK'
    BY <1>18, <1>runok DEF RunOK, Promote, workerVars
  <2>2. ReqOK'
    BY <1>18, <1>reqok DEF ReqOK, Promote, workerVars
  <2>3. EntryOK'
    BY <1>18, <1>entryok, <1>entry, <1>run, <1>row, <1>runok DEF EntryOK, Promote, workerVars
  <2>4. EnqueueOK'
    BY <1>18, <1>enqueueok, <1>entry, <1>req, <1>row, <1>reqok DEF EnqueueOK, Promote,
        workerVars, ReqOK
  <2>5. QED  BY <2>1, <2>2, <2>3, <2>4
<1>19. ASSUME NEW j \in Jobs, Stalled(j) PROVE RunOK' /\ ReqOK' /\ EntryOK' /\ EnqueueOK'
  <2>1. RunOK'
    BY <1>19, <1>runok DEF RunOK, Stalled, Requeue, workerVars
  <2>2. ReqOK'
    BY <1>19, <1>reqok DEF ReqOK, Stalled, Requeue, workerVars
  <2>3. EntryOK'
    BY <1>19, <1>entryok, <1>entry, <1>run, <1>row, <1>runok DEF EntryOK, Stalled, Requeue,
        workerVars
  <2>4. EnqueueOK'
    BY <1>19, <1>enqueueok, <1>entry, <1>req, <1>row, <1>reqok DEF EnqueueOK, Stalled, Requeue,
        workerVars, ReqOK
  <2>5. QED  BY <2>1, <2>2, <2>3, <2>4
<1>20. ASSUME NEW j \in Jobs, LockLost(j) PROVE RunOK' /\ ReqOK' /\ EntryOK' /\ EnqueueOK'
  <2>1. RunOK'
    BY <1>20, <1>runok DEF RunOK, LockLost, Requeue, workerVars
  <2>2. ReqOK'
    BY <1>20, <1>reqok DEF ReqOK, LockLost, Requeue, workerVars
  <2>3. EntryOK'
    BY <1>20, <1>entryok, <1>entry, <1>run, <1>row, <1>runok DEF EntryOK, LockLost, Requeue,
        workerVars
  <2>4. EnqueueOK'
    BY <1>20, <1>enqueueok, <1>entry, <1>req, <1>row, <1>reqok DEF EnqueueOK, LockLost, Requeue,
        workerVars, ReqOK
  <2>5. QED  BY <2>1, <2>2, <2>3, <2>4
<1>21. ASSUME NEW s \in Slots, Start(s) PROVE RunOK' /\ ReqOK' /\ EntryOK' /\ EnqueueOK'
  <2>1. RunOK'
    BY <1>21, <1>runok, <1>run, <1>row, <1>entryok, <1>j DEF RunOK, Start, RunTo
  <2>2. ReqOK'
    BY <1>21, <1>reqok, <1>req, <1>row, <1>j DEF ReqOK, Start, RunTo
  <2>3. EntryOK'
    BY <1>21, <1>entryok, <1>entry, <1>run, <1>row, <1>runok, <1>j DEF EntryOK, Start, RunTo
  <2>4. EnqueueOK'
    BY <1>21, <1>enqueueok, <1>entry, <1>req, <1>row, <1>j, <1>reqok, <1>runok DEF EnqueueOK,
        Start, RunTo, ReqOK, RunOK, Holds
  <2>5. QED  BY <2>1, <2>2, <2>3, <2>4
<1>22. ASSUME NEW s \in Slots, StartRefused(s) PROVE RunOK' /\ ReqOK' /\ EntryOK' /\ EnqueueOK'
  <2>1. RunOK'
    BY <1>22, <1>runok, <1>run, <1>row, <1>entryok, <1>j DEF RunOK, StartRefused
  <2>2. ReqOK'
    BY <1>22, <1>reqok DEF ReqOK, StartRefused
  <2>3. EntryOK'
    BY <1>22, <1>entryok, <1>entry, <1>run, <1>row, <1>runok, <1>j DEF EntryOK, StartRefused
  <2>4. EnqueueOK'
    BY <1>22, <1>enqueueok DEF EnqueueOK, StartRefused
  <2>5. QED  BY <2>1, <2>2, <2>3, <2>4
<1>23. ASSUME NEW s \in Slots, SetToken(s) PROVE RunOK' /\ ReqOK' /\ EntryOK' /\ EnqueueOK'
  <2>1. RunOK'
    BY <1>23, <1>runok, <1>run, <1>row, <1>entryok, <1>j DEF RunOK, SetToken, RunTo, Publish
  <2>2. ReqOK'
    BY <1>23, <1>reqok DEF ReqOK, SetToken, RunTo, Publish
  <2>3. EntryOK'
    BY <1>23, <1>entryok, <1>entry, <1>run, <1>row, <1>runok, <1>j DEF EntryOK, SetToken, RunTo,
        Publish
  <2>4. EnqueueOK'
    BY <1>23, <1>enqueueok DEF EnqueueOK, SetToken, RunTo, Publish
  <2>5. QED  BY <2>1, <2>2, <2>3, <2>4
<1>24. ASSUME NEW s \in Slots, Download(s) PROVE RunOK' /\ ReqOK' /\ EntryOK' /\ EnqueueOK'
  <2>1. RunOK'
    BY <1>24, <1>runok, <1>run, <1>row, <1>entryok, <1>j, Constants DEF RunOK, Download, StagesOf
  <2>2. ReqOK'
    BY <1>24, <1>reqok DEF ReqOK, Download
  <2>3. EntryOK'
    BY <1>24, <1>entryok, <1>entry, <1>run, <1>row, <1>runok, <1>j, Constants DEF EntryOK,
        Download, StagesOf
  <2>4. EnqueueOK'
    BY <1>24, <1>enqueueok DEF EnqueueOK, Download
  <2>5. QED  BY <2>1, <2>2, <2>3, <2>4
<1>25. ASSUME NEW s \in Slots, BeginStage(s) PROVE RunOK' /\ ReqOK' /\ EntryOK' /\ EnqueueOK'
  <2>1. RunOK'
    BY <1>25, <1>runok, <1>run, <1>row, <1>entryok, <1>j DEF RunOK, BeginStage, RunTo
  <2>2. ReqOK'
    BY <1>25, <1>reqok DEF ReqOK, BeginStage, RunTo
  <2>3. EntryOK'
    BY <1>25, <1>entryok, <1>entry, <1>run, <1>row, <1>runok, <1>j DEF EntryOK, BeginStage, RunTo
  <2>4. EnqueueOK'
    BY <1>25, <1>enqueueok DEF EnqueueOK, BeginStage, RunTo
  <2>5. QED  BY <2>1, <2>2, <2>3, <2>4
<1>26. ASSUME NEW s \in Slots, AbortStage(s) PROVE RunOK' /\ ReqOK' /\ EntryOK' /\ EnqueueOK'
  <2>1. RunOK'
    BY <1>26, <1>runok, <1>run, <1>row, <1>entryok, <1>j DEF RunOK, AbortStage, Throw
  <2>2. ReqOK'
    BY <1>26, <1>reqok DEF ReqOK, AbortStage, Throw
  <2>3. EntryOK'
    BY <1>26, <1>entryok, <1>entry, <1>run, <1>row, <1>runok, <1>j DEF EntryOK, AbortStage, Throw
  <2>4. EnqueueOK'
    BY <1>26, <1>enqueueok DEF EnqueueOK, AbortStage, Throw
  <2>5. QED  BY <2>1, <2>2, <2>3, <2>4
<1>27. ASSUME NEW s \in Slots, TranscodeError(s) PROVE RunOK' /\ ReqOK' /\ EntryOK' /\ EnqueueOK'
  <2>1. RunOK'
    BY <1>27, <1>runok, <1>run, <1>row, <1>entryok, <1>j DEF RunOK, TranscodeError, Throw
  <2>2. ReqOK'
    BY <1>27, <1>reqok DEF ReqOK, TranscodeError, Throw
  <2>3. EntryOK'
    BY <1>27, <1>entryok, <1>entry, <1>run, <1>row, <1>runok, <1>j DEF EntryOK, TranscodeError,
        Throw
  <2>4. EnqueueOK'
    BY <1>27, <1>enqueueok DEF EnqueueOK, TranscodeError, Throw
  <2>5. QED  BY <2>1, <2>2, <2>3, <2>4
<1>28. ASSUME NEW s \in Slots, EndStage(s) PROVE RunOK' /\ ReqOK' /\ EntryOK' /\ EnqueueOK'
  <2>1. RunOK'
    BY <1>28, <1>runok, <1>run, <1>row, <1>entryok, <1>j DEF RunOK, EndStage, Run
  <2>2. ReqOK'
    BY <1>28, <1>reqok DEF ReqOK, EndStage
  <2>3. EntryOK'
    BY <1>28, <1>entryok, <1>entry, <1>run, <1>row, <1>runok, <1>j DEF EntryOK, EndStage, Run
  <2>4. EnqueueOK'
    BY <1>28, <1>enqueueok DEF EnqueueOK, EndStage
  <2>5. QED  BY <2>1, <2>2, <2>3, <2>4
<1>29. ASSUME NEW s \in Slots, EndLastStage(s) PROVE RunOK' /\ ReqOK' /\ EntryOK' /\ EnqueueOK'
  <2>1. RunOK'
    BY <1>29, <1>runok, <1>run, <1>row, <1>entryok, <1>j DEF RunOK, EndLastStage
  <2>2. ReqOK'
    BY <1>29, <1>reqok DEF ReqOK, EndLastStage
  <2>3. EntryOK'
    BY <1>29, <1>entryok, <1>entry, <1>run, <1>row, <1>runok, <1>j DEF EntryOK, EndLastStage
  <2>4. EnqueueOK'
    BY <1>29, <1>enqueueok DEF EnqueueOK, EndLastStage
  <2>5. QED  BY <2>1, <2>2, <2>3, <2>4
<1>30. ASSUME NEW s \in Slots, NEW f \in Objects, UploadFile(s, f) PROVE RunOK' /\ ReqOK' /\
     EntryOK' /\ EnqueueOK'
  <2>1. RunOK'
    BY <1>30, <1>runok, <1>run, <1>row, <1>entryok, <1>j DEF RunOK, UploadFile
  <2>2. ReqOK'
    BY <1>30, <1>reqok DEF ReqOK, UploadFile
  <2>3. EntryOK'
    BY <1>30, <1>entryok, <1>entry, <1>run, <1>row, <1>runok, <1>j DEF EntryOK, UploadFile
  <2>4. EnqueueOK'
    BY <1>30, <1>enqueueok DEF EnqueueOK, UploadFile
  <2>5. QED  BY <2>1, <2>2, <2>3, <2>4
<1>31. ASSUME NEW s \in Slots, UploadDone(s) PROVE RunOK' /\ ReqOK' /\ EntryOK' /\ EnqueueOK'
  <2>1. RunOK'
    BY <1>31, <1>runok, <1>run, <1>row, <1>entryok, <1>j DEF RunOK, UploadDone, RunTo
  <2>2. ReqOK'
    BY <1>31, <1>reqok DEF ReqOK, UploadDone, RunTo
  <2>3. EntryOK'
    BY <1>31, <1>entryok, <1>entry, <1>run, <1>row, <1>runok, <1>j DEF EntryOK, UploadDone, RunTo
  <2>4. EnqueueOK'
    BY <1>31, <1>enqueueok DEF EnqueueOK, UploadDone, RunTo
  <2>5. QED  BY <2>1, <2>2, <2>3, <2>4
<1>32. ASSUME NEW s \in Slots, Complete(s) PROVE RunOK' /\ ReqOK' /\ EntryOK' /\ EnqueueOK'
  <2>1. RunOK'
    BY <1>32, <1>runok, <1>run, <1>row, <1>entryok, <1>j DEF RunOK, Complete, RunTo
  <2>2. ReqOK'
    BY <1>32, <1>reqok, <1>req, <1>row, <1>j DEF ReqOK, Complete, RunTo
  <2>3. EntryOK'
    BY <1>32, <1>entryok, <1>entry, <1>run, <1>row, <1>runok, <1>j DEF EntryOK, Complete, RunTo
  <2>4. EnqueueOK'
    BY <1>32, <1>enqueueok, <1>entry, <1>req, <1>row, <1>j, <1>reqok, <1>runok DEF EnqueueOK,
        Complete, RunTo, ReqOK, RunOK, Holds
  <2>5. QED  BY <2>1, <2>2, <2>3, <2>4
<1>33. ASSUME NEW s \in Slots, CompleteRefused(s) PROVE RunOK' /\ ReqOK' /\ EntryOK' /\ EnqueueOK'
  <2>1. RunOK'
    BY <1>33, <1>runok, <1>run, <1>row, <1>entryok, <1>j DEF RunOK, CompleteRefused, RunTo
  <2>2. ReqOK'
    BY <1>33, <1>reqok DEF ReqOK, CompleteRefused, RunTo
  <2>3. EntryOK'
    BY <1>33, <1>entryok, <1>entry, <1>run, <1>row, <1>runok, <1>j DEF EntryOK, CompleteRefused,
        RunTo
  <2>4. EnqueueOK'
    BY <1>33, <1>enqueueok DEF EnqueueOK, CompleteRefused, RunTo
  <2>5. QED  BY <2>1, <2>2, <2>3, <2>4
<1>34. ASSUME NEW s \in Slots, Announce(s) PROVE RunOK' /\ ReqOK' /\ EntryOK' /\ EnqueueOK'
  <2>1. RunOK'
    BY <1>34, <1>runok, <1>run, <1>row, <1>entryok, <1>j DEF RunOK, Announce, RunTo, Publish
  <2>2. ReqOK'
    BY <1>34, <1>reqok DEF ReqOK, Announce, RunTo, Publish
  <2>3. EntryOK'
    BY <1>34, <1>entryok, <1>entry, <1>run, <1>row, <1>runok, <1>j DEF EntryOK, Announce, RunTo,
        Publish
  <2>4. EnqueueOK'
    BY <1>34, <1>enqueueok DEF EnqueueOK, Announce, RunTo, Publish
  <2>5. QED  BY <2>1, <2>2, <2>3, <2>4
<1>35. ASSUME NEW s \in Slots, MarkReady(s) PROVE RunOK' /\ ReqOK' /\ EntryOK' /\ EnqueueOK'
  <2>1. RunOK'
    BY <1>35, <1>runok, <1>run, <1>row, <1>entryok, <1>j DEF RunOK, MarkReady, RunTo
  <2>2. ReqOK'
    BY <1>35, <1>reqok DEF ReqOK, MarkReady, RunTo
  <2>3. EntryOK'
    BY <1>35, <1>entryok, <1>entry, <1>run, <1>row, <1>runok, <1>j DEF EntryOK, MarkReady, RunTo
  <2>4. EnqueueOK'
    BY <1>35, <1>enqueueok DEF EnqueueOK, MarkReady, RunTo
  <2>5. QED  BY <2>1, <2>2, <2>3, <2>4
<1>36. ASSUME NEW s \in Slots, DbError(s) PROVE RunOK' /\ ReqOK' /\ EntryOK' /\ EnqueueOK'
  <2>1. RunOK'
    BY <1>36, <1>runok, <1>run, <1>row, <1>entryok, <1>j DEF RunOK, DbError
  <2>2. ReqOK'
    BY <1>36, <1>reqok DEF ReqOK, DbError
  <2>3. EntryOK'
    BY <1>36, <1>entryok, <1>entry, <1>run, <1>row, <1>runok, <1>j DEF EntryOK, DbError
  <2>4. EnqueueOK'
    BY <1>36, <1>enqueueok DEF EnqueueOK, DbError
  <2>5. QED  BY <2>1, <2>2, <2>3, <2>4
<1>37. ASSUME NEW s \in Slots, Finish(s) PROVE RunOK' /\ ReqOK' /\ EntryOK' /\ EnqueueOK'
  <2>1. RunOK'
    BY <1>37, <1>runok, <1>run, <1>row, <1>entryok, <1>j DEF RunOK, Finish, IdleRun
  <2>2. ReqOK'
    BY <1>37, <1>reqok DEF ReqOK, Finish
  <2>3. EntryOK'
    <3>1. \A t \in Slots : run'[t] = run[t] \/ run'[t].pc = "idle"
      BY <1>37, <1>run DEF Finish, IdleRun
    <3>2. \A i \in Jobs : entry'[i] = entry[i] \/ entry'[i].st = "completed"
      BY <1>37, <1>entry DEF Finish, Entry
    <3>3. row' = row /\ run[s].job \in Jobs /\ row[run[s].job].state # "none"
      BY <1>37, <1>runok DEF Finish, RunOK
    <3>4. \A i \in Jobs : i # run[s].job => entry'[i] = entry[i]
      BY <1>37, <1>entry DEF Finish
    <3>5. QED  BY <3>1, <3>2, <3>3, <3>4, <1>entryok DEF EntryOK
  <2>4. EnqueueOK'
    BY <1>37, <1>enqueueok, <1>entry, <1>req, <1>row, <1>j, <1>reqok, <1>runok DEF EnqueueOK,
        Finish, IdleRun, ReqOK, RunOK, Holds
  <2>5. QED  BY <2>1, <2>2, <2>3, <2>4
<1>38. ASSUME NEW s \in Slots, LateReport(s) PROVE RunOK' /\ ReqOK' /\ EntryOK' /\ EnqueueOK'
  <2>1. RunOK'
    BY <1>38, <1>runok, <1>run, <1>row, <1>entryok, <1>j DEF RunOK, LateReport, IdleRun
  <2>2. ReqOK'
    BY <1>38, <1>reqok DEF ReqOK, LateReport
  <2>3. EntryOK'
    BY <1>38, <1>entryok, <1>entry, <1>run, <1>row, <1>runok, <1>j DEF EntryOK, LateReport, IdleRun
  <2>4. EnqueueOK'
    BY <1>38, <1>enqueueok DEF EnqueueOK, LateReport
  <2>5. QED  BY <2>1, <2>2, <2>3, <2>4
<1>39. ASSUME NEW s \in Slots, FailAttempt(s) PROVE RunOK' /\ ReqOK' /\ EntryOK' /\ EnqueueOK'
  <2>1. RunOK'
    BY <1>39, <1>runok, <1>run, <1>row, <1>entryok, <1>j DEF RunOK, FailAttempt, Publish, IdleRun
  <2>2. ReqOK'
    BY <1>39, <1>reqok DEF ReqOK, FailAttempt, Publish
  <2>3. EntryOK'
    BY <1>39, <1>entryok, <1>entry, <1>run, <1>row, <1>runok, <1>j, Constants DEF EntryOK,
        FailAttempt, Publish, IdleRun, Holds, AfterFail, Retries
  <2>4. EnqueueOK'
    BY <1>39, <1>enqueueok, <1>entry, <1>req, <1>row, <1>j, <1>reqok, <1>runok DEF EnqueueOK,
        FailAttempt, Publish, IdleRun, ReqOK, RunOK, Holds
  <2>5. QED  BY <2>1, <2>2, <2>3, <2>4
<1>40. ASSUME NEW j \in Jobs, FailWrite(j) PROVE RunOK' /\ ReqOK' /\ EntryOK' /\ EnqueueOK'
  <2>1. RunOK'
    BY <1>40, <1>runok, <1>run, <1>row, <1>entryok DEF RunOK, FailWrite, Publish
  <2>2. ReqOK'
    BY <1>40, <1>reqok, <1>req, <1>row DEF ReqOK, FailWrite, Publish
  <2>3. EntryOK'
    BY <1>40, <1>entryok, <1>entry, <1>run, <1>row, <1>runok DEF EntryOK, FailWrite, Publish
  <2>4. EnqueueOK'
    BY <1>40, <1>enqueueok, <1>entry, <1>req, <1>row, <1>reqok DEF EnqueueOK, FailWrite, Publish,
        ReqOK
  <2>5. QED  BY <2>1, <2>2, <2>3, <2>4
<1>41. ASSUME NEW j \in Jobs, FailWriteGone(j) PROVE RunOK' /\ ReqOK' /\ EntryOK' /\ EnqueueOK'
  <2>1. RunOK'
    BY <1>41, <1>runok, <1>run, <1>row, <1>entryok DEF RunOK, FailWriteGone, ProcDown, IdleRun
  <2>2. ReqOK'
    BY <1>41, <1>reqok DEF ReqOK, FailWriteGone, ProcDown
  <2>3. EntryOK'
    BY <1>41, <1>entryok, <1>entry, <1>run, <1>row, <1>runok DEF EntryOK, FailWriteGone,
        ProcDown, IdleRun
  <2>4. EnqueueOK'
    BY <1>41, <1>enqueueok DEF EnqueueOK, FailWriteGone, ProcDown
  <2>5. QED  BY <2>1, <2>2, <2>3, <2>4
<1>42. ASSUME NEW s \in Slots, ProgressOnDeletedRow(s) PROVE RunOK' /\ ReqOK' /\ EntryOK' /\
     EnqueueOK'
  <2>1. RunOK'
    BY <1>42, <1>runok, <1>run, <1>row, <1>entryok, <1>j DEF RunOK, ProgressOnDeletedRow,
        ProcDown, IdleRun
  <2>2. ReqOK'
    BY <1>42, <1>reqok DEF ReqOK, ProgressOnDeletedRow, ProcDown
  <2>3. EntryOK'
    BY <1>42, <1>entryok, <1>entry, <1>run, <1>row, <1>runok, <1>j DEF EntryOK,
        ProgressOnDeletedRow, ProcDown, IdleRun
  <2>4. EnqueueOK'
    BY <1>42, <1>enqueueok DEF EnqueueOK, ProgressOnDeletedRow, ProcDown
  <2>5. QED  BY <2>1, <2>2, <2>3, <2>4
<1>43. ASSUME NEW p \in Procs, ProcCrash(p) PROVE RunOK' /\ ReqOK' /\ EntryOK' /\ EnqueueOK'
  <2>1. RunOK'
    BY <1>43, <1>runok, <1>run, <1>row, <1>entryok DEF RunOK, ProcCrash, ProcDown, IdleRun
  <2>2. ReqOK'
    BY <1>43, <1>reqok DEF ReqOK, ProcCrash, ProcDown
  <2>3. EntryOK'
    BY <1>43, <1>entryok, <1>entry, <1>run, <1>row, <1>runok DEF EntryOK, ProcCrash, ProcDown,
        IdleRun
  <2>4. EnqueueOK'
    BY <1>43, <1>enqueueok DEF EnqueueOK, ProcCrash, ProcDown
  <2>5. QED  BY <2>1, <2>2, <2>3, <2>4
<1>44. ASSUME NEW p \in Procs, NEW j \in Jobs, ReceiveCancel(p, j) PROVE RunOK' /\ ReqOK' /\
     EntryOK' /\ EnqueueOK'
  <2>1. RunOK'
    BY <1>44, <1>runok, <1>run, <1>row, <1>entryok DEF RunOK, ReceiveCancel
  <2>2. ReqOK'
    BY <1>44, <1>reqok DEF ReqOK, ReceiveCancel
  <2>3. EntryOK'
    BY <1>44, <1>entryok, <1>entry, <1>run, <1>row, <1>runok DEF EntryOK, ReceiveCancel
  <2>4. EnqueueOK'
    BY <1>44, <1>enqueueok DEF EnqueueOK, ReceiveCancel
  <2>5. QED  BY <2>1, <2>2, <2>3, <2>4
<1>45. CASE UNCHANGED vars
  BY <1>45 DEF vars, WellFormed, RunOK, ReqOK, EntryOK, EnqueueOK
<1>46. QED
  BY <1>1, <1>2, <1>3, <1>4, <1>5, <1>6, <1>7, <1>8, <1>9, <1>10, <1>11, <1>12, <1>13, <1>14,
      <1>15, <1>16, <1>17, <1>18, <1>19, <1>20, <1>21, <1>22, <1>23, <1>24, <1>25, <1>26, <1>27,
      <1>28, <1>29, <1>30, <1>31, <1>32, <1>33, <1>34, <1>35, <1>36, <1>37, <1>38, <1>39, <1>40,
      <1>41, <1>42, <1>43, <1>44, <1>45 DEF Next, NewRequest, RequestStep, RunStep

-----------------------------------------------------------------------------
\* Each step of the pipeline keeps the whole invariant.
LEMMA WellFormedStep == WellFormed /\ [Next]_vars => WellFormed'
BY TypeStep, ProgressStep DEF WellFormed

\* Runs, calls, queue entries and rows never refer to a job, a slot or an
\* attempt that does not exist (worker.ts, service.ts, the queue package).
THEOREM PipelineWellFormed == Spec => []WellFormed
<1>1. Init => WellFormed
  BY WellFormedInit
<1>2. WellFormed /\ [Next]_vars => WellFormed'
  BY WellFormedStep
<1>3. QED  BY <1>1, <1>2, PTL DEF Spec

\* Every record of the pipeline keeps its type, whatever is redelivered,
\* cancelled, retried or lost: in particular no attempt above MaxAttempts is
\* ever started and a stall is counted at most once above the limit.
THEOREM PipelineTypeCorrect == Spec => []TypeOK
<1>1. WellFormed => TypeOK
  BY DEF WellFormed
<1>2. QED  BY <1>1, PipelineWellFormed, PTL

=============================================================================
