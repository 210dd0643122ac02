---------------------- MODULE TranscodePipelineProofs ----------------------
(***************************************************************************)
(* The safety properties of TranscodePipeline, proved for every number of  *)
(* jobs, workers and calls, every retry limit and any number of faults,    *)
(* and the proof that it implements JobLifecycle.  Each property has its   *)
(* own inductive part, all of them on top of WellFormed.                   *)
(***************************************************************************)
EXTENDS TranscodePipelineTypes

-----------------------------------------------------------------------------
(* FAILED only after the last attempt *)

\* Also while the failed handler is still about to write the state.
FailureOK ==
    \A j \in Jobs : row[j].state = "FAILED" \/ failWrite[j] # None =>
        entry[j].made = MaxAttempts /\ entry[j].st \in {"failed", "absent"}

\* FailAttempt starts the write only for the last attempt; nothing queues the
\* job again.
LEMMA FailureStep ==
    ASSUME WellFormed, FailureOK, [Next]_vars PROVE FailureOK'
<1>inv. FailureOK
  OBVIOUS
<1>row. row \in [Jobs -> Row]
  BY DEF WellFormed, TypeOK
<1>entry. entry \in [Jobs -> Entry]
  BY DEF WellFormed, TypeOK
<1>failWrite. failWrite \in [Jobs -> Procs \cup {None}]
  BY DEF WellFormed, TypeOK
<1>j. \A s \in Slots : run[s].pc # "idle" => run[s].job \in Jobs /\ run[s].attempt \in 1..MaxAttempts
  BY RunTypes
<1>r. \A r \in Reqs : req[r].pc \notin {"idle", "create"} => req[r].job \in Jobs
  BY ReqTypes
<1>1. ASSUME NEW r \in Reqs, NEW j \in Jobs, SubmitCreate(r, j) PROVE FailureOK'
  BY <1>1, <1>inv, <1>row, <1>entry, <1>failWrite, <1>r DEF FailureOK, SubmitCreate, workerVars
<1>2. ASSUME NEW r \in Reqs, SubmitEnqueue(r) PROVE FailureOK'
  <2>1. entry[req[r].job].made = 0 /\ req[r].job \in Jobs
    BY <1>2, <1>r DEF SubmitEnqueue, WellFormed, EnqueueOK
  <2>2. row[req[r].job].state # "FAILED" /\ failWrite[req[r].job] = None
    BY <2>1, <1>inv, Constants DEF FailureOK
  <2>3. UNCHANGED <<row, failWrite>> /\ \A j \in Jobs : j # req[r].job => entry'[j] = entry[j]
    BY <1>2, <1>entry DEF SubmitEnqueue, workerVars
  <2>4. QED  BY <2>2, <2>3, <1>inv DEF FailureOK
<1>3. ASSUME NEW r \in Reqs, CancelRemove(r) PROVE FailureOK'
  <2>1. UNCHANGED <<row, failWrite>> /\ req[r].job \in Jobs
    BY <1>3, <1>r DEF CancelRemove, workerVars
  <2>2. CASE entry' = [entry EXCEPT ![req[r].job].st = "absent"]
    BY <2>1, <2>2, <1>inv, <1>entry DEF FailureOK, Entry
  <2>3. CASE UNCHANGED entry
    BY <2>1, <2>3, <1>inv DEF FailureOK
  <2>4. QED  BY <1>3, <2>2, <2>3 DEF CancelRemove
<1>4. ASSUME NEW r \in Reqs, CancelUpdate(r) PROVE FailureOK'
  BY <1>4, <1>inv, <1>row, <1>entry, <1>failWrite, <1>r DEF FailureOK, CancelUpdate, ReqTo,
      workerVars
<1>5. ASSUME NEW r \in Reqs, DeleteRow(r) PROVE FailureOK'
  BY <1>5, <1>inv, <1>row, <1>entry, <1>failWrite, <1>r DEF FailureOK, DeleteRow, ReqDone,
      workerVars
<1>6. ASSUME NEW s \in Slots, NEW j \in Jobs, Claim(s, j) PROVE FailureOK'
  BY <1>6, <1>inv, <1>row, <1>entry, <1>failWrite, <1>j DEF FailureOK, Claim, TakeJob
<1>7. ASSUME NEW s \in Slots, NEW j \in Jobs, ClaimStalled(s, j) PROVE FailureOK'
  BY <1>7, <1>inv, <1>row, <1>entry, <1>failWrite, <1>j DEF FailureOK, ClaimStalled, TakeJob
<1>8. ASSUME NEW j \in Jobs, Promote(j) PROVE FailureOK'
  BY <1>8, <1>inv, <1>row, <1>entry, <1>failWrite DEF FailureOK, Promote, workerVars
<1>9. ASSUME NEW j \in Jobs, Stalled(j) PROVE FailureOK'
  BY <1>9, <1>inv, <1>row, <1>entry, <1>failWrite DEF FailureOK, Stalled, Requeue, workerVars
<1>10. ASSUME NEW j \in Jobs, LockLost(j) PROVE FailureOK'
  BY <1>10, <1>inv, <1>row, <1>entry, <1>failWrite DEF FailureOK, LockLost, Requeue, workerVars
<1>11. ASSUME NEW s \in Slots, Start(s) PROVE FailureOK'
  BY <1>11, <1>inv, <1>row, <1>entry, <1>failWrite, <1>j DEF FailureOK, Start, RunTo
<1>12. ASSUME NEW s \in Slots, Complete(s) PROVE FailureOK'
  BY <1>12, <1>inv, <1>row, <1>entry, <1>failWrite, <1>j DEF FailureOK, Complete, RunTo
<1>13. ASSUME NEW s \in Slots, Finish(s) PROVE FailureOK'
  <2>1. /\ row' = row /\ failWrite' = failWrite /\ entry[run[s].job].st = "active" /\ run[s].job \in Jobs
        /\ \A i \in Jobs : i # run[s].job => entry'[i] = entry[i]
    BY <1>13, <1>j, <1>entry DEF Finish, Holds
  <2>2. QED  BY <2>1, <1>inv DEF FailureOK
<1>14. ASSUME NEW s \in Slots, FailAttempt(s) PROVE FailureOK'
  <2> DEFINE j == run[s].job
  <2>1. /\ j \in Jobs /\ entry[j].st = "active" /\ run[s].attempt \in 1..MaxAttempts
        /\ row' = row /\ \A i \in Jobs : i # j => entry'[i] = entry[i] /\ failWrite'[i] = failWrite[i]
    BY <1>14, <1>j, <1>entry, <1>failWrite DEF FailAttempt, Holds
  <2>2. row[j].state # "FAILED" /\ failWrite[j] = None
    BY <2>1, <1>inv DEF FailureOK
  <2>3. entry'[j].made = run[s].attempt /\ entry'[j].st = AfterFail(s)
    BY <1>14, <2>1, <1>entry DEF FailAttempt, Entry
  <2>4. CASE failWrite'[j] # None
    <3>1. Exhausted(s)
      BY <1>14, <2>2, <2>4 DEF FailAttempt
    <3>2. run[s].attempt = MaxAttempts /\ entry'[j].st = "failed"
      BY <3>1, <2>1, <2>3, Constants DEF Exhausted, AfterFail, Retries
    <3>3. QED  BY <3>2, <2>1, <2>2, <2>3, <1>inv DEF FailureOK
  <2>5. CASE failWrite'[j] = None
    BY <2>5, <2>1, <2>2, <1>inv DEF FailureOK
  <2>6. QED  BY <2>4, <2>5
<1>15. ASSUME NEW j \in Jobs, FailWrite(j) PROVE FailureOK'
  BY <1>15, <1>inv, <1>row, <1>entry, <1>failWrite DEF FailureOK, FailWrite, Publish
<1>16. ASSUME NEW j \in Jobs, FailWriteGone(j) PROVE FailureOK'
  BY <1>16, <1>inv, <1>row, <1>entry, <1>failWrite DEF FailureOK, FailWriteGone, ProcDown
<1>17. ASSUME NEW s \in Slots, ProgressOnDeletedRow(s) PROVE FailureOK'
  BY <1>17, <1>inv, <1>row, <1>entry, <1>failWrite, <1>j DEF FailureOK, ProgressOnDeletedRow,
      ProcDown
<1>18. ASSUME NEW p \in Procs, ProcCrash(p) PROVE FailureOK'
  BY <1>18, <1>inv, <1>row, <1>entry, <1>failWrite DEF FailureOK, ProcCrash, ProcDown
<1>19. CASE UNCHANGED <<row, entry, failWrite>>
  BY <1>19, <1>inv DEF FailureOK
<1>20. QED
  BY <1>1, <1>2, <1>3, <1>4, <1>5, <1>6, <1>7, <1>8, <1>9, <1>10, <1>11, <1>12, <1>13, <1>14,
      <1>15, <1>16, <1>17, <1>18, <1>19
  DEF Next, NewRequest, RequestStep, RunStep, vars, workerVars, SubmitLookup, SubmitAsset,
      SubmitError, CancelRead, CancelPublish, DeleteRead, DeleteList, DeleteObjects, RowGone,
      ApiCrash, StartRefused, SetToken, Download, BeginStage, AbortStage, TranscodeError,
      EndStage, EndLastStage, UploadFile, UploadDone, CompleteRefused, Announce, MarkReady,
      DbError, LateReport, ReceiveCancel, MayDelete, Publish, Purged, ReqDone, ReqTo, RunTo,
      Throw

-----------------------------------------------------------------------------
(* Deletion *)

\* deleteJob goes on only while its row stays out of the live states.
LEMMA DeleteStep ==
    ASSUME WellFormed, DeleteIsSafe, [Next]_vars PROVE DeleteIsSafe'
<1>inv. DeleteIsSafe
  OBVIOUS
<1>row. row \in [Jobs -> Row]
  BY DEF WellFormed, TypeOK
<1>req. req \in [Reqs -> Req]
  BY DEF WellFormed, TypeOK
<1>j. \A s \in Slots : run[s].pc # "idle" => run[s].job \in Jobs /\ run[s].attempt \in 1..MaxAttempts
  BY RunTypes
<1>r. \A r \in Reqs : req[r].pc \notin {"idle", "create"} => req[r].job \in Jobs
  BY ReqTypes
<1>1. ASSUME NEW r \in Reqs, NEW kind \in Profiles, NEW a \in Assets, NEW k \in Keys \cup {None},
     SubmitLookup(r, kind, a, k) PROVE DeleteIsSafe'
  BY <1>1, <1>inv, <1>row, <1>req, <1>r DEF DeleteIsSafe, Live, Terminal, SubmitLookup, IdleReq,
      workerVars
<1>2. ASSUME NEW r \in Reqs, NEW j \in Jobs, SubmitCreate(r, j) PROVE DeleteIsSafe'
  BY <1>2, <1>inv, <1>row, <1>req, <1>r DEF DeleteIsSafe, Live, Terminal, SubmitCreate, IdleReq,
      workerVars
<1>3. ASSUME NEW r \in Reqs, SubmitEnqueue(r) PROVE DeleteIsSafe'
  <2>1. row' = row /\ \A q \in Reqs : q # r => req'[q] = req[q]
    BY <1>3, <1>req DEF SubmitEnqueue, ReqTo, ReqDone
  <2>2. req'[r].pc \in {"asset", "idle"}
    BY <1>3, <1>req DEF SubmitEnqueue, ReqTo, ReqDone, IdleReq, Req
  <2>3. QED  BY <2>1, <2>2, <1>inv DEF DeleteIsSafe
<1>4. ASSUME NEW r \in Reqs, SubmitAsset(r) PROVE DeleteIsSafe'
  BY <1>4, <1>inv, <1>row, <1>req, <1>r DEF DeleteIsSafe, Live, Terminal, SubmitAsset, ReqDone,
      Publish, IdleReq, workerVars
<1>5. ASSUME NEW r \in Reqs, SubmitError(r) PROVE DeleteIsSafe'
  BY <1>5, <1>inv, <1>row, <1>req, <1>r DEF DeleteIsSafe, Live, Terminal, SubmitError, ReqDone,
      IdleReq, workerVars
<1>6. ASSUME NEW r \in Reqs, NEW j \in Jobs, CancelRead(r, j) PROVE DeleteIsSafe'
  BY <1>6, <1>inv, <1>row, <1>req, <1>r DEF DeleteIsSafe, Live, Terminal, CancelRead, IdleReq,
      workerVars
<1>7. ASSUME NEW r \in Reqs, CancelRemove(r) PROVE DeleteIsSafe'
  BY <1>7, <1>inv, <1>row, <1>req, <1>r DEF DeleteIsSafe, Live, Terminal, CancelRemove, ReqTo,
      IdleReq, workerVars
<1>8. ASSUME NEW r \in Reqs, CancelUpdate(r) PROVE DeleteIsSafe'
  BY <1>8, <1>inv, <1>row, <1>req, <1>r DEF DeleteIsSafe, Live, Terminal, CancelUpdate, ReqTo,
      IdleReq, workerVars
<1>9. ASSUME NEW r \in Reqs, CancelPublish(r) PROVE DeleteIsSafe'
  BY <1>9, <1>inv, <1>row, <1>req, <1>r DEF DeleteIsSafe, Live, Terminal, CancelPublish, ReqDone,
      IdleReq, workerVars
<1>10. ASSUME NEW r \in Reqs, NEW j \in Jobs, DeleteRead(r, j) PROVE DeleteIsSafe'
  BY <1>10, <1>inv, <1>row, <1>req, <1>r DEF DeleteIsSafe, Live, Terminal, DeleteRead, MayDelete,
      IdleReq, workerVars
<1>11. ASSUME NEW r \in Reqs, DeleteList(r) PROVE DeleteIsSafe'
  BY <1>11, <1>inv, <1>row, <1>req, <1>r DEF DeleteIsSafe, Live, Terminal, DeleteList, IdleReq,
      workerVars
<1>12. ASSUME NEW r \in Reqs, DeleteObjects(r) PROVE DeleteIsSafe'
  BY <1>12, <1>inv, <1>row, <1>req, <1>r DEF DeleteIsSafe, Live, Terminal, DeleteObjects, ReqTo,
      Purged, IdleReq, workerVars
<1>13. ASSUME NEW r \in Reqs, DeleteRow(r) PROVE DeleteIsSafe'
  BY <1>13, <1>inv, <1>row, <1>req, <1>r DEF DeleteIsSafe, Live, Terminal, DeleteRow, ReqDone,
      IdleReq, workerVars
<1>14. ASSUME NEW r \in Reqs, RowGone(r) PROVE DeleteIsSafe'
  BY <1>14, <1>inv, <1>row, <1>req, <1>r DEF DeleteIsSafe, Live, Terminal, RowGone, IdleReq,
      workerVars
<1>15. ASSUME ApiCrash PROVE DeleteIsSafe'
  BY <1>15, <1>inv, <1>row, <1>req, <1>r DEF DeleteIsSafe, Live, Terminal, ApiCrash, IdleReq
<1>16. ASSUME NEW s \in Slots, Start(s) PROVE DeleteIsSafe'
  BY <1>16, <1>inv, <1>row, <1>req, <1>j DEF DeleteIsSafe, Live, Terminal, Start, RunTo, MayStart
<1>17. ASSUME NEW s \in Slots, Complete(s) PROVE DeleteIsSafe'
  BY <1>17, <1>inv, <1>row, <1>req, <1>j DEF DeleteIsSafe, Live, Terminal, Complete, RunTo,
      MayComplete
<1>18. ASSUME NEW j \in Jobs, FailWrite(j) PROVE DeleteIsSafe'
  BY <1>18, <1>inv, <1>row, <1>req, <1>r DEF DeleteIsSafe, Live, Terminal, FailWrite, Publish
<1>19. CASE UNCHANGED <<row, req>>
  BY <1>19, <1>inv DEF DeleteIsSafe
<1>20. QED
  BY <1>1, <1>2, <1>3, <1>4, <1>5, <1>6, <1>7, <1>8, <1>9, <1>10, <1>11, <1>12, <1>13, <1>14,
      <1>15, <1>16, <1>17, <1>18, <1>19
  DEF Next, NewRequest, RequestStep, RunStep, vars, workerVars, Claim, ClaimStalled, Promote,
      Stalled, LockLost, StartRefused, SetToken, Download, BeginStage, AbortStage,
      TranscodeError, EndStage, EndLastStage, UploadFile, UploadDone, CompleteRefused, Announce,
      MarkReady, DbError, Finish, LateReport, FailAttempt, FailWriteGone, ProgressOnDeletedRow,
      ProcCrash, ReceiveCancel, ProcDown, Publish, Requeue, RunTo, TakeJob, Throw

-----------------------------------------------------------------------------
(* COMPLETED is announced once *)

\* The job got past PROCESSING.
Past(j) == row[j].state \notin {"none"} \cup Live

\* A run about to announce is the only one of its job, and the row it
\* completed can never be completed again.
AnnounceOK ==
    /\ \A s \in Slots : run[s].pc = "announce" =>
          /\ Past(run[s].job)
          /\ \A d \in events : d.type = "COMPLETED" => d.job # run[s].job
    /\ \A s, t \in Slots :
          run[s].pc = "announce" /\ run[t].pc = "announce" /\ run[s].job = run[t].job => s = t
    /\ \A d \in events : d.type = "COMPLETED" => Past(d.job)
    /\ CompletedOnce

\* The guarded update admits one run, and no state leads back to PROCESSING.
LEMMA AnnounceStep ==
    ASSUME WellFormed, AnnounceOK, [Next]_vars PROVE AnnounceOK'
<1>inv. AnnounceOK
  OBVIOUS
<1>events. \A d \in events : d.job \in Jobs
  BY DEF WellFormed, TypeOK, Event
<1>row. row \in [Jobs -> Row]
  BY DEF WellFormed, TypeOK
<1>run. run \in [Slots -> Run]
  BY DEF WellFormed, TypeOK
<1>j. \A s \in Slots : run[s].pc # "idle" => run[s].job \in Jobs /\ run[s].attempt \in 1..MaxAttempts
  BY RunTypes
<1>r. \A r \in Reqs : req[r].pc \notin {"idle", "create"} => req[r].job \in Jobs
  BY ReqTypes
<1>1. ASSUME NEW r \in Reqs, NEW j \in Jobs, SubmitCreate(r, j) PROVE AnnounceOK'
  <2>1. \A i \in Jobs : Past(i) => Past(i)'
    BY <1>1, <1>row, <1>r DEF Past, Live, SubmitCreate, workerVars
  <2>2. run' = run
    BY <1>1 DEF SubmitCreate, workerVars
  <2>3. events' = events
    BY <1>1 DEF SubmitCreate, workerVars
  <2>4. QED  BY <2>1, <2>2, <2>3, <1>inv, <1>events, <1>j DEF AnnounceOK, CompletedOnce
<1>2. ASSUME NEW r \in Reqs, SubmitEnqueue(r) PROVE AnnounceOK'
  <2>1. \A i \in Jobs : Past(i) => Past(i)'
    BY <1>2, <1>row, <1>r DEF Past, Live, SubmitEnqueue, workerVars
  <2>2. run' = run
    BY <1>2 DEF SubmitEnqueue, workerVars
  <2>3. \A d \in events' : d.type = "COMPLETED" => d \in events
    BY <1>2 DEF SubmitEnqueue, ReqTo, ReqDone, Publish
  <2>4. QED  BY <2>1, <2>2, <2>3, <1>inv, <1>events, <1>j DEF AnnounceOK, CompletedOnce
<1>3. ASSUME NEW r \in Reqs, SubmitAsset(r) PROVE AnnounceOK'
  <2>1. \A i \in Jobs : Past(i) => Past(i)'
    BY <1>3, <1>row, <1>r DEF Past, Live, SubmitAsset, workerVars
  <2>2. run' = run
    BY <1>3 DEF SubmitAsset, workerVars
  <2>3. \A d \in events' : d.type = "COMPLETED" => d \in events
    BY <1>3 DEF SubmitAsset, ReqDone, Publish
  <2>4. QED  BY <2>1, <2>2, <2>3, <1>inv, <1>events, <1>j DEF AnnounceOK, CompletedOnce
<1>4. ASSUME NEW r \in Reqs, CancelUpdate(r) PROVE AnnounceOK'
  <2>1. \A i \in Jobs : Past(i) => Past(i)'
    BY <1>4, <1>row, <1>r DEF Past, Live, CancelUpdate, workerVars
  <2>2. run' = run
    BY <1>4 DEF CancelUpdate, workerVars
  <2>3. events' = events
    BY <1>4 DEF CancelUpdate, ReqTo, workerVars
  <2>4. QED  BY <2>1, <2>2, <2>3, <1>inv, <1>events, <1>j DEF AnnounceOK, CompletedOnce
<1>5. ASSUME NEW r \in Reqs, DeleteRow(r) PROVE AnnounceOK'
  <2>1. \A i \in Jobs : Past(i) => Past(i)'
    BY <1>5, <1>row, <1>r DEF Past, Live, DeleteRow, workerVars
  <2>2. run' = run
    BY <1>5 DEF DeleteRow, workerVars
  <2>3. events' = events
    BY <1>5 DEF DeleteRow, ReqDone, workerVars
  <2>4. QED  BY <2>1, <2>2, <2>3, <1>inv, <1>events, <1>j DEF AnnounceOK, CompletedOnce
<1>6. ASSUME NEW s \in Slots, NEW j \in Jobs, Claim(s, j) PROVE AnnounceOK'
  <2>1. \A i \in Jobs : Past(i) => Past(i)'
    BY <1>6, <1>row, <1>j DEF Past, Live, Claim, TakeJob
  <2>2. \A t \in Slots : run'[t].pc = "announce" => run[t].pc = "announce" /\ run'[t].job = run[t].job
    BY <1>6, <1>run DEF IdleRun, Run, RunPC, Claim, TakeJob
  <2>3. events' = events
    BY <1>6 DEF Claim, TakeJob, workerVars
  <2>4. QED  BY <2>1, <2>2, <2>3, <1>inv, <1>events, <1>j DEF AnnounceOK, CompletedOnce
<1>7. ASSUME NEW s \in Slots, NEW j \in Jobs, ClaimStalled(s, j) PROVE AnnounceOK'
  <2>1. \A i \in Jobs : Past(i) => Past(i)'
    BY <1>7, <1>row, <1>j DEF Past, Live, ClaimStalled, TakeJob
  <2>2. \A t \in Slots : run'[t].pc = "announce" => run[t].pc = "announce" /\ run'[t].job = run[t].job
    BY <1>7, <1>run DEF IdleRun, Run, RunPC, ClaimStalled, TakeJob
  <2>3. events' = events
    BY <1>7 DEF ClaimStalled, TakeJob, workerVars
  <2>4. QED  BY <2>1, <2>2, <2>3, <1>inv, <1>events, <1>j DEF AnnounceOK, CompletedOnce
<1>8. ASSUME NEW s \in Slots, Start(s) PROVE AnnounceOK'
  <2>1. \A i \in Jobs : Past(i) => Past(i)'
    BY <1>8, <1>row, <1>j DEF Past, Live, Start, MayStart
  <2>2. \A t \in Slots : run'[t].pc = "announce" => run[t].pc = "announce" /\ run'[t].job = run[t].job
    BY <1>8, <1>run DEF IdleRun, Run, RunPC, Start, RunTo
  <2>3. events' = events
    BY <1>8 DEF Start, RunTo, workerVars
  <2>4. QED  BY <2>1, <2>2, <2>3, <1>inv, <1>events, <1>j DEF AnnounceOK, CompletedOnce
<1>9. ASSUME NEW s \in Slots, StartRefused(s) PROVE AnnounceOK'
  <2>1. \A i \in Jobs : Past(i) => Past(i)'
    BY <1>9, <1>row, <1>j DEF Past, Live, StartRefused
  <2>2. \A t \in Slots : run'[t].pc = "announce" => run[t].pc = "announce" /\ run'[t].job = run[t].job
    BY <1>9, <1>run DEF IdleRun, Run, RunPC, StartRefused
  <2>3. events' = events
    BY <1>9 DEF StartRefused, workerVars
  <2>4. QED  BY <2>1, <2>2, <2>3, <1>inv, <1>events, <1>j DEF AnnounceOK, CompletedOnce
<1>10. ASSUME NEW s \in Slots, SetToken(s) PROVE AnnounceOK'
  <2>1. \A i \in Jobs : Past(i) => Past(i)'
    BY <1>10, <1>row, <1>j DEF Past, Live, SetToken
  <2>2. \A t \in Slots : run'[t].pc = "announce" => run[t].pc = "announce" /\ run'[t].job = run[t].job
    BY <1>10, <1>run DEF IdleRun, Run, RunPC, SetToken, RunTo, Publish
  <2>3. \A d \in events' : d.type = "COMPLETED" => d \in events
    BY <1>10 DEF SetToken, RunTo, Publish
  <2>4. QED  BY <2>1, <2>2, <2>3, <1>inv, <1>events, <1>j DEF AnnounceOK, CompletedOnce
<1>11. ASSUME NEW s \in Slots, Download(s) PROVE AnnounceOK'
  <2>1. \A i \in Jobs : Past(i) => Past(i)'
    BY <1>11, <1>row, <1>j DEF Past, Live, Download
  <2>2. \A t \in Slots : run'[t].pc = "announce" => run[t].pc = "announce" /\ run'[t].job = run[t].job
    BY <1>11, <1>run DEF IdleRun, Run, RunPC, Download
  <2>3. events' = events
    BY <1>11 DEF Download, workerVars
  <2>4. QED  BY <2>1, <2>2, <2>3, <1>inv, <1>events, <1>j DEF AnnounceOK, CompletedOnce
<1>12. ASSUME NEW s \in Slots, BeginStage(s) PROVE AnnounceOK'
  <2>1. \A i \in Jobs : Past(i) => Past(i)'
    BY <1>12, <1>row, <1>j DEF Past, Live, BeginStage
  <2>2. \A t \in Slots : run'[t].pc = "announce" => run[t].pc = "announce" /\ run'[t].job = run[t].job
    BY <1>12, <1>run DEF IdleRun, Run, RunPC, BeginStage, RunTo
  <2>3. events' = events
    BY <1>12 DEF BeginStage, RunTo, workerVars
  <2>4. QED  BY <2>1, <2>2, <2>3, <1>inv, <1>events, <1>j DEF AnnounceOK, CompletedOnce
<1>13. ASSUME NEW s \in Slots, AbortStage(s) PROVE AnnounceOK'
  <2>1. \A i \in Jobs : Past(i) => Past(i)'
    BY <1>13, <1>row, <1>j DEF Past, Live, AbortStage, Throw
  <2>2. \A t \in Slots : run'[t].pc = "announce" => run[t].pc = "announce" /\ run'[t].job = run[t].job
    BY <1>13, <1>run DEF IdleRun, Run, RunPC, AbortStage, Throw
  <2>3. events' = events
    BY <1>13 DEF AbortStage, Throw, workerVars
  <2>4. QED  BY <2>1, <2>2, <2>3, <1>inv, <1>events, <1>j DEF AnnounceOK, CompletedOnce
<1>14. ASSUME NEW s \in Slots, TranscodeError(s) PROVE AnnounceOK'
  <2>1. \A i \in Jobs : Past(i) => Past(i)'
    BY <1>14, <1>row, <1>j DEF Past, Live, TranscodeError, Throw
  <2>2. \A t \in Slots : run'[t].pc = "announce" => run[t].pc = "announce" /\ run'[t].job = run[t].job
    BY <1>14, <1>run DEF IdleRun, Run, RunPC, TranscodeError, Throw
  <2>3. events' = events
    BY <1>14 DEF TranscodeError, Throw, workerVars
  <2>4. QED  BY <2>1, <2>2, <2>3, <1>inv, <1>events, <1>j DEF AnnounceOK, CompletedOnce
<1>15. ASSUME NEW s \in Slots, EndStage(s) PROVE AnnounceOK'
  <2>1. \A i \in Jobs : Past(i) => Past(i)'
    BY <1>15, <1>row, <1>j DEF Past, Live, EndStage
  <2>2. \A t \in Slots : run'[t].pc = "announce" => run[t].pc = "announce" /\ run'[t].job = run[t].job
    BY <1>15, <1>run DEF IdleRun, Run, RunPC, EndStage
  <2>3. events' = events
    BY <1>15 DEF EndStage, workerVars
  <2>4. QED  BY <2>1, <2>2, <2>3, <1>inv, <1>events, <1>j DEF AnnounceOK, CompletedOnce
<1>16. ASSUME NEW s \in Slots, EndLastStage(s) PROVE AnnounceOK'
  <2>1. \A i \in Jobs : Past(i) => Past(i)'
    BY <1>16, <1>row, <1>j DEF Past, Live, EndLastStage
  <2>2. \A t \in Slots : run'[t].pc = "announce" => run[t].pc = "announce" /\ run'[t].job = run[t].job
    BY <1>16, <1>run DEF IdleRun, Run, RunPC, EndLastStage
  <2>3. events' = events
    BY <1>16 DEF EndLastStage, workerVars
  <2>4. QED  BY <2>1, <2>2, <2>3, <1>inv, <1>events, <1>j DEF AnnounceOK, CompletedOnce
<1>17. ASSUME NEW s \in Slots, NEW f \in Objects, UploadFile(s, f) PROVE AnnounceOK'
  <2>1. \A i \in Jobs : Past(i) => Past(i)'
    BY <1>17, <1>row, <1>j DEF Past, Live, UploadFile
  <2>2. \A t \in Slots : run'[t].pc = "announce" => run[t].pc = "announce" /\ run'[t].job = run[t].job
    BY <1>17, <1>run DEF IdleRun, Run, RunPC, UploadFile
  <2>3. events' = events
    BY <1>17 DEF UploadFile, workerVars
  <2>4. QED  BY <2>1, <2>2, <2>3, <1>inv, <1>events, <1>j DEF AnnounceOK, CompletedOnce
<1>18. ASSUME NEW s \in Slots, UploadDone(s) PROVE AnnounceOK'
  <2>1. \A i \in Jobs : Past(i) => Past(i)'
    BY <1>18, <1>row, <1>j DEF Past, Live, UploadDone
  <2>2. \A t \in Slots : run'[t].pc = "announce" => run[t].pc = "announce" /\ run'[t].job = run[t].job
    BY <1>18, <1>run DEF IdleRun, Run, RunPC, UploadDone, RunTo
  <2>3. events' = events
    BY <1>18 DEF UploadDone, RunTo, workerVars
  <2>4. QED  BY <2>1, <2>2, <2>3, <1>inv, <1>events, <1>j DEF AnnounceOK, CompletedOnce
<1>19. ASSUME NEW s \in Slots, Complete(s) PROVE AnnounceOK'
  <2> DEFINE j == run[s].job
  <2>1. j \in Jobs /\ row[j].state = "PROCESSING" /\ events' = events
    BY <1>19, <1>j DEF Complete, MayComplete
  <2>2. row'[j].state \notin {"none"} \cup Live /\ \A i \in Jobs : i # j => row'[i] = row[i]
    <3>1. row' = [row EXCEPT ![j] = row'[j]] /\ row'[j].state = "COMPLETED"
      BY <1>19, <2>1, <1>row DEF Complete, Row
    <3>2. QED  BY <3>1, <1>row DEF Live
  <2>3. \A t \in Slots : t # s => run'[t] = run[t]
    BY <1>19, <1>run DEF Complete, RunTo
  <2>4. run'[s].job = j
    BY <1>19, <1>run DEF Complete, RunTo, Run
  <2>5. \A d \in events : d.type = "COMPLETED" => d.job # j
    BY <2>1, <1>inv DEF AnnounceOK, Past, Live
  <2>6. \A t \in Slots : run[t].pc = "announce" => run[t].job # j
    BY <2>1, <1>inv DEF AnnounceOK, Past, Live
  <2>7. QED  BY <2>1, <2>2, <2>3, <2>4, <2>5, <2>6, <1>inv, <1>events, <1>j DEF AnnounceOK, CompletedOnce, Past
<1>20. ASSUME NEW s \in Slots, CompleteRefused(s) PROVE AnnounceOK'
  <2>1. \A i \in Jobs : Past(i) => Past(i)'
    BY <1>20, <1>row, <1>j DEF Past, Live, CompleteRefused
  <2>2. \A t \in Slots : run'[t].pc = "announce" => run[t].pc = "announce" /\ run'[t].job = run[t].job
    BY <1>20, <1>run DEF IdleRun, Run, RunPC, CompleteRefused, RunTo
  <2>3. events' = events
    BY <1>20 DEF CompleteRefused, RunTo, workerVars
  <2>4. QED  BY <2>1, <2>2, <2>3, <1>inv, <1>events, <1>j DEF AnnounceOK, CompletedOnce
<1>21. ASSUME NEW s \in Slots, Announce(s) PROVE AnnounceOK'
  <2> DEFINE j == run[s].job
               e == [type |-> "COMPLETED", job |-> j, attempt |-> run[s].attempt]
  <2>1. j \in Jobs /\ run[s].pc = "announce" /\ row' = row /\ events' = events \cup {e}
    BY <1>21, <1>j DEF Announce, Publish
  <2>2. \A t \in Slots : t # s => run'[t] = run[t]
    BY <1>21, <1>run DEF Announce, RunTo
  <2>3. run'[s].pc # "announce"
    BY <1>21, <1>run DEF Announce, RunTo, Run
  <2>4. Past(j) /\ \A d \in events : d.type = "COMPLETED" => d.job # j
    BY <2>1, <1>inv DEF AnnounceOK
  <2>5. \A t \in Slots : t # s /\ run[t].pc = "announce" => run[t].job # j
    BY <2>1, <1>inv DEF AnnounceOK
  <2>6. e.job = j
    OBVIOUS
  <2> HIDE DEF e, j
  <2>7. CompletedOnce'
    BY <2>1, <2>4, <2>6, <1>inv DEF AnnounceOK, CompletedOnce
  <2>8. QED  BY <2>1, <2>2, <2>3, <2>4, <2>5, <2>6, <2>7, <1>inv, <1>events DEF AnnounceOK, Past
<1>22. ASSUME NEW s \in Slots, MarkReady(s) PROVE AnnounceOK'
  <2>1. \A i \in Jobs : Past(i) => Past(i)'
    BY <1>22, <1>row, <1>j DEF Past, Live, MarkReady
  <2>2. \A t \in Slots : run'[t].pc = "announce" => run[t].pc = "announce" /\ run'[t].job = run[t].job
    BY <1>22, <1>run DEF IdleRun, Run, RunPC, MarkReady, RunTo
  <2>3. events' = events
    BY <1>22 DEF MarkReady, RunTo, workerVars
  <2>4. QED  BY <2>1, <2>2, <2>3, <1>inv, <1>events, <1>j DEF AnnounceOK, CompletedOnce
<1>23. ASSUME NEW s \in Slots, DbError(s) PROVE AnnounceOK'
  <2>1. \A i \in Jobs : Past(i) => Past(i)'
    BY <1>23, <1>row, <1>j DEF Past, Live, DbError
  <2>2. \A t \in Slots : run'[t].pc = "announce" => run[t].pc = "announce" /\ run'[t].job = run[t].job
    BY <1>23, <1>run DEF IdleRun, Run, RunPC, DbError
  <2>3. events' = events
    BY <1>23 DEF DbError, workerVars
  <2>4. QED  BY <2>1, <2>2, <2>3, <1>inv, <1>events, <1>j DEF AnnounceOK, CompletedOnce
<1>24. ASSUME NEW s \in Slots, Finish(s) PROVE AnnounceOK'
  <2>1. \A i \in Jobs : Past(i) => Past(i)'
    BY <1>24, <1>row, <1>j DEF Past, Live, Finish
  <2>2. \A t \in Slots : run'[t].pc = "announce" => run[t].pc = "announce" /\ run'[t].job = run[t].job
    BY <1>24, <1>run DEF IdleRun, Run, RunPC, Finish
  <2>3. events' = events
    BY <1>24 DEF Finish, workerVars
  <2>4. QED  BY <2>1, <2>2, <2>3, <1>inv, <1>events, <1>j DEF AnnounceOK, CompletedOnce
<1>25. ASSUME NEW s \in Slots, LateReport(s) PROVE AnnounceOK'
  <2>1. \A i \in Jobs : Past(i) => Past(i)'
    BY <1>25, <1>row, <1>j DEF Past, Live, LateReport
  <2>2. \A t \in Slots : run'[t].pc = "announce" => run[t].pc = "announce" /\ run'[t].job = run[t].job
    BY <1>25, <1>run DEF IdleRun, Run, RunPC, LateReport
  <2>3. events' = events
    BY <1>25 DEF LateReport, workerVars
  <2>4. QED  BY <2>1, <2>2, <2>3, <1>inv, <1>events, <1>j DEF AnnounceOK, CompletedOnce
<1>26. ASSUME NEW s \in Slots, FailAttempt(s) PROVE AnnounceOK'
  <2>1. \A i \in Jobs : Past(i) => Past(i)'
    BY <1>26, <1>row, <1>j DEF Past, Live, FailAttempt
  <2>2. \A t \in Slots : run'[t].pc = "announce" => run[t].pc = "announce" /\ run'[t].job = run[t].job
    BY <1>26, <1>run DEF IdleRun, Run, RunPC, FailAttempt, Publish
  <2>3. \A d \in events' : d.type = "COMPLETED" => d \in events
    BY <1>26 DEF FailAttempt, Publish
  <2>4. QED  BY <2>1, <2>2, <2>3, <1>inv, <1>events, <1>j DEF AnnounceOK, CompletedOnce
<1>27. ASSUME NEW j \in Jobs, FailWrite(j) PROVE AnnounceOK'
  <2>1. \A i \in Jobs : Past(i) => Past(i)'
    BY <1>27, <1>row DEF Past, Live, FailWrite
  <2>2. run' = run
    BY <1>27 DEF FailWrite, workerVars
  <2>3. \A d \in events' : d.type = "COMPLETED" => d \in events
    BY <1>27 DEF FailWrite, Publish
  <2>4. QED  BY <2>1, <2>2, <2>3, <1>inv, <1>events, <1>j DEF AnnounceOK, CompletedOnce
<1>28. ASSUME NEW j \in Jobs, FailWriteGone(j) PROVE AnnounceOK'
  <2>1. \A i \in Jobs : Past(i) => Past(i)'
    BY <1>28, <1>row DEF Past, Live, FailWriteGone
  <2>2. \A t \in Slots : run'[t].pc = "announce" => run[t].pc = "announce" /\ run'[t].job = run[t].job
    BY <1>28, <1>run DEF IdleRun, Run, RunPC, FailWriteGone, ProcDown
  <2>3. events' = events
    BY <1>28 DEF FailWriteGone, ProcDown, workerVars
  <2>4. QED  BY <2>1, <2>2, <2>3, <1>inv, <1>events, <1>j DEF AnnounceOK, CompletedOnce
<1>29. ASSUME NEW s \in Slots, ProgressOnDeletedRow(s) PROVE AnnounceOK'
  <2>1. \A i \in Jobs : Past(i) => Past(i)'
    BY <1>29, <1>row, <1>j DEF Past, Live, ProgressOnDeletedRow
  <2>2. \A t \in Slots : run'[t].pc = "announce" => run[t].pc = "announce" /\ run'[t].job = run[t].job
    BY <1>29, <1>run DEF IdleRun, Run, RunPC, ProgressOnDeletedRow, ProcDown
  <2>3. events' = events
    BY <1>29 DEF ProgressOnDeletedRow, ProcDown, workerVars
  <2>4. QED  BY <2>1, <2>2, <2>3, <1>inv, <1>events, <1>j DEF AnnounceOK, CompletedOnce
<1>30. ASSUME NEW p \in Procs, ProcCrash(p) PROVE AnnounceOK'
  <2>1. \A i \in Jobs : Past(i) => Past(i)'
    BY <1>30, <1>row DEF Past, Live, ProcCrash
  <2>2. \A t \in Slots : run'[t].pc = "announce" => run[t].pc = "announce" /\ run'[t].job = run[t].job
    BY <1>30, <1>run DEF IdleRun, Run, RunPC, ProcCrash, ProcDown
  <2>3. events' = events
    BY <1>30 DEF ProcCrash, ProcDown, workerVars
  <2>4. QED  BY <2>1, <2>2, <2>3, <1>inv, <1>events, <1>j DEF AnnounceOK, CompletedOnce
<1>31. ASSUME NEW p \in Procs, NEW j \in Jobs, ReceiveCancel(p, j) PROVE AnnounceOK'
  <2>1. \A i \in Jobs : Past(i) => Past(i)'
    BY <1>31, <1>row DEF Past, Live, ReceiveCancel
  <2>2. \A t \in Slots : run'[t].pc = "announce" => run[t].pc = "announce" /\ run'[t].job = run[t].job
    BY <1>31, <1>run DEF IdleRun, Run, RunPC, ReceiveCancel
  <2>3. events' = events
    BY <1>31 DEF ReceiveCancel, workerVars
  <2>4. QED  BY <2>1, <2>2, <2>3, <1>inv, <1>events, <1>j DEF AnnounceOK, CompletedOnce
<1>32. CASE UNCHANGED <<row, run, events>>
  BY <1>32, <1>inv DEF AnnounceOK, CompletedOnce, Past
<1>33. QED
  BY <1>1, <1>2, <1>3, <1>4, <1>5, <1>6, <1>7, <1>8, <1>9, <1>10, <1>11, <1>12, <1>13, <1>14,
      <1>15, <1>16, <1>17, <1>18, <1>19, <1>20, <1>21, <1>22, <1>23, <1>24, <1>25, <1>26, <1>27,
      <1>28, <1>29, <1>30, <1>31, <1>32
  DEF Next, NewRequest, RequestStep, RunStep, vars, workerVars, SubmitLookup, SubmitError,
      CancelRead, CancelRemove, CancelPublish, DeleteRead, DeleteList, DeleteObjects, RowGone,
      ApiCrash, Promote, Stalled, LockLost, MayDelete, Purged, ReqDone, ReqTo, Requeue

-----------------------------------------------------------------------------
(* A completed job has its output *)

\* The output is there, or its absence is excused.
Kept(j) == Stored(j) \/ j \in excused

\* What a run has stored, and still has to store, of its job's output.
RunKeeps(s) ==
    /\ run[s].pc = "upload" =>
         run[s].job \in excused \/ Files(row[run[s].job].kind) \subseteq s3[run[s].job] \cup run[s].todo
    /\ run[s].pc \in {"complete", "announce", "asset"} => Kept(run[s].job)
    /\ run[s].pc = "asset" => row[run[s].job].kind = "hls"

RunsKeep == \A s \in Slots : RunKeeps(s)

\* deleteJob marks what it deletes before it touches it.
DeletesMarked == \A r \in Reqs : req[r].pc \in {"list", "objects", "row"} => req[r].job \in excused

PlaybackExists == \A a \in Assets : asset[a].playback # None => row[asset[a].playback].state # "none"

OutputOK == RunsKeep /\ DeletesMarked /\ CompletedHasOutput /\ PlaybackBacked /\ PlaybackExists

\* What a step that does not concern a part of OutputOK leaves alone.
RowsFixed == \A i \in Jobs : row[i].state # "none" =>
    row'[i].state # "none" /\ row'[i].kind = row[i].kind /\ row'[i].asset = row[i].asset
ObjectsFixed == excused \subseteq excused' /\ \A i \in Jobs : i \in excused \/ s3[i] \subseteq s3'[i]
RunFixed(t) == run'[t].pc \in {"upload", "complete", "announce", "asset"} =>
    run'[t].pc = run[t].pc /\ run'[t].job = run[t].job /\ run'[t].todo = run[t].todo
RunsFixed == \A t \in Slots : RunFixed(t)
DeletesFixed == \A q \in Reqs : req'[q].pc \in {"list", "objects", "row"} =>
    req[q].pc \in {"list", "objects", "row"} /\ req'[q].job = req[q].job
CompletedFixed == \A i \in Jobs : row'[i].state = "COMPLETED" =>
    row[i].state = "COMPLETED" /\ row'[i].manifest = row[i].manifest
PlaybackFixed == \A a \in Assets : asset'[a].playback = asset[a].playback

\* A stored output stays.
LEMMA KeptStep ==
    ASSUME WellFormed, RowsFixed, ObjectsFixed
    PROVE  \A i \in Jobs : row[i].state # "none" /\ Kept(i) => Kept(i)'
BY DEF RowsFixed, ObjectsFixed, Kept, Stored

\* A run that does not move keeps what it stored.
LEMMA RunFrame ==
    ASSUME WellFormed, RunsKeep, RowsFixed, ObjectsFixed, NEW s \in Slots, RunFixed(s)
    PROVE  RunKeeps(s)'
<1> SUFFICES ASSUME run'[s].pc \in {"upload", "complete", "announce", "asset"}
    PROVE  RunKeeps(s)'
  BY DEF RunKeeps
<1> DEFINE j == run[s].job
<1>1. /\ run'[s].pc = run[s].pc /\ run'[s].job = j /\ run'[s].todo = run[s].todo
      /\ j \in Jobs /\ row[j].state # "none"
  BY DEF RunFixed, WellFormed, RunOK
<1>2. row'[j].kind = row[j].kind /\ (j \in excused \/ s3[j] \subseteq s3'[j]) /\ excused \subseteq excused'
  BY <1>1 DEF RowsFixed, ObjectsFixed
<1>3. CASE run[s].pc = "upload"
  <2>1. j \in excused \/ Files(row[j].kind) \subseteq s3[j] \cup run[s].todo
    BY <1>3 DEF RunsKeep, RunKeeps
  <2>2. QED  BY <1>1, <1>2, <1>3, <2>1 DEF RunKeeps
<1>4. CASE run[s].pc \in {"complete", "announce", "asset"}
  <2>1. Kept(j) /\ (run[s].pc = "asset" => row[j].kind = "hls")
    BY <1>4 DEF RunsKeep, RunKeeps
  <2>2. j \in excused \/ Files(row[j].kind) \subseteq s3[j]
    BY <2>1 DEF Kept, Stored
  <2>3. j \in excused' \/ Files(row'[j].kind) \subseteq s3'[j]
    BY <2>2, <1>2
  <2>4. QED  BY <1>1, <1>2, <1>4, <2>1, <2>3 DEF RunKeeps, Kept, Stored
<1>5. QED  BY <1>1, <1>3, <1>4

\* Each part of OutputOK survives a step that leaves its own state alone.
LEMMA OutputFrame ==
    ASSUME WellFormed, OutputOK, RowsFixed, ObjectsFixed
    PROVE  /\ RunsFixed => RunsKeep'
           /\ DeletesFixed => DeletesMarked'
           /\ CompletedFixed => CompletedHasOutput'
           /\ PlaybackFixed => PlaybackBacked' /\ PlaybackExists'
<1>kept. \A i \in Jobs : row[i].state # "none" /\ Kept(i) => Kept(i)'
  BY KeptStep
<1>1. RunsFixed => RunsKeep'
  BY RunFrame DEF RunsFixed, RunsKeep, OutputOK
<1>2. DeletesFixed => DeletesMarked'
  BY DEF DeletesFixed, DeletesMarked, OutputOK, ObjectsFixed
<1>3. CompletedFixed => CompletedHasOutput'
  BY <1>kept DEF CompletedFixed, CompletedHasOutput, OutputOK, Kept
<1>4. PlaybackFixed => PlaybackBacked' /\ PlaybackExists'
  <2> SUFFICES ASSUME PlaybackFixed, NEW a \in Assets, asset[a].playback # None
      PROVE  LET j == asset[a].playback IN
             /\ row'[j].state # "none" /\ row'[j].kind = "hls" /\ row'[j].asset = a
             /\ Stored(j)' \/ j \in excused'
    BY DEF PlaybackFixed, PlaybackBacked, PlaybackExists, Stored
  <2>1. asset[a].playback \in Jobs
    BY DEF WellFormed, TypeOK, Asset
  <2>2. asset'[a].playback = asset[a].playback
    BY DEF PlaybackFixed
  <2>3. row[asset[a].playback].state # "none" /\ row[asset[a].playback].kind = "hls"
        /\ row[asset[a].playback].asset = a /\ Kept(asset[a].playback)
    BY DEF OutputOK, PlaybackBacked, PlaybackExists, Kept
  <2>4. asset[a].playback \in excused' \/ Files(row'[asset[a].playback].kind) \subseteq s3'[asset[a].playback]
    BY <2>1, <2>3 DEF RowsFixed, ObjectsFixed, Kept, Stored
  <2>5. QED  BY <2>1, <2>2, <2>3, <2>4 DEF RowsFixed, Stored
<1>5. QED  BY <1>1, <1>2, <1>3, <1>4

\* No step changes what a created job is.
LEMMA RowsFixedStep ==
    ASSUME WellFormed, [Next]_vars
    PROVE  RowsFixed
<1>row. row \in [Jobs -> Row]
  BY DEF WellFormed, TypeOK
<1>j. \A s \in Slots : run[s].pc # "idle" => run[s].job \in Jobs /\ run[s].attempt \in 1..MaxAttempts
  BY RunTypes
<1>r. \A r \in Reqs : req[r].pc \notin {"idle", "create"} => req[r].job \in Jobs
  BY ReqTypes
<1>1. ASSUME NEW r \in Reqs, NEW j \in Jobs, SubmitCreate(r, j) PROVE RowsFixed
  BY <1>1, <1>row, <1>r DEF RowsFixed, SubmitCreate, workerVars, Row
<1>2. ASSUME NEW r \in Reqs, CancelUpdate(r) PROVE RowsFixed
  BY <1>2, <1>row, <1>r DEF RowsFixed, CancelUpdate, ReqTo, workerVars, Row
<1>3. ASSUME NEW r \in Reqs, DeleteRow(r) PROVE RowsFixed
  BY <1>3, <1>row, <1>r DEF RowsFixed, DeleteRow, ReqDone, workerVars, Row
<1>4. ASSUME NEW s \in Slots, Start(s) PROVE RowsFixed
  BY <1>4, <1>row, <1>j DEF RowsFixed, Start, RunTo, workerVars, Row, MayStart, Live
<1>5. ASSUME NEW s \in Slots, Complete(s) PROVE RowsFixed
  BY <1>5, <1>row, <1>j DEF RowsFixed, Complete, RunTo, workerVars, Row
<1>6. ASSUME NEW j \in Jobs, FailWrite(j) PROVE RowsFixed
  BY <1>6, <1>row DEF RowsFixed, FailWrite, Publish, workerVars, Row
<1>7. CASE UNCHANGED <<row>>
  BY <1>7 DEF RowsFixed
<1>8. QED
  BY ZenonT(90), <1>1, <1>2, <1>3, <1>4, <1>5, <1>6, <1>7
  DEF Next, NewRequest, RequestStep, RunStep, vars, workerVars, SubmitLookup, SubmitEnqueue,
      SubmitAsset, SubmitError, CancelRead, CancelRemove, CancelPublish, DeleteRead, DeleteList,
      DeleteObjects, RowGone, ApiCrash, Claim, ClaimStalled, Promote, Stalled, LockLost,
      StartRefused, SetToken, Download, BeginStage, AbortStage, TranscodeError, EndStage,
      EndLastStage, UploadFile, UploadDone, CompleteRefused, Announce, MarkReady, DbError,
      Finish, LateReport, FailAttempt, FailWriteGone, ProgressOnDeletedRow, ProcCrash,
      ReceiveCancel, MayDelete, ProcDown, Publish, Purged, ReqDone, ReqTo, Requeue, RunTo,
      TakeJob, Throw

\* Only deleteJob removes objects.
LEMMA ObjectsFixedStep ==
    ASSUME WellFormed, OutputOK, [Next]_vars
    PROVE  ObjectsFixed
<1>s3. s3 \in [Jobs -> SUBSET Objects]
  BY DEF WellFormed, TypeOK
<1>excused. excused \subseteq Jobs
  BY DEF WellFormed, TypeOK
<1>j. \A s \in Slots : run[s].pc # "idle" => run[s].job \in Jobs /\ run[s].attempt \in 1..MaxAttempts
  BY RunTypes
<1>r. \A r \in Reqs : req[r].pc \notin {"idle", "create"} => req[r].job \in Jobs
  BY ReqTypes
<1>d. DeletesMarked
  BY DEF OutputOK
<1>1. ASSUME NEW r \in Reqs, NEW j \in Jobs, DeleteRead(r, j) PROVE ObjectsFixed
  BY <1>1, <1>s3, <1>excused, <1>r DEF ObjectsFixed, DeleteRead, MayDelete, workerVars
<1>2. ASSUME NEW r \in Reqs, DeleteObjects(r) PROVE ObjectsFixed
  BY <1>2, <1>s3, <1>d DEF ObjectsFixed, DeletesMarked, DeleteObjects, Purged
<1>3. ASSUME NEW s \in Slots, NEW f \in Objects, UploadFile(s, f) PROVE ObjectsFixed
  BY <1>3, <1>s3, <1>excused, <1>j DEF ObjectsFixed, UploadFile, workerVars
<1>4. CASE UNCHANGED <<s3, excused>>
  BY <1>4 DEF ObjectsFixed
<1>5. ASSUME NEW s \in Slots, UploadDone(s) PROVE ObjectsFixed
  BY <1>5 DEF ObjectsFixed, UploadDone
<1>6. QED
  BY ZenonT(90), <1>1, <1>2, <1>3, <1>4, <1>5
  DEF Next, NewRequest, RequestStep, RunStep, vars, workerVars, SubmitLookup, SubmitCreate,
      SubmitEnqueue, SubmitAsset, SubmitError, CancelRead, CancelRemove, CancelUpdate,
      CancelPublish, DeleteList, DeleteRow, RowGone, ApiCrash, Claim, ClaimStalled, Promote,
      Stalled, LockLost, Start, StartRefused, SetToken, Download, BeginStage, AbortStage,
      TranscodeError, EndStage, EndLastStage, Complete, CompleteRefused, Announce,
      MarkReady, DbError, Finish, LateReport, FailAttempt, FailWrite, FailWriteGone,
      ProgressOnDeletedRow, ProcCrash, ReceiveCancel, ProcDown, Publish, ReqDone, ReqTo, Requeue,
      RunTo, TakeJob, Throw

\* Only the guarded update completes a job.
LEMMA CompletedFixedStep ==
    ASSUME WellFormed, [Next]_vars
    PROVE  CompletedFixed \/ (\E s \in Slots : Complete(s))
<1>row. row \in [Jobs -> Row]
  BY DEF WellFormed, TypeOK
<1>j. \A s \in Slots : run[s].pc # "idle" => run[s].job \in Jobs /\ run[s].attempt \in 1..MaxAttempts
  BY RunTypes
<1>r. \A r \in Reqs : req[r].pc \notin {"idle", "create"} => req[r].job \in Jobs
  BY ReqTypes
<1>1. ASSUME NEW r \in Reqs, NEW j \in Jobs, SubmitCreate(r, j) PROVE CompletedFixed
  BY <1>1, <1>row, <1>r DEF CompletedFixed, SubmitCreate, Row
<1>2. ASSUME NEW r \in Reqs, CancelUpdate(r) PROVE CompletedFixed
  BY <1>2, <1>row, <1>r DEF CompletedFixed, CancelUpdate, ReqTo, Row
<1>3. ASSUME NEW r \in Reqs, DeleteRow(r) PROVE CompletedFixed
  BY <1>3, <1>row, <1>r DEF CompletedFixed, DeleteRow, ReqDone, Row
<1>4. ASSUME NEW s \in Slots, Start(s) PROVE CompletedFixed
  BY <1>4, <1>row, <1>j DEF CompletedFixed, Start, RunTo, Row, MayStart, Live
<1>5. ASSUME NEW j \in Jobs, FailWrite(j) PROVE CompletedFixed
  BY <1>5, <1>row DEF CompletedFixed, FailWrite, Publish, Row
<1>6. CASE UNCHANGED <<row>>
  BY <1>6 DEF CompletedFixed
<1>7. QED
  BY ZenonT(90), <1>1, <1>2, <1>3, <1>4, <1>5, <1>6
  DEF Next, NewRequest, RequestStep, RunStep, vars, workerVars, SubmitLookup, SubmitEnqueue,
      SubmitAsset, SubmitError, CancelRead, CancelRemove, CancelPublish, DeleteRead, DeleteList,
      DeleteObjects, RowGone, ApiCrash, Claim, ClaimStalled, Promote, Stalled, LockLost,
      StartRefused, SetToken, Download, BeginStage, AbortStage, TranscodeError, EndStage,
      EndLastStage, UploadFile, UploadDone, CompleteRefused, Announce, MarkReady, DbError,
      Finish, LateReport, FailAttempt, FailWriteGone, ProgressOnDeletedRow, ProcCrash,
      ReceiveCancel, MayDelete, ProcDown, Publish, Purged, ReqDone, ReqTo, Requeue, RunTo,
      TakeJob, Throw

\* Only a finished run repoints an asset.
LEMMA PlaybackFixedStep ==
    ASSUME WellFormed, [Next]_vars
    PROVE  PlaybackFixed \/ (\E s \in Slots : MarkReady(s))
<1>asset. asset \in [Assets -> Asset]
  BY DEF WellFormed, TypeOK
<1>1. ASSUME NEW r \in Reqs, SubmitAsset(r) PROVE PlaybackFixed
  BY <1>1, <1>asset DEF PlaybackFixed, SubmitAsset, ReqDone, Publish, Asset
<1>2. CASE UNCHANGED <<asset>>
  BY <1>2 DEF PlaybackFixed
<1>3. QED
  BY ZenonT(90), <1>1, <1>2
  DEF Next, NewRequest, RequestStep, RunStep, vars, workerVars, SubmitLookup, SubmitCreate,
      SubmitEnqueue, SubmitError, CancelRead, CancelRemove, CancelUpdate, CancelPublish,
      DeleteRead, DeleteList, DeleteObjects, DeleteRow, RowGone, ApiCrash, Claim, ClaimStalled,
      Promote, Stalled, LockLost, Start, StartRefused, SetToken, Download, BeginStage,
      AbortStage, TranscodeError, EndStage, EndLastStage, UploadFile, UploadDone, Complete,
      CompleteRefused, Announce, DbError, Finish, LateReport, FailAttempt, FailWrite,
      FailWriteGone, ProgressOnDeletedRow, ProcCrash, ReceiveCancel, MayDelete, ProcDown,
      Publish, Purged, ReqDone, ReqTo, Requeue, RunTo, TakeJob, Throw

\* Only deleteJob's read starts a deletion.
LEMMA DeletesFixedStep ==
    ASSUME WellFormed, [Next]_vars
    PROVE  DeletesFixed \/ (\E r \in Reqs, j \in Jobs : DeleteRead(r, j))
<1>req. req \in [Reqs -> Req]
  BY DEF WellFormed, TypeOK
<1>1. ASSUME NEW r \in Reqs, NEW kind \in Profiles, NEW a \in Assets, NEW k \in Keys \cup {None},
     SubmitLookup(r, kind, a, k) PROVE DeletesFixed
  BY <1>1, <1>req DEF DeletesFixed, SubmitLookup, IdleReq, Req
<1>2. ASSUME NEW r \in Reqs, NEW j \in Jobs, SubmitCreate(r, j) PROVE DeletesFixed
  BY <1>2, <1>req DEF DeletesFixed, SubmitCreate, IdleReq, Req
<1>3. ASSUME NEW r \in Reqs, SubmitEnqueue(r) PROVE DeletesFixed
  <2>1. \A q \in Reqs : q # r => req'[q] = req[q]
    BY <1>3, <1>req DEF SubmitEnqueue, ReqTo, ReqDone
  <2>2. req'[r].pc \in {"asset", "idle"}
    BY <1>3, <1>req DEF SubmitEnqueue, ReqTo, ReqDone, IdleReq, Req
  <2>3. QED  BY <2>1, <2>2 DEF DeletesFixed
<1>4. ASSUME NEW r \in Reqs, SubmitAsset(r) PROVE DeletesFixed
  BY <1>4, <1>req DEF DeletesFixed, SubmitAsset, ReqDone, Publish, IdleReq, Req
<1>5. ASSUME NEW r \in Reqs, SubmitError(r) PROVE DeletesFixed
  BY <1>5, <1>req DEF DeletesFixed, SubmitError, ReqDone, IdleReq, Req
<1>6. ASSUME NEW r \in Reqs, NEW j \in Jobs, CancelRead(r, j) PROVE DeletesFixed
  BY <1>6, <1>req DEF DeletesFixed, CancelRead, IdleReq, Req
<1>7. ASSUME NEW r \in Reqs, CancelRemove(r) PROVE DeletesFixed
  BY <1>7, <1>req DEF DeletesFixed, CancelRemove, ReqTo, IdleReq, Req
<1>8. ASSUME NEW r \in Reqs, CancelUpdate(r) PROVE DeletesFixed
  BY <1>8, <1>req DEF DeletesFixed, CancelUpdate, ReqTo, IdleReq, Req
<1>9. ASSUME NEW r \in Reqs, CancelPublish(r) PROVE DeletesFixed
  BY <1>9, <1>req DEF DeletesFixed, CancelPublish, ReqDone, IdleReq, Req
<1>10. ASSUME NEW r \in Reqs, DeleteList(r) PROVE DeletesFixed
  BY <1>10, <1>req DEF DeletesFixed, DeleteList, IdleReq, Req
<1>11. ASSUME NEW r \in Reqs, DeleteObjects(r) PROVE DeletesFixed
  BY <1>11, <1>req DEF DeletesFixed, DeleteObjects, ReqTo, Purged, IdleReq, Req
<1>12. ASSUME NEW r \in Reqs, DeleteRow(r) PROVE DeletesFixed
  BY <1>12, <1>req DEF DeletesFixed, DeleteRow, ReqDone, IdleReq, Req
<1>13. ASSUME NEW r \in Reqs, RowGone(r) PROVE DeletesFixed
  BY <1>13, <1>req DEF DeletesFixed, RowGone, IdleReq, Req
<1>14. ASSUME ApiCrash PROVE DeletesFixed
  BY <1>14, <1>req DEF DeletesFixed, ApiCrash, IdleReq, Req
<1>15. CASE UNCHANGED <<req>>
  BY <1>15 DEF DeletesFixed
<1>16. QED
  BY ZenonT(90), <1>1, <1>2, <1>3, <1>4, <1>5, <1>6, <1>7, <1>8, <1>9, <1>10, <1>11, <1>12,
      <1>13, <1>14, <1>15
  DEF Next, NewRequest, RequestStep, RunStep, vars, workerVars, Claim, ClaimStalled, Promote,
      Stalled, LockLost, Start, StartRefused, SetToken, Download, BeginStage, AbortStage,
      TranscodeError, EndStage, EndLastStage, UploadFile, UploadDone, Complete, CompleteRefused,
      Announce, MarkReady, DbError, Finish, LateReport, FailAttempt, FailWrite, FailWriteGone,
      ProgressOnDeletedRow, ProcCrash, ReceiveCancel, ProcDown, Publish, Requeue, RunTo, TakeJob,
      Throw

\* What a run has uploaded changes with five actions only.
LEMMA RunsFixedStep ==
    ASSUME WellFormed, [Next]_vars
    PROVE  RunsFixed \/ (\E s \in Slots : EndLastStage(s)) \/ (\E s \in Slots, f \in Objects :
        UploadFile(s, f)) \/ (\E s \in Slots : UploadDone(s)) \/ (\E s \in Slots : Complete(s))
        \/ (\E s \in Slots : Announce(s))
<1>run. run \in [Slots -> Run]
  BY DEF WellFormed, TypeOK
<1>1. ASSUME NEW s \in Slots, NEW j \in Jobs, Claim(s, j) PROVE RunsFixed
  BY <1>1, <1>run DEF RunsFixed, RunFixed, Claim, TakeJob, IdleRun, Run
<1>2. ASSUME NEW s \in Slots, NEW j \in Jobs, ClaimStalled(s, j) PROVE RunsFixed
  BY <1>2, <1>run DEF RunsFixed, RunFixed, ClaimStalled, TakeJob, IdleRun, Run
<1>3. ASSUME NEW s \in Slots, Start(s) PROVE RunsFixed
  BY <1>3, <1>run DEF RunsFixed, RunFixed, Start, RunTo, IdleRun, Run
<1>4. ASSUME NEW s \in Slots, StartRefused(s) PROVE RunsFixed
  BY <1>4, <1>run DEF RunsFixed, RunFixed, StartRefused, IdleRun, Run
<1>5. ASSUME NEW s \in Slots, SetToken(s) PROVE RunsFixed
  BY <1>5, <1>run DEF RunsFixed, RunFixed, SetToken, RunTo, Publish, IdleRun, Run
<1>6. ASSUME NEW s \in Slots, Download(s) PROVE RunsFixed
  BY <1>6, <1>run DEF RunsFixed, RunFixed, Download, IdleRun, Run
<1>7. ASSUME NEW s \in Slots, BeginStage(s) PROVE RunsFixed
  BY <1>7, <1>run DEF RunsFixed, RunFixed, BeginStage, RunTo, IdleRun, Run
<1>8. ASSUME NEW s \in Slots, AbortStage(s) PROVE RunsFixed
  BY <1>8, <1>run DEF RunsFixed, RunFixed, AbortStage, Throw, IdleRun, Run
<1>9. ASSUME NEW s \in Slots, TranscodeError(s) PROVE RunsFixed
  BY <1>9, <1>run DEF RunsFixed, RunFixed, TranscodeError, Throw, IdleRun, Run
<1>10. ASSUME NEW s \in Slots, EndStage(s) PROVE RunsFixed
  BY <1>10, <1>run DEF RunsFixed, RunFixed, EndStage, IdleRun, Run
<1>11. ASSUME NEW s \in Slots, CompleteRefused(s) PROVE RunsFixed
  BY <1>11, <1>run DEF RunsFixed, RunFixed, CompleteRefused, RunTo, IdleRun, Run
<1>12. ASSUME NEW s \in Slots, MarkReady(s) PROVE RunsFixed
  BY <1>12, <1>run DEF RunsFixed, RunFixed, MarkReady, RunTo, IdleRun, Run
<1>13. ASSUME NEW s \in Slots, DbError(s) PROVE RunsFixed
  BY <1>13, <1>run DEF RunsFixed, RunFixed, DbError, IdleRun, Run
<1>14. ASSUME NEW s \in Slots, Finish(s) PROVE RunsFixed
  BY <1>14, <1>run DEF RunsFixed, RunFixed, Finish, IdleRun, Run
<1>15. ASSUME NEW s \in Slots, LateReport(s) PROVE RunsFixed
  BY <1>15, <1>run DEF RunsFixed, RunFixed, LateReport, IdleRun, Run
<1>16. ASSUME NEW s \in Slots, FailAttempt(s) PROVE RunsFixed
  BY <1>16, <1>run DEF RunsFixed, RunFixed, FailAttempt, Publish, IdleRun, Run
<1>17. ASSUME NEW j \in Jobs, FailWriteGone(j) PROVE RunsFixed
  BY <1>17, <1>run DEF RunsFixed, RunFixed, FailWriteGone, ProcDown, IdleRun, Run
<1>18. ASSUME NEW s \in Slots, ProgressOnDeletedRow(s) PROVE RunsFixed
  BY <1>18, <1>run DEF RunsFixed, RunFixed, ProgressOnDeletedRow, ProcDown, IdleRun, Run
<1>19. ASSUME NEW p \in Procs, ProcCrash(p) PROVE RunsFixed
  BY <1>19, <1>run DEF RunsFixed, RunFixed, ProcCrash, ProcDown, IdleRun, Run
<1>20. ASSUME NEW p \in Procs, NEW j \in Jobs, ReceiveCancel(p, j) PROVE RunsFixed
  BY <1>20, <1>run DEF RunsFixed, RunFixed, ReceiveCancel, IdleRun, Run
<1>21. CASE UNCHANGED <<run>>
  BY <1>21 DEF RunsFixed, RunFixed
<1>22. QED
  BY ZenonT(90), <1>1, <1>2, <1>3, <1>4, <1>5, <1>6, <1>7, <1>8, <1>9, <1>10, <1>11, <1>12,
      <1>13, <1>14, <1>15, <1>16, <1>17, <1>18, <1>19, <1>20, <1>21
  DEF Next, NewRequest, RequestStep, RunStep, vars, workerVars, SubmitLookup, SubmitCreate,
      SubmitEnqueue, SubmitAsset, SubmitError, CancelRead, CancelRemove, CancelUpdate,
      CancelPublish, DeleteRead, DeleteList, DeleteObjects, DeleteRow, RowGone, ApiCrash,
      Promote, Stalled, LockLost, FailWrite, MayDelete, Publish, Purged, ReqDone, ReqTo, Requeue

\* The seven actions that write what OutputOK is about.
LEMMA OutputStep ==
    ASSUME WellFormed, OutputOK, [Next]_vars PROVE OutputOK'
<1>rows. RowsFixed
  BY RowsFixedStep
<1>objects. ObjectsFixed
  BY ObjectsFixedStep
<1>frame. /\ RunsFixed => RunsKeep'
          /\ DeletesFixed => DeletesMarked'
          /\ CompletedFixed => CompletedHasOutput'
          /\ PlaybackFixed => PlaybackBacked' /\ PlaybackExists'
  BY <1>rows, <1>objects, OutputFrame
<1>kept. \A i \in Jobs : row[i].state # "none" /\ Kept(i) => Kept(i)'
  BY <1>rows, <1>objects, KeptStep
<1>runs. \A t \in Slots : RunFixed(t) => RunKeeps(t)'
  BY <1>rows, <1>objects, RunFrame DEF OutputOK
<1>keeps. \A s \in Slots : run[s].pc \in {"complete", "announce", "asset"} => Kept(run[s].job)
  BY DEF OutputOK, RunsKeep, RunKeeps
<1>job. \A s \in Slots : run[s].pc # "idle" => run[s].job \in Jobs /\ row[run[s].job].state # "none"
  BY DEF WellFormed, RunOK
<1>row. row \in [Jobs -> Row]
  BY DEF WellFormed, TypeOK
<1>run. run \in [Slots -> Run]
  BY DEF WellFormed, TypeOK
<1>1. DeletesMarked'
  <2>1. ASSUME NEW r \in Reqs, NEW j \in Jobs, DeleteRead(r, j) PROVE DeletesMarked'
    <3>1. req \in [Reqs -> Req]
      BY DEF WellFormed, TypeOK
    <3>2. \A q \in Reqs : q # r => req'[q] = req[q]
      BY <2>1, <3>1 DEF DeleteRead
    <3>3. req'[r].job = j
      BY <2>1, <3>1 DEF DeleteRead, IdleReq
    <3>4. excused' = excused \cup {j}
      BY <2>1 DEF DeleteRead
    <3>5. QED  BY <3>2, <3>3, <3>4 DEF DeletesMarked, OutputOK
  <2>2. QED  BY <2>1, <1>frame, DeletesFixedStep
<1>2. CompletedHasOutput'
  <2>1. ASSUME NEW s \in Slots, Complete(s) PROVE CompletedHasOutput'
    <3> DEFINE j == run[s].job
    <3>1. j \in Jobs /\ row[j].state # "none" /\ Kept(j)
      BY <2>1, <1>job, <1>keeps DEF Complete
    <3>2. row' = [row EXCEPT ![j] = row'[j]] /\ row'[j].manifest
      BY <2>1, <3>1, <1>row DEF Complete, Row
    <3>3. \A i \in Jobs : i # j => row'[i] = row[i]
      BY <3>2, <1>row
    <3>4. \A i \in Jobs : row[i].state = "COMPLETED" => row[i].manifest /\ Kept(i)
      BY DEF OutputOK, CompletedHasOutput, Kept
    <3>5. \A i \in Jobs : row'[i].state = "COMPLETED" => row'[i].manifest /\ Kept(i)'
      BY <3>1, <3>2, <3>3, <3>4, <1>kept
    <3>6. QED  BY <3>5 DEF CompletedHasOutput, Kept
  <2>2. QED  BY <2>1, <1>frame, CompletedFixedStep
<1>3. PlaybackBacked' /\ PlaybackExists'
  <2>1. ASSUME NEW s \in Slots, MarkReady(s) PROVE PlaybackBacked' /\ PlaybackExists'
    <3> DEFINE j == run[s].job
    <3>1. j \in Jobs /\ row[j].state # "none" /\ Kept(j) /\ row[j].kind = "hls"
      BY <2>1, <1>job, <1>keeps DEF MarkReady, OutputOK, RunsKeep, RunKeeps
    <3>2. row[j].asset \in Assets /\ asset \in [Assets -> Asset] /\ row' = row
      BY <2>1, <3>1, <1>row DEF WellFormed, TypeOK, Row, MarkReady
    <3>3. asset'[row[j].asset].playback = j /\ \A a \in Assets : a # row[j].asset => asset'[a] = asset[a]
      BY <2>1, <3>2 DEF MarkReady
    <3>4. \A a \in Assets : asset[a].playback # None =>
              /\ asset[a].playback \in Jobs /\ row[asset[a].playback].state # "none"
              /\ row[asset[a].playback].kind = "hls" /\ row[asset[a].playback].asset = a
              /\ Kept(asset[a].playback)
      BY <3>2 DEF OutputOK, PlaybackBacked, PlaybackExists, Asset, Kept
    <3>5. \A a \in Assets : asset'[a].playback # None =>
              /\ asset'[a].playback \in Jobs /\ row[asset'[a].playback].state # "none"
              /\ row[asset'[a].playback].kind = "hls" /\ row[asset'[a].playback].asset = a
              /\ Kept(asset'[a].playback)
      BY <3>1, <3>3, <3>4
    <3>6. UNCHANGED <<row, s3, excused>>
      BY <2>1 DEF MarkReady
    <3>7. QED  BY <3>5, <3>6 DEF PlaybackBacked, PlaybackExists, Kept, Stored
  <2>2. QED  BY <2>1, <1>frame, PlaybackFixedStep
<1>4. RunsKeep'
  <2>1. ASSUME NEW s \in Slots, EndLastStage(s) PROVE RunsKeep'
    <3>1. run'[s].pc = "upload" /\ run'[s].job = run[s].job /\ run'[s].todo = Files(row[run[s].job].kind)
      BY <2>1, <1>run DEF EndLastStage, Run
    <3>2. \A t \in Slots : t # s => RunFixed(t)
      BY <2>1, <1>run DEF EndLastStage, RunFixed
    <3>3. row' = row
      BY <2>1 DEF EndLastStage
    <3>4. RunKeeps(s)'
      BY <3>1, <3>3 DEF RunKeeps
    <3>5. QED  BY <3>2, <3>4, <1>runs DEF RunsKeep
  <2>2. ASSUME NEW s \in Slots, NEW f \in Objects, UploadFile(s, f) PROVE RunsKeep'
    <3>1. run[s].pc = "upload" /\ run'[s].pc = "upload" /\ run'[s].job = run[s].job
          /\ run'[s].todo = run[s].todo \ {f}
      BY <2>2, <1>run DEF UploadFile, Run
    <3>2. \A t \in Slots : t # s => RunFixed(t)
      BY <2>2, <1>run DEF UploadFile, RunFixed
    <3>3. row' = row /\ excused' = excused /\ s3'[run[s].job] = s3[run[s].job] \cup {f}
      <4>1. run[s].job \in Jobs /\ s3 \in [Jobs -> SUBSET Objects]
        BY <3>1, <1>job DEF WellFormed, TypeOK
      <4>2. QED  BY <2>2, <4>1 DEF UploadFile
    <3>4. run[s].job \in excused \/ Files(row[run[s].job].kind) \subseteq s3[run[s].job] \cup run[s].todo
      BY <3>1 DEF OutputOK, RunsKeep, RunKeeps
    <3>5. RunKeeps(s)'
      BY <3>1, <3>3, <3>4 DEF RunKeeps
    <3>6. QED  BY <3>2, <3>5, <1>runs DEF RunsKeep
  <2>3. ASSUME NEW s \in Slots, UploadDone(s) PROVE RunsKeep'
    <3>1. /\ run[s].pc = "upload" /\ run'[s].pc = "complete" /\ run'[s].job = run[s].job
          /\ run[s].todo = {} \/ s \in torn
      BY <2>3, <1>run DEF UploadDone, Uploaded, RunTo, Run
    <3>2. \A t \in Slots : t # s => RunFixed(t)
      BY <2>3, <1>run DEF UploadDone, RunTo, RunFixed
    <3>3. Kept(run[s].job)'
      <4>1. CASE s \in torn
        BY <2>3, <3>1, <4>1 DEF UploadDone, Kept
      <4>2. CASE run[s].todo = {}
        <5>1. Kept(run[s].job)
          BY <3>1, <4>2 DEF OutputOK, RunsKeep, RunKeeps, Kept, Stored
        <5>2. QED  BY <3>1, <5>1, <1>job, <1>kept
      <4>3. QED  BY <3>1, <4>1, <4>2
    <3>4. RunKeeps(s)'
      BY <3>1, <3>3, <1>job, <1>kept DEF RunKeeps
    <3>5. QED  BY <3>2, <3>4, <1>runs DEF RunsKeep
  <2>4. ASSUME NEW s \in Slots, Complete(s) PROVE RunsKeep'
    <3>1. run[s].pc = "complete" /\ run'[s].pc = "announce" /\ run'[s].job = run[s].job
      BY <2>4, <1>run DEF Complete, RunTo, Run
    <3>2. \A t \in Slots : t # s => RunFixed(t)
      BY <2>4, <1>run DEF Complete, RunTo, RunFixed
    <3>3. RunKeeps(s)'
      BY <3>1, <1>keeps, <1>job, <1>kept DEF RunKeeps
    <3>4. QED  BY <3>2, <3>3, <1>runs DEF RunsKeep
  <2>5. ASSUME NEW s \in Slots, Announce(s) PROVE RunsKeep'
    <3>1. run[s].pc = "announce" /\ run'[s].job = run[s].job
          /\ run'[s].pc = IF HasPlaylist(run[s].job) THEN "asset" ELSE "finish"
      BY <2>5, <1>run DEF Announce, RunTo, Run
    <3>2. \A t \in Slots : t # s => RunFixed(t)
      BY <2>5, <1>run DEF Announce, RunTo, RunFixed
    <3>3. row' = row /\ (run'[s].pc = "asset" => row[run[s].job].kind = "hls") /\ run'[s].pc # "upload"
      BY <2>5, <3>1 DEF Announce, HasPlaylist
    <3>4. RunKeeps(s)'
      BY <3>1, <3>3, <1>keeps, <1>job, <1>kept DEF RunKeeps
    <3>5. QED  BY <3>2, <3>4, <1>runs DEF RunsKeep
  <2>6. QED  BY <2>1, <2>2, <2>3, <2>4, <2>5, <1>frame, RunsFixedStep
<1>5. QED  BY <1>1, <1>2, <1>3, <1>4 DEF OutputOK

-----------------------------------------------------------------------------
(* One job for a key *)

\* A row that does not exist yet has no key.
KeysOK == OneJobPerKey /\ \A j \in Jobs : row[j].state = "none" => row[j].key = None

\* A step that does not create the row.
KeyFixed(i) == /\ row'[i].key = row[i].key
               /\ row'[i].state = "none" => row[i].state = "none"
               /\ row[i].state = "deleted" => row'[i].state = "deleted"

\* Rows that keep their keys keep them unique.
LEMMA KeysFrame ==
    ASSUME KeysOK, \A i \in Jobs : KeyFixed(i)
    PROVE  KeysOK'
<1>1. ASSUME NEW i \in Jobs, NEW j \in Jobs,
             row'[i].key # None, row'[i].key = row'[j].key,
             row'[i].state # "deleted", row'[j].state # "deleted"
      PROVE  i = j
  <2>1. row[i].key = row'[i].key /\ row[j].key = row'[j].key
        /\ row[i].state # "deleted" /\ row[j].state # "deleted"
    BY <1>1 DEF KeyFixed
  <2>2. QED  BY <1>1, <2>1 DEF KeysOK, OneJobPerKey
<1>2. ASSUME NEW i \in Jobs, row'[i].state = "none" PROVE row'[i].key = None
  BY <1>2 DEF KeyFixed, KeysOK
<1>3. QED  BY <1>1, <1>2 DEF KeysOK, OneJobPerKey

\* Only the insert gives a row its key, and the index refuses a second one.
LEMMA KeysStep ==
    ASSUME WellFormed, KeysOK, [Next]_vars PROVE KeysOK'
<1>inv. KeysOK
  OBVIOUS
<1>row. row \in [Jobs -> Row]
  BY DEF WellFormed, TypeOK
<1>j. \A s \in Slots : run[s].pc # "idle" => run[s].job \in Jobs
  BY RunTypes
<1>r. \A r \in Reqs : req[r].pc \notin {"idle", "create"} => req[r].job \in Jobs
  BY ReqTypes
<1>1. ASSUME NEW r \in Reqs, NEW j \in Jobs, SubmitCreate(r, j) PROVE KeysOK'
  <2>1. /\ row[j].state = "none" /\ \A i \in Jobs : i # j => row'[i] = row[i]
        /\ row'[j].key = req[r].key /\ row'[j].state = "QUEUED"
    BY <1>1, <1>row DEF SubmitCreate
  <2>2. \A i \in Jobs : req[r].key # None /\ row[i].key = req[r].key => row[i].state \in {"none", "deleted"}
    BY <1>1 DEF SubmitCreate, KeyUnique, KeyFree
  <2>3. \A i \in Jobs : i # j /\ row[i].key = req[r].key /\ req[r].key # None => row[i].state = "deleted"
    BY <2>2, <1>inv DEF KeysOK
  <2>4. QED  BY <2>1, <2>3, <1>inv DEF KeysOK, OneJobPerKey
<1>2. ASSUME NEW r \in Reqs, CancelUpdate(r) PROVE KeysOK'
  <2>1. \A i \in Jobs : KeyFixed(i)
    BY <1>2, <1>row, <1>r DEF KeyFixed, Row, MayComplete, CancelUpdate
  <2>2. QED  BY <2>1, <1>inv, KeysFrame
<1>3. ASSUME NEW r \in Reqs, DeleteRow(r) PROVE KeysOK'
  <2>1. \A i \in Jobs : KeyFixed(i)
    BY <1>3, <1>row, <1>r DEF KeyFixed, Row, MayComplete, DeleteRow
  <2>2. QED  BY <2>1, <1>inv, KeysFrame
<1>4. ASSUME NEW s \in Slots, Start(s) PROVE KeysOK'
  <2>1. \A i \in Jobs : KeyFixed(i)
    BY <1>4, <1>row, <1>j DEF KeyFixed, Row, MayComplete, Start, MayStart, Live
  <2>2. QED  BY <2>1, <1>inv, KeysFrame
<1>5. ASSUME NEW s \in Slots, Complete(s) PROVE KeysOK'
  <2>1. \A i \in Jobs : KeyFixed(i)
    BY <1>5, <1>row, <1>j DEF KeyFixed, Row, MayComplete, Complete
  <2>2. QED  BY <2>1, <1>inv, KeysFrame
<1>6. ASSUME NEW j \in Jobs, FailWrite(j) PROVE KeysOK'
  <2>1. \A i \in Jobs : KeyFixed(i)
    BY <1>6, <1>row DEF KeyFixed, Row, MayComplete, FailWrite
  <2>2. QED  BY <2>1, <1>inv, KeysFrame
<1>7. CASE UNCHANGED <<row>>
  BY <1>7, <1>inv DEF KeysOK, OneJobPerKey
<1>8. QED
  BY <1>1, <1>2, <1>3, <1>4, <1>5, <1>6, <1>7
  DEF Next, NewRequest, RequestStep, RunStep, vars, workerVars, SubmitLookup, SubmitEnqueue,
      SubmitAsset, SubmitError, CancelRead, CancelRemove, CancelPublish, DeleteRead, DeleteList,
      DeleteObjects, RowGone, ApiCrash, Claim, ClaimStalled, Promote, Stalled, LockLost,
      StartRefused, SetToken, Download, BeginStage, AbortStage, TranscodeError, EndStage,
      EndLastStage, UploadFile, UploadDone, CompleteRefused, Announce, MarkReady, DbError,
      Finish, LateReport, FailAttempt, FailWriteGone, ProgressOnDeletedRow, ProcCrash,
      ReceiveCancel, MayDelete, ProcDown, Publish, Purged, ReqDone, ReqTo, Requeue, RunTo,
      TakeJob, Throw

-----------------------------------------------------------------------------
(* The pipeline implements the life cycle *)

\* The mapping: row states, and the jobs whose COMPLETED was published.
States    == [j \in Jobs |-> row[j].state]
Completes == {e.job : e \in {d \in events : d.type = "COMPLETED"}}

\* Nothing exists, nothing is announced.
LEMMA LifeInitial == Init => Life!LifeInit
BY DEF Init, Life!LifeInit, NoRow

\* Writing one row's state moves that job only.
LEMMA StatesMove ==
    ASSUME NEW j \in Jobs, NEW x, row'[j].state = x, \A i \in Jobs : i # j => row'[i] = row[i]
    PROVE  States' = [States EXCEPT ![j] = x] /\ States[j] = row[j].state
BY DEF States

\* The other events announce nothing.
LEMMA CompletesSame ==
    ASSUME NEW t, NEW j, NEW a, t # "COMPLETED", Publish(t, j, a)
    PROVE  Completes' = Completes
BY DEF Completes, Publish

\* A COMPLETED event announces its job.
LEMMA CompletesMore ==
    ASSUME NEW j, NEW a, Publish("COMPLETED", j, a)
    PROVE  Completes' = Completes \cup {j}
<1>1. events' = events \cup {[type |-> "COMPLETED", job |-> j, attempt |-> a]}
  BY DEF Publish
<1>2. \A x : x \in Completes' <=> \E e \in events' : e.type = "COMPLETED" /\ e.job = x
  BY DEF Completes
<1>3. \A x : x \in Completes <=> \E e \in events : e.type = "COMPLETED" /\ e.job = x
  BY DEF Completes
<1>4. \A x : x \in Completes' <=> x \in Completes \/ x = j
  <2> DEFINE new == [type |-> "COMPLETED", job |-> j, attempt |-> a]
  <2>1. new.type = "COMPLETED" /\ new.job = j
    OBVIOUS
  <2>2. events' = events \cup {new}
    BY <1>1
  <2> HIDE DEF new
  <2>3. QED  BY <2>1, <2>2, <1>2, <1>3
<1>5. QED  BY <1>4

\* What a step may do to the life cycle of one job.
LifeStep == \/ \E j \in Jobs : \/ Life!Submitted(j) \/ Life!Started(j) \/ Life!Completed(j)
                               \/ Life!Failed(j) \/ Life!Cancelled(j) \/ Life!Deleted(j)
                               \/ Life!Announced(j)
            \/ States' = States /\ Completes' = Completes

\* Every step moves one job along the life cycle, or none.
LEMMA LifecycleStep ==
    ASSUME WellFormed, FailureOK, AnnounceOK, DeleteIsSafe, [Next]_vars
    PROVE  LifeStep
<1>rows. row \in [Jobs -> Row]
  BY DEF WellFormed, TypeOK
<1>row. \A j \in Jobs : row[j] \in Row
  BY DEF WellFormed, TypeOK
<1>state. \A j \in Jobs : row[j].state \in {"none", "deleted"} \cup Live \cup Terminal
  BY <1>row DEF Row
<1>j. \A s \in Slots : run[s].pc # "idle" => run[s].job \in Jobs
  BY RunTypes
<1>r. \A r \in Reqs : req[r].pc \notin {"idle", "create"} =>
        req[r].job \in Jobs /\ row[req[r].job].state # "none"
  BY DEF WellFormed, ReqOK
<1>same. ASSUME row' = row PROVE States' = States
  BY <1>same DEF States
<1>none. ASSUME events' = events PROVE Completes' = Completes
  BY <1>none DEF Completes
<1>1. ASSUME NEW r \in Reqs, NEW j \in Jobs, SubmitCreate(r, j) PROVE LifeStep
  <2>1. PICK i \in Jobs : i = j /\ row[i].state = "none"
    BY <1>1, <1>j, <1>r, <1>state DEF SubmitCreate, Live, Terminal
  <2>2. row'[i].state = "QUEUED" /\ \A k \in Jobs : k # i => row'[k] = row[k]
    BY <1>1, <2>1, <1>rows DEF SubmitCreate, Row
  <2>3. States' = [States EXCEPT ![i] = "QUEUED"] /\ States[i] = row[i].state
    BY <2>2, StatesMove
  <2>4. Completes' = Completes
    BY <1>1, <1>none DEF SubmitCreate
  <2>5. Life!Submitted(i)
    BY <2>1, <2>3, <2>4 DEF Life!Submitted, Life!Move, Life!InProgress, Life!Ended, States,
        Completes
  <2>6. QED  BY <2>1, <2>5 DEF LifeStep
<1>2. ASSUME NEW r \in Reqs, CancelUpdate(r) PROVE LifeStep
  <2>1. PICK i \in Jobs : i = req[r].job /\ row[i].state \in {"QUEUED", "PROCESSING", "COMPLETED", "FAILED", "CANCELLED"}
    BY <1>2, <1>j, <1>r, <1>state DEF CancelUpdate, Live, Terminal
  <2>2. row'[i].state = "CANCELLED" /\ \A k \in Jobs : k # i => row'[k] = row[k]
    BY <1>2, <2>1, <1>rows DEF CancelUpdate, Row
  <2>3. States' = [States EXCEPT ![i] = "CANCELLED"] /\ States[i] = row[i].state
    BY <2>2, StatesMove
  <2>4. Completes' = Completes
    BY <1>2, <1>none DEF CancelUpdate
  <2>5. Life!Cancelled(i)
    BY <2>1, <2>3, <2>4 DEF Life!Cancelled, Life!Move, Life!InProgress, Life!Ended, States,
        Completes
  <2>6. QED  BY <2>1, <2>5 DEF LifeStep
<1>3. ASSUME NEW r \in Reqs, DeleteRow(r) PROVE LifeStep
  <2>1. PICK i \in Jobs : i = req[r].job /\ row[i].state \in {"COMPLETED", "FAILED", "CANCELLED"}
    BY <1>3, <1>j, <1>r, <1>state DEF DeleteRow, Live, Terminal, DeleteIsSafe
  <2>2. row'[i].state = "deleted" /\ \A k \in Jobs : k # i => row'[k] = row[k]
    BY <1>3, <2>1, <1>rows DEF DeleteRow, Row
  <2>3. States' = [States EXCEPT ![i] = "deleted"] /\ States[i] = row[i].state
    BY <2>2, StatesMove
  <2>4. Completes' = Completes
    BY <1>3, <1>none DEF DeleteRow
  <2>5. Life!Deleted(i)
    BY <2>1, <2>3, <2>4 DEF Life!Deleted, Life!Move, Life!InProgress, Life!Ended, States, Completes
  <2>6. QED  BY <2>1, <2>5 DEF LifeStep
<1>4. ASSUME NEW s \in Slots, Start(s) PROVE LifeStep
  <2>1. PICK i \in Jobs : i = run[s].job /\ row[i].state \in {"QUEUED", "PROCESSING"}
    BY <1>4, <1>j, <1>r, <1>state DEF Start, Live, Terminal, MayStart
  <2>2. row'[i].state = "PROCESSING" /\ \A k \in Jobs : k # i => row'[k] = row[k]
    BY <1>4, <2>1, <1>rows DEF Start, Row
  <2>3. States' = [States EXCEPT ![i] = "PROCESSING"] /\ States[i] = row[i].state
    BY <2>2, StatesMove
  <2>4. Completes' = Completes
    BY <1>4, <1>none DEF Start
  <2>5. CASE row[i].state = "QUEUED"
    <3>1. Life!Started(i)
      BY <2>3, <2>4, <2>5 DEF Life!Started, Life!Move, States, Completes
    <3>2. QED  BY <2>1, <3>1 DEF LifeStep
  <2>6. CASE row[i].state = "PROCESSING"
    BY <2>1, <2>3, <2>4, <2>6 DEF LifeStep, States
  <2>7. QED  BY <2>1, <2>5, <2>6
<1>5. ASSUME NEW s \in Slots, Complete(s) PROVE LifeStep
  <2>1. PICK i \in Jobs : i = run[s].job /\ row[i].state = "PROCESSING"
    BY <1>5, <1>j, <1>r, <1>state DEF Complete, Live, Terminal, MayComplete
  <2>2. row'[i].state = "COMPLETED" /\ \A k \in Jobs : k # i => row'[k] = row[k]
    BY <1>5, <2>1, <1>rows DEF Complete, Row
  <2>3. States' = [States EXCEPT ![i] = "COMPLETED"] /\ States[i] = row[i].state
    BY <2>2, StatesMove
  <2>4. Completes' = Completes
    BY <1>5, <1>none DEF Complete
  <2>5. Life!Completed(i)
    BY <2>1, <2>3, <2>4 DEF Life!Completed, Life!Move, Life!InProgress, Life!Ended, States,
        Completes
  <2>6. QED  BY <2>1, <2>5 DEF LifeStep
<1>6. ASSUME NEW j \in Jobs, FailWrite(j) PROVE LifeStep
  <2>1. PICK i \in Jobs : i = j /\ row[i].state \in {"QUEUED", "PROCESSING", "COMPLETED", "FAILED", "CANCELLED"}
    <3>1. entry[j].made = MaxAttempts
      BY <1>6 DEF FailWrite, FailureOK
    <3>2. row[j].state # "none"
      BY <3>1, Constants DEF WellFormed, EnqueueOK
    <3>3. QED  BY <1>6, <3>2, <1>state DEF FailWrite, Live, Terminal
  <2>2. row'[i].state = "FAILED" /\ \A k \in Jobs : k # i => row'[k] = row[k]
    BY <1>6, <2>1, <1>rows DEF FailWrite, Row
  <2>3. States' = [States EXCEPT ![i] = "FAILED"] /\ States[i] = row[i].state
    BY <2>2, StatesMove
  <2>4. Completes' = Completes
    BY <1>6, CompletesSame DEF FailWrite
  <2>5. Life!Failed(i)
    BY <2>1, <2>3, <2>4 DEF Life!Failed, Life!Move, Life!InProgress, Life!Ended, States, Completes
  <2>6. QED  BY <2>1, <2>5 DEF LifeStep
<1>7. ASSUME NEW s \in Slots, Announce(s) PROVE LifeStep
  <2>1. PICK i \in Jobs : i = run[s].job /\ run[s].pc = "announce"
    BY <1>7, <1>j DEF Announce
  <2>2. /\ row[i].state \in {"COMPLETED", "FAILED", "CANCELLED", "deleted"}
        /\ \A d \in events : d.type = "COMPLETED" => d.job # i
    BY <2>1, <1>state DEF AnnounceOK, Past, Live, Terminal
  <2>3. States' = States
    BY <1>7, <1>same DEF Announce
  <2>4. i \notin Completes
    BY <2>2 DEF Completes
  <2>5. Completes' = Completes \cup {i}
    BY <1>7, <2>1, CompletesMore DEF Announce
  <2>6. Life!Announced(i)
    BY <2>1, <2>2, <2>3, <2>4, <2>5 DEF Life!Announced, Life!Ended, States, Completes
  <2>7. QED  BY <2>1, <2>6 DEF LifeStep
<1>8. ASSUME NEW r \in Reqs, SubmitEnqueue(r) PROVE LifeStep
  <2>1. States' = States
    BY <1>8, <1>same DEF SubmitEnqueue
  <2>2. Completes' = Completes
    BY <1>8, <1>none, CompletesSame DEF SubmitEnqueue, ReqTo, ReqDone
  <2>3. QED  BY <2>1, <2>2 DEF LifeStep
<1>9. ASSUME NEW r \in Reqs, SubmitAsset(r) PROVE LifeStep
  <2>1. States' = States
    BY <1>9, <1>same DEF SubmitAsset
  <2>2. Completes' = Completes
    BY <1>9, <1>none, CompletesSame DEF SubmitAsset, ReqDone
  <2>3. QED  BY <2>1, <2>2 DEF LifeStep
<1>10. ASSUME NEW s \in Slots, SetToken(s) PROVE LifeStep
  <2>1. States' = States
    BY <1>10, <1>same DEF SetToken
  <2>2. Completes' = Completes
    BY <1>10, <1>none, CompletesSame DEF SetToken, RunTo
  <2>3. QED  BY <2>1, <2>2 DEF LifeStep
<1>11. ASSUME NEW s \in Slots, FailAttempt(s) PROVE LifeStep
  <2>1. States' = States
    BY <1>11, <1>same DEF FailAttempt
  <2>2. Completes' = Completes
    BY <1>11, <1>none, CompletesSame DEF FailAttempt
  <2>3. QED  BY <2>1, <2>2 DEF LifeStep
<1>12. CASE UNCHANGED <<row, events>>
  BY <1>12, <1>same, <1>none DEF LifeStep
<1>13. QED
  BY ZenonT(90), <1>1, <1>2, <1>3, <1>4, <1>5, <1>6, <1>7, <1>8, <1>9, <1>10, <1>11, <1>12
  DEF Next, NewRequest, RequestStep, RunStep, vars, workerVars, SubmitLookup, SubmitError,
      CancelRead, CancelRemove, CancelPublish, DeleteRead, DeleteList, DeleteObjects, RowGone,
      ApiCrash, Claim, ClaimStalled, Promote, Stalled, LockLost, StartRefused, Download,
      BeginStage, AbortStage, TranscodeError, EndStage, EndLastStage, UploadFile, UploadDone,
      CompleteRefused, MarkReady, DbError, Finish, LateReport, FailWriteGone,
      ProgressOnDeletedRow, ProcCrash, ReceiveCancel, MayDelete, ProcDown, Purged, ReqDone,
      ReqTo, Requeue, RunTo, TakeJob, Throw

-----------------------------------------------------------------------------
(* What is given up as cancelled was cancelled *)

\* The job was cancelled, if it is still there, and its attempt may have failed since.
Stopped(j) == row[j].state \in {"CANCELLED", "FAILED", "deleted"}

\* A token belongs to a run of its job that is in runTranscode.
TokenOK ==
    \A p \in Procs, j \in Jobs : LET s == activeTokens[p][j] IN s # None =>
        ProcOf[s] = p /\ run[s].job = j /\ run[s].pc \in {"download", "check", "encode", "upload"}

\* Nobody is told to stop a job before the row says so.
MessageOK ==
    /\ \A m \in cancelMsgs : Stopped(m[2])
    /\ \A r \in Reqs : req[r].pc = "publish" => Stopped(req[r].job)

\* A free slot remembers nothing.
IdleOK == \A s \in Slots : run[s].pc = "idle" => run[s] = IdleRun

AbandonOK == TokenOK /\ MessageOK /\ IdleOK /\ AbandonedIsEnded

\* Where a run is in the processor, by what it did to the row.
Working == {"token", "download", "check", "encode", "upload", "complete"}
Leaving == {"announce", "asset", "finish"}

\* What a row never goes back to.
RowsAge == \A i \in Jobs : row[i].state # "none" =>
    /\ row'[i].state # "none"
    /\ Stopped(i) => Stopped(i)'
    /\ row[i].state \notin Live => row'[i].state \notin Live
    /\ row[i].state # "QUEUED" => row'[i].state # "QUEUED"
    /\ row[i].state = "deleted" => row'[i].state = "deleted"

\* Every update of a row is guarded by a live state or leads out of the live states.
LEMMA RowsAgeStep ==
    ASSUME WellFormed, [Next]_vars
    PROVE  RowsAge
<1>row. row \in [Jobs -> Row]
  BY DEF WellFormed, TypeOK
<1>j. \A s \in Slots : run[s].pc # "idle" => run[s].job \in Jobs
  BY RunTypes
<1>r. \A r \in Reqs : req[r].pc \notin {"idle", "create"} => req[r].job \in Jobs
  BY ReqTypes
<1>1. ASSUME NEW r \in Reqs, NEW j \in Jobs, SubmitCreate(r, j) PROVE RowsAge
  BY <1>1, <1>row, <1>j, <1>r DEF RowsAge, Stopped, Live, Row, SubmitCreate, workerVars
<1>2. ASSUME NEW r \in Reqs, CancelUpdate(r) PROVE RowsAge
  BY <1>2, <1>row, <1>j, <1>r DEF RowsAge, Stopped, Live, Row, CancelUpdate, ReqTo, workerVars
<1>3. ASSUME NEW r \in Reqs, DeleteRow(r) PROVE RowsAge
  BY <1>3, <1>row, <1>j, <1>r DEF RowsAge, Stopped, Live, Row, DeleteRow, ReqDone, IdleReq,
      workerVars
<1>4. ASSUME NEW s \in Slots, Start(s) PROVE RowsAge
  BY <1>4, <1>row, <1>j, <1>r DEF RowsAge, Stopped, Live, Row, Start, RunTo, MayStart
<1>5. ASSUME NEW s \in Slots, Complete(s) PROVE RowsAge
  BY <1>5, <1>row, <1>j, <1>r DEF RowsAge, Stopped, Live, Row, Complete, RunTo, MayComplete
<1>6. ASSUME NEW j \in Jobs, FailWrite(j) PROVE RowsAge
  BY <1>6, <1>row, <1>j, <1>r DEF RowsAge, Stopped, Live, Row, FailWrite, Publish
<1>7. CASE UNCHANGED row
  BY <1>7, <1>row, <1>j, <1>r DEF RowsAge, Stopped
<1>8. QED
  BY ZenonT(90), <1>1, <1>2, <1>3, <1>4, <1>5, <1>6, <1>7
  DEF Next, NewRequest, RequestStep, RunStep, vars, workerVars, SubmitLookup, CancelRead,
      DeleteRead, ApiCrash, SubmitEnqueue, SubmitAsset, SubmitError, CancelRemove, CancelPublish,
      DeleteList, DeleteObjects, RowGone, Claim, ClaimStalled, Promote, Stalled, LockLost,
      FailWriteGone, StartRefused, SetToken, Download, BeginStage, AbortStage, TranscodeError,
      EndStage, EndLastStage, UploadDone, CompleteRefused, Announce, MarkReady, DbError, Finish,
      LateReport, FailAttempt, ProgressOnDeletedRow, UploadFile, ProcCrash, ReceiveCancel,
      MayDelete, ProcDown, Publish, Purged, ReqDone, ReqTo, Requeue, RunTo, TakeJob, Throw

\* A slot that a step does not leave alone becomes free, is given a job, hears
\* of a cancellation, or moves on with its job.
Taken(t) == /\ run[t].pc = "idle" /\ ~run'[t].cancelled
            /\ \/ run'[t].pc = "start" /\ run'[t].err = "none"
               \/ run'[t].pc = "fail" /\ run'[t].err = "stalled"
Told(t) == /\ run'[t] = [run[t] EXCEPT !.cancelled = TRUE]
           /\ \E m \in cancelMsgs : activeTokens[m[1]][m[2]] = t
Moves(t) ==
    /\ run[t].pc # "idle" /\ run'[t].pc # "idle"
    /\ run'[t].job = run[t].job /\ run'[t].cancelled = run[t].cancelled
    /\ \/ run'[t].err \in {run[t].err, "error"}
       \/ run'[t].err = "cancelled" /\ (run[t].cancelled \/ row[run[t].job].state \notin Live)
    /\ run'[t].pc = "fail" => run'[t].err \in {"error", "cancelled"}
    /\ run'[t].pc \in Working => run[t].pc \in Working \/ row'[run[t].job].state = "PROCESSING"
    /\ run'[t].pc \in Leaving => \/ run[t].pc \in Leaving
                                 \/ row'[run[t].job].state = "COMPLETED"
                                 \/ run[t].pc = "complete" /\ row'[run[t].job].state # "PROCESSING"
RunMoves == \A t \in Slots : \/ run'[t] \in {run[t], IdleRun}
                             \/ Taken(t) \/ Told(t) \/ Moves(t)

\* One of these is what every action does to every slot.
LEMMA RunMovesStep ==
    ASSUME WellFormed, [Next]_vars
    PROVE  RunMoves
<1>row. row \in [Jobs -> Row]
  BY DEF WellFormed, TypeOK
<1>run. run \in [Slots -> Run]
  BY DEF WellFormed, TypeOK
<1>j. \A s \in Slots : run[s].pc # "idle" => run[s].job \in Jobs
  BY RunTypes
<1>1. ASSUME NEW s \in Slots, NEW j \in Jobs, Claim(s, j) PROVE RunMoves
  BY <1>1, <1>row, <1>run, <1>j DEF RunMoves, Taken, Told, Moves, Working, Leaving, Run, Row, Claim,
      TakeJob, IdleRun
<1>2. ASSUME NEW s \in Slots, NEW j \in Jobs, ClaimStalled(s, j) PROVE RunMoves
  BY <1>2, <1>row, <1>run, <1>j DEF RunMoves, Taken, Told, Moves, Working, Leaving, Run, Row,
      ClaimStalled, TakeJob, IdleRun
<1>3. ASSUME NEW s \in Slots, Start(s) PROVE RunMoves
  <2>1. \A t \in Slots : t # s => run'[t] = run[t]
    BY <1>3, <1>run DEF Start, RunTo, MayStart
  <2>2. Moves(s)
    BY <1>3, <1>row, <1>run, <1>j DEF Moves, Working, Leaving, Live, Run, Start, RunTo, MayStart
  <2>3. QED  BY <2>1, <2>2 DEF RunMoves
<1>4. ASSUME NEW s \in Slots, StartRefused(s) PROVE RunMoves
  <2>1. \A t \in Slots : t # s => run'[t] = run[t]
    BY <1>4, <1>run DEF StartRefused, MayStart
  <2>2. Moves(s)
    BY <1>4, <1>row, <1>run, <1>j DEF Moves, Working, Leaving, Live, Run, StartRefused, MayStart
  <2>3. QED  BY <2>1, <2>2 DEF RunMoves
<1>5. ASSUME NEW s \in Slots, SetToken(s) PROVE RunMoves
  <2>1. \A t \in Slots : t # s => run'[t] = run[t]
    BY <1>5, <1>run DEF SetToken, RunTo, Publish
  <2>2. Moves(s)
    BY <1>5, <1>row, <1>run, <1>j DEF Moves, Working, Leaving, Live, Run, SetToken, RunTo, Publish
  <2>3. QED  BY <2>1, <2>2 DEF RunMoves
<1>6. ASSUME NEW s \in Slots, Download(s) PROVE RunMoves
  <2>1. \A t \in Slots : t # s => run'[t] = run[t]
    BY <1>6, <1>run DEF Download
  <2>2. Moves(s)
    BY <1>6, <1>row, <1>run, <1>j DEF Moves, Working, Leaving, Live, Run, Download
  <2>3. QED  BY <2>1, <2>2 DEF RunMoves
<1>7. ASSUME NEW s \in Slots, BeginStage(s) PROVE RunMoves
  <2>1. \A t \in Slots : t # s => run'[t] = run[t]
    BY <1>7, <1>run DEF BeginStage, RunTo
  <2>2. Moves(s)
    BY <1>7, <1>row, <1>run, <1>j DEF Moves, Working, Leaving, Live, Run, BeginStage, RunTo
  <2>3. QED  BY <2>1, <2>2 DEF RunMoves
<1>8. ASSUME NEW s \in Slots, AbortStage(s) PROVE RunMoves
  <2>1. \A t \in Slots : t # s => run'[t] = run[t]
    BY <1>8, <1>run DEF AbortStage, Throw, ErrorOf
  <2>2. Moves(s)
    BY <1>8, <1>row, <1>run, <1>j DEF Moves, Working, Leaving, Live, Run, AbortStage, Throw, ErrorOf
  <2>3. QED  BY <2>1, <2>2 DEF RunMoves
<1>9. ASSUME NEW s \in Slots, TranscodeError(s) PROVE RunMoves
  <2>1. \A t \in Slots : t # s => run'[t] = run[t]
    BY <1>9, <1>run DEF TranscodeError, Throw, ErrorOf
  <2>2. Moves(s)
    BY <1>9, <1>row, <1>run, <1>j DEF Moves, Working, Leaving, Live, Run, TranscodeError, Throw,
        ErrorOf
  <2>3. QED  BY <2>1, <2>2 DEF RunMoves
<1>10. ASSUME NEW s \in Slots, EndStage(s) PROVE RunMoves
  <2>1. \A t \in Slots : t # s => run'[t] = run[t]
    BY <1>10, <1>run DEF EndStage
  <2>2. Moves(s)
    BY <1>10, <1>row, <1>run, <1>j DEF Moves, Working, Leaving, Live, Run, EndStage
  <2>3. QED  BY <2>1, <2>2 DEF RunMoves
<1>11. ASSUME NEW s \in Slots, EndLastStage(s) PROVE RunMoves
  <2>1. \A t \in Slots : t # s => run'[t] = run[t]
    BY <1>11, <1>run DEF EndLastStage
  <2>2. Moves(s)
    BY <1>11, <1>row, <1>run, <1>j DEF Moves, Working, Leaving, Live, Run, EndLastStage
  <2>3. QED  BY <2>1, <2>2 DEF RunMoves
<1>12. ASSUME NEW s \in Slots, NEW f \in Objects, UploadFile(s, f) PROVE RunMoves
  <2>1. \A t \in Slots : t # s => run'[t] = run[t]
    BY <1>12, <1>run DEF UploadFile
  <2>2. Moves(s)
    BY <1>12, <1>row, <1>run, <1>j DEF Moves, Working, Leaving, Live, Run, UploadFile
  <2>3. QED  BY <2>1, <2>2 DEF RunMoves
<1>13. ASSUME NEW s \in Slots, UploadDone(s) PROVE RunMoves
  <2>1. \A t \in Slots : t # s => run'[t] = run[t]
    BY <1>13, <1>run DEF UploadDone, RunTo
  <2>2. Moves(s)
    BY <1>13, <1>row, <1>run, <1>j DEF Moves, Working, Leaving, Live, Run, UploadDone, RunTo
  <2>3. QED  BY <2>1, <2>2 DEF RunMoves
<1>14. ASSUME NEW s \in Slots, Complete(s) PROVE RunMoves
  <2>1. \A t \in Slots : t # s => run'[t] = run[t]
    BY <1>14, <1>run DEF Complete, RunTo, MayComplete
  <2>2. Moves(s)
    BY <1>14, <1>row, <1>run, <1>j DEF Moves, Working, Leaving, Live, Run, Complete, RunTo,
        MayComplete
  <2>3. QED  BY <2>1, <2>2 DEF RunMoves
<1>15. ASSUME NEW s \in Slots, CompleteRefused(s) PROVE RunMoves
  <2>1. \A t \in Slots : t # s => run'[t] = run[t]
    BY <1>15, <1>run DEF CompleteRefused, RunTo, MayComplete
  <2>2. Moves(s)
    BY <1>15, <1>row, <1>run, <1>j DEF Moves, Working, Leaving, Live, Run, CompleteRefused, RunTo,
        MayComplete
  <2>3. QED  BY <2>1, <2>2 DEF RunMoves
<1>16. ASSUME NEW s \in Slots, Announce(s) PROVE RunMoves
  <2>1. \A t \in Slots : t # s => run'[t] = run[t]
    BY <1>16, <1>run DEF Announce, RunTo, Publish, HasPlaylist
  <2>2. Moves(s)
    BY <1>16, <1>row, <1>run, <1>j DEF Moves, Working, Leaving, Live, Run, Announce, RunTo, Publish,
        HasPlaylist
  <2>3. QED  BY <2>1, <2>2 DEF RunMoves
<1>17. ASSUME NEW s \in Slots, MarkReady(s) PROVE RunMoves
  <2>1. \A t \in Slots : t # s => run'[t] = run[t]
    BY <1>17, <1>run DEF MarkReady, RunTo
  <2>2. Moves(s)
    BY <1>17, <1>row, <1>run, <1>j DEF Moves, Working, Leaving, Live, Run, MarkReady, RunTo
  <2>3. QED  BY <2>1, <2>2 DEF RunMoves
<1>18. ASSUME NEW s \in Slots, DbError(s) PROVE RunMoves
  <2>1. \A t \in Slots : t # s => run'[t] = run[t]
    BY <1>18, <1>run DEF DbError
  <2>2. Moves(s)
    BY <1>18, <1>row, <1>run, <1>j DEF Moves, Working, Leaving, Live, Run, DbError
  <2>3. QED  BY <2>1, <2>2 DEF RunMoves
<1>19. ASSUME NEW s \in Slots, Finish(s) PROVE RunMoves
  BY <1>19, <1>row, <1>run, <1>j DEF RunMoves, Taken, Told, Moves, Working, Leaving, Run, Row,
      Finish, Holds
<1>20. ASSUME NEW s \in Slots, LateReport(s) PROVE RunMoves
  BY <1>20, <1>row, <1>run, <1>j DEF RunMoves, Taken, Told, Moves, Working, Leaving, Run, Row,
      LateReport, Holds
<1>21. ASSUME NEW s \in Slots, FailAttempt(s) PROVE RunMoves
  BY <1>21, <1>row, <1>run, <1>j DEF RunMoves, Taken, Told, Moves, Working, Leaving, Run, Row,
      FailAttempt, Holds
<1>22. ASSUME NEW j \in Jobs, FailWriteGone(j) PROVE RunMoves
  BY <1>22, <1>row, <1>run, <1>j DEF RunMoves, Taken, Told, Moves, Working, Leaving, Run, Row,
      FailWriteGone, ProcDown
<1>23. ASSUME NEW s \in Slots, ProgressOnDeletedRow(s) PROVE RunMoves
  BY <1>23, <1>row, <1>run, <1>j DEF RunMoves, Taken, Told, Moves, Working, Leaving, Run, Row,
      ProgressOnDeletedRow, ProcDown
<1>24. ASSUME NEW p \in Procs, ProcCrash(p) PROVE RunMoves
  BY <1>24, <1>row, <1>run, <1>j DEF RunMoves, Taken, Told, Moves, Working, Leaving, Run, Row,
      ProcCrash, ProcDown
<1>25. ASSUME NEW p \in Procs, NEW j \in Jobs, ReceiveCancel(p, j) PROVE RunMoves
  BY <1>25, <1>row, <1>run, <1>j DEF RunMoves, Taken, Told, Moves, Working, Leaving, Run, Row,
      ReceiveCancel
<1>26. CASE UNCHANGED run
  BY <1>26, <1>row, <1>run, <1>j DEF RunMoves
<1>27. QED
  BY <1>1, <1>2, <1>3, <1>4, <1>5, <1>6, <1>7, <1>8, <1>9, <1>10, <1>11, <1>12, <1>13, <1>14, <1>15,
      <1>16, <1>17, <1>18, <1>19, <1>20, <1>21, <1>22, <1>23, <1>24, <1>25, <1>26
  DEF Next, NewRequest, RequestStep, RunStep, vars, workerVars, SubmitLookup, SubmitCreate,
      CancelRead, DeleteRead, ApiCrash, SubmitEnqueue, SubmitAsset, SubmitError, CancelRemove,
      CancelUpdate, CancelPublish, DeleteList, DeleteObjects, DeleteRow, RowGone, Promote, Stalled,
      LockLost, FailWrite, MayDelete, ProcDown, Publish, Purged, ReqDone, ReqTo, Requeue, RunTo,
      TakeJob, Throw

\* Whoever leaves runTranscode drops the token first.
LEMMA TokenStep ==
    ASSUME WellFormed, TokenOK, [Next]_vars
    PROVE  TokenOK'
<1>run. run \in [Slots -> Run]
  BY DEF WellFormed, TypeOK
<1>tokens. activeTokens \in [Procs -> [Jobs -> Slots \cup {None}]]
  BY DEF WellFormed, TypeOK
<1>j. \A s \in Slots : run[s].pc # "idle" => run[s].job \in Jobs
  BY RunTypes
<1>none. None \notin Slots /\ None \notin Jobs /\ None \notin Procs
  BY PipelineAssumption
<1>1. ASSUME NEW s \in Slots, NEW j \in Jobs, Claim(s, j) PROVE TokenOK'
  BY <1>1, <1>run, <1>tokens, <1>j, <1>none DEF TokenOK, Run, Claim, TakeJob, IdleRun
<1>2. ASSUME NEW s \in Slots, NEW j \in Jobs, ClaimStalled(s, j) PROVE TokenOK'
  BY <1>2, <1>run, <1>tokens, <1>j, <1>none DEF TokenOK, Run, ClaimStalled, TakeJob, IdleRun
<1>3. ASSUME NEW s \in Slots, Start(s) PROVE TokenOK'
  BY <1>3, <1>run, <1>tokens, <1>j, <1>none DEF TokenOK, Run, Start, RunTo, MayStart
<1>4. ASSUME NEW s \in Slots, StartRefused(s) PROVE TokenOK'
  BY <1>4, <1>run, <1>tokens, <1>j, <1>none DEF TokenOK, Run, StartRefused, MayStart
<1>5. ASSUME NEW s \in Slots, SetToken(s) PROVE TokenOK'
  BY <1>5, <1>run, <1>tokens, <1>j, <1>none DEF TokenOK, Run, SetToken, RunTo, Publish
<1>6. ASSUME NEW s \in Slots, Download(s) PROVE TokenOK'
  BY <1>6, <1>run, <1>tokens, <1>j, <1>none DEF TokenOK, Run, Download
<1>7. ASSUME NEW s \in Slots, BeginStage(s) PROVE TokenOK'
  BY <1>7, <1>run, <1>tokens, <1>j, <1>none DEF TokenOK, Run, BeginStage, RunTo
<1>8. ASSUME NEW s \in Slots, AbortStage(s) PROVE TokenOK'
  BY <1>8, <1>run, <1>tokens, <1>j, <1>none DEF TokenOK, Run, AbortStage, Throw, ErrorOf
<1>9. ASSUME NEW s \in Slots, TranscodeError(s) PROVE TokenOK'
  BY <1>9, <1>run, <1>tokens, <1>j, <1>none DEF TokenOK, Run, TranscodeError, Throw, ErrorOf
<1>10. ASSUME NEW s \in Slots, EndStage(s) PROVE TokenOK'
  BY <1>10, <1>run, <1>tokens, <1>j, <1>none DEF TokenOK, Run, EndStage
<1>11. ASSUME NEW s \in Slots, EndLastStage(s) PROVE TokenOK'
  BY <1>11, <1>run, <1>tokens, <1>j, <1>none DEF TokenOK, Run, EndLastStage
<1>12. ASSUME NEW s \in Slots, NEW f \in Objects, UploadFile(s, f) PROVE TokenOK'
  BY <1>12, <1>run, <1>tokens, <1>j, <1>none DEF TokenOK, Run, UploadFile
<1>13. ASSUME NEW s \in Slots, UploadDone(s) PROVE TokenOK'
  BY <1>13, <1>run, <1>tokens, <1>j, <1>none DEF TokenOK, Run, UploadDone, RunTo
<1>14. ASSUME NEW s \in Slots, Complete(s) PROVE TokenOK'
  BY <1>14, <1>run, <1>tokens, <1>j, <1>none DEF TokenOK, Run, Complete, RunTo, MayComplete
<1>15. ASSUME NEW s \in Slots, CompleteRefused(s) PROVE TokenOK'
  BY <1>15, <1>run, <1>tokens, <1>j, <1>none DEF TokenOK, Run, CompleteRefused, RunTo, MayComplete
<1>16. ASSUME NEW s \in Slots, Announce(s) PROVE TokenOK'
  BY <1>16, <1>run, <1>tokens, <1>j, <1>none DEF TokenOK, Run, Announce, RunTo, Publish, HasPlaylist
<1>17. ASSUME NEW s \in Slots, MarkReady(s) PROVE TokenOK'
  BY <1>17, <1>run, <1>tokens, <1>j, <1>none DEF TokenOK, Run, MarkReady, RunTo
<1>18. ASSUME NEW s \in Slots, DbError(s) PROVE TokenOK'
  BY <1>18, <1>run, <1>tokens, <1>j, <1>none DEF TokenOK, Run, DbError
<1>19. ASSUME NEW s \in Slots, Finish(s) PROVE TokenOK'
  BY <1>19, <1>run, <1>tokens, <1>j, <1>none DEF TokenOK, Run, Finish, Holds
<1>20. ASSUME NEW s \in Slots, LateReport(s) PROVE TokenOK'
  BY <1>20, <1>run, <1>tokens, <1>j, <1>none DEF TokenOK, Run, LateReport, Holds
<1>21. ASSUME NEW s \in Slots, FailAttempt(s) PROVE TokenOK'
  BY <1>21, <1>run, <1>tokens, <1>j, <1>none DEF TokenOK, Run, FailAttempt, Holds
<1>22. ASSUME NEW j \in Jobs, FailWriteGone(j) PROVE TokenOK'
  BY <1>22, <1>run, <1>tokens, <1>j, <1>none DEF TokenOK, Run, FailWriteGone, ProcDown
<1>23. ASSUME NEW s \in Slots, ProgressOnDeletedRow(s) PROVE TokenOK'
  BY <1>23, <1>run, <1>tokens, <1>j, <1>none DEF TokenOK, Run, ProgressOnDeletedRow, ProcDown
<1>24. ASSUME NEW p \in Procs, ProcCrash(p) PROVE TokenOK'
  BY <1>24, <1>run, <1>tokens, <1>j, <1>none DEF TokenOK, Run, ProcCrash, ProcDown
<1>25. ASSUME NEW p \in Procs, NEW j \in Jobs, ReceiveCancel(p, j) PROVE TokenOK'
  BY <1>25, <1>run, <1>tokens, <1>j, <1>none DEF TokenOK, Run, ReceiveCancel
<1>26. CASE UNCHANGED <<run, activeTokens>>
  BY <1>26, <1>run, <1>tokens, <1>j, <1>none DEF TokenOK
<1>27. QED
  BY <1>1, <1>2, <1>3, <1>4, <1>5, <1>6, <1>7, <1>8, <1>9, <1>10, <1>11, <1>12, <1>13, <1>14, <1>15,
      <1>16, <1>17, <1>18, <1>19, <1>20, <1>21, <1>22, <1>23, <1>24, <1>25, <1>26
  DEF Next, NewRequest, RequestStep, RunStep, vars, workerVars, SubmitLookup, SubmitCreate,
      CancelRead, DeleteRead, ApiCrash, SubmitEnqueue, SubmitAsset, SubmitError, CancelRemove,
      CancelUpdate, CancelPublish, DeleteList, DeleteObjects, DeleteRow, RowGone, Promote, Stalled,
      LockLost, FailWrite, MayDelete, ProcDown, Publish, Purged, ReqDone, ReqTo, Requeue, RunTo,
      TakeJob, Throw

\* A call about to send a cancel message has written CANCELLED.
PublishFixed == \A q \in Reqs : req'[q].pc = "publish" =>
    \/ req[q].pc = "publish" /\ req'[q].job = req[q].job
    \/ req'[q].job \in Jobs /\ Stopped(req[q].job)'

\* Only CancelUpdate brings a call to the point of publishing.
LEMMA PublishFixedStep ==
    ASSUME WellFormed, [Next]_vars
    PROVE  PublishFixed
<1>row. row \in [Jobs -> Row]
  BY DEF WellFormed, TypeOK
<1>req. req \in [Reqs -> Req]
  BY DEF WellFormed, TypeOK
<1>r. \A r \in Reqs : req[r].pc \notin {"idle", "create"} => req[r].job \in Jobs
  BY ReqTypes
<1>1. ASSUME NEW r \in Reqs, NEW kind \in Profiles, NEW a \in Assets, NEW k \in Keys \cup {None},
    SubmitLookup(r, kind, a, k) PROVE PublishFixed
  BY <1>1, <1>row, <1>req, <1>r DEF PublishFixed, Stopped, Row, Req, SubmitLookup, IdleReq,
      workerVars
<1>2. ASSUME NEW r \in Reqs, NEW j \in Jobs, SubmitCreate(r, j) PROVE PublishFixed
  BY <1>2, <1>row, <1>req, <1>r DEF PublishFixed, Stopped, Row, Req, SubmitCreate, workerVars
<1>3. ASSUME NEW r \in Reqs, SubmitEnqueue(r) PROVE PublishFixed
  BY <1>3, <1>row, <1>req, <1>r DEF PublishFixed, Stopped, Row, Req, SubmitEnqueue, ReqTo, ReqDone,
      Publish, workerVars, IdleReq
<1>4. ASSUME NEW r \in Reqs, SubmitAsset(r) PROVE PublishFixed
  BY <1>4, <1>row, <1>req, <1>r DEF PublishFixed, Stopped, Row, Req, SubmitAsset, ReqDone, Publish,
      workerVars, IdleReq
<1>5. ASSUME NEW r \in Reqs, SubmitError(r) PROVE PublishFixed
  BY <1>5, <1>row, <1>req, <1>r DEF PublishFixed, Stopped, Row, Req, SubmitError, ReqDone,
      workerVars, IdleReq
<1>6. ASSUME NEW r \in Reqs, NEW j \in Jobs, CancelRead(r, j) PROVE PublishFixed
  BY <1>6, <1>row, <1>req, <1>r DEF PublishFixed, Stopped, Row, Req, CancelRead, IdleReq, workerVars
<1>7. ASSUME NEW r \in Reqs, CancelRemove(r) PROVE PublishFixed
  BY <1>7, <1>row, <1>req, <1>r DEF PublishFixed, Stopped, Row, Req, CancelRemove, ReqTo, workerVars
<1>8. ASSUME NEW r \in Reqs, CancelUpdate(r) PROVE PublishFixed
  BY <1>8, <1>row, <1>req, <1>r DEF PublishFixed, Stopped, Row, Req, CancelUpdate, ReqTo, workerVars
<1>9. ASSUME NEW r \in Reqs, CancelPublish(r) PROVE PublishFixed
  BY <1>9, <1>row, <1>req, <1>r DEF PublishFixed, Stopped, Row, Req, CancelPublish, ReqDone,
      IdleReq, workerVars
<1>10. ASSUME NEW r \in Reqs, NEW j \in Jobs, DeleteRead(r, j) PROVE PublishFixed
  BY <1>10, <1>row, <1>req, <1>r DEF PublishFixed, Stopped, Row, Req, DeleteRead, MayDelete,
      IdleReq, workerVars
<1>11. ASSUME NEW r \in Reqs, DeleteList(r) PROVE PublishFixed
  BY <1>11, <1>row, <1>req, <1>r DEF PublishFixed, Stopped, Row, Req, DeleteList, workerVars
<1>12. ASSUME NEW r \in Reqs, DeleteObjects(r) PROVE PublishFixed
  BY <1>12, <1>row, <1>req, <1>r DEF PublishFixed, Stopped, Row, Req, DeleteObjects, Purged, ReqTo,
      workerVars
<1>13. ASSUME NEW r \in Reqs, DeleteRow(r) PROVE PublishFixed
  BY <1>13, <1>row, <1>req, <1>r DEF PublishFixed, Stopped, Row, Req, DeleteRow, ReqDone, IdleReq,
      workerVars
<1>14. ASSUME NEW r \in Reqs, RowGone(r) PROVE PublishFixed
  BY <1>14, <1>row, <1>req, <1>r DEF PublishFixed, Stopped, Row, Req, RowGone, IdleReq, workerVars
<1>15. ASSUME ApiCrash PROVE PublishFixed
  BY <1>15, <1>row, <1>req, <1>r DEF PublishFixed, Stopped, Row, Req, ApiCrash, IdleReq, workerVars
<1>16. CASE UNCHANGED req
  BY <1>16, <1>row, <1>req, <1>r DEF PublishFixed
<1>17. QED
  BY ZenonT(90), <1>1, <1>2, <1>3, <1>4, <1>5, <1>6, <1>7, <1>8, <1>9, <1>10, <1>11, <1>12, <1>13,
      <1>14, <1>15, <1>16
  DEF Next, NewRequest, RequestStep, RunStep, vars, workerVars, Claim, ClaimStalled, Promote,
      Stalled, LockLost, FailWrite, FailWriteGone, Start, StartRefused, SetToken, Download,
      BeginStage, AbortStage, TranscodeError, EndStage, EndLastStage, UploadDone, Complete,
      CompleteRefused, Announce, MarkReady, DbError, Finish, LateReport, FailAttempt,
      ProgressOnDeletedRow, UploadFile, ProcCrash, ReceiveCancel, MayDelete, ProcDown, Publish,
      Purged, ReqDone, ReqTo, Requeue, RunTo, TakeJob, Throw

\* Cancel messages come from such calls.
MessagesFixed == \A m \in cancelMsgs' : m \in cancelMsgs \/ \E r \in Reqs : req[r].pc = "publish" /\ m[2] = req[r].job

\* Only CancelPublish sends messages.
LEMMA MessagesFixedStep ==
    ASSUME WellFormed, [Next]_vars
    PROVE  MessagesFixed
<1>1. ASSUME NEW r \in Reqs, CancelPublish(r) PROVE MessagesFixed
  BY <1>1 DEF MessagesFixed, CancelPublish, ReqDone, IdleReq, workerVars
<1>2. ASSUME NEW j \in Jobs, FailWriteGone(j) PROVE MessagesFixed
  BY <1>2 DEF MessagesFixed, FailWriteGone, ProcDown
<1>3. ASSUME NEW s \in Slots, ProgressOnDeletedRow(s) PROVE MessagesFixed
  BY <1>3 DEF MessagesFixed, ProgressOnDeletedRow, ProcDown
<1>4. ASSUME NEW p \in Procs, ProcCrash(p) PROVE MessagesFixed
  BY <1>4 DEF MessagesFixed, ProcCrash, ProcDown
<1>5. ASSUME NEW p \in Procs, NEW j \in Jobs, ReceiveCancel(p, j) PROVE MessagesFixed
  BY <1>5 DEF MessagesFixed, ReceiveCancel
<1>6. CASE UNCHANGED cancelMsgs
  BY <1>6 DEF MessagesFixed
<1>7. QED
  BY ZenonT(90), <1>1, <1>2, <1>3, <1>4, <1>5, <1>6
  DEF Next, NewRequest, RequestStep, RunStep, vars, workerVars, SubmitLookup, SubmitCreate,
      CancelRead, DeleteRead, ApiCrash, SubmitEnqueue, SubmitAsset, SubmitError, CancelRemove,
      CancelUpdate, DeleteList, DeleteObjects, DeleteRow, RowGone, Claim, ClaimStalled, Promote,
      Stalled, LockLost, FailWrite, Start, StartRefused, SetToken, Download, BeginStage, AbortStage,
      TranscodeError, EndStage, EndLastStage, UploadDone, Complete, CompleteRefused, Announce,
      MarkReady, DbError, Finish, LateReport, FailAttempt, UploadFile, MayDelete, ProcDown, Publish,
      Purged, ReqDone, ReqTo, Requeue, RunTo, TakeJob, Throw

\* A message finds the token of a run of its own job, whose row it follows.
LEMMA AbandonStep == ASSUME WellFormed, AbandonOK, [Next]_vars PROVE AbandonOK'
<1>age. RowsAge
  BY RowsAgeStep
<1>msgs. \A m \in cancelMsgs : m[2] \in Jobs /\ row[m[2]].state # "none"
  BY DEF WellFormed, TypeOK, AbandonOK, MessageOK, Stopped
<1>1. TokenOK'
  BY TokenStep DEF AbandonOK
<1>2. MessageOK'
  <2>1. ASSUME NEW r \in Reqs, req[r].pc = "publish"
        PROVE  req[r].job \in Jobs /\ row[req[r].job].state # "none" /\ Stopped(req[r].job)
    BY <2>1, ReqTypes DEF AbandonOK, MessageOK, Stopped
  <2>2. ASSUME NEW m \in cancelMsgs' PROVE Stopped(m[2])'
    BY <1>age, <1>msgs, <2>1, MessagesFixedStep DEF MessagesFixed, AbandonOK, MessageOK, RowsAge
  <2>3. ASSUME NEW r \in Reqs, req'[r].pc = "publish" PROVE Stopped(req[r].job)'
    BY <1>age, <2>1, <2>3, PublishFixedStep DEF PublishFixed, RowsAge, Stopped
  <2>4. QED  BY <2>2, <2>3 DEF MessageOK, Stopped
<1>3. ASSUME NEW t \in Slots
      PROVE  /\ run'[t].cancelled => Stopped(run[t].job)'
             /\ run'[t].err = "cancelled" => row'[run'[t].job].state \notin Live
             /\ run'[t].pc = "idle" => run'[t] = IdleRun
  <2>idle. run[t].pc # "idle" => run[t].job \in Jobs /\ row[run[t].job].state # "none"
    BY DEF WellFormed, RunOK
  <2>was. /\ run[t].cancelled => Stopped(run[t].job)
          /\ run[t].err = "cancelled" => row[run[t].job].state \notin Live
    BY DEF AbandonOK, AbandonedIsEnded, Stopped
  <2>type. run[t] \in Run
    BY DEF WellFormed, TypeOK
  <2>1. CASE run'[t] = IdleRun
    BY <2>1 DEF IdleRun
  <2>2. CASE run'[t] = run[t] /\ run[t].pc # "idle"
    <3>1. PICK i \in Jobs : /\ i = run[t].job /\ i = run'[t].job /\ row[i].state # "none"
                            /\ run'[t].cancelled = run[t].cancelled /\ run'[t].err = run[t].err
                            /\ run'[t].pc # "idle"
      BY <2>2, <2>idle
    <3>2. (Stopped(i) => Stopped(i)') /\ (row[i].state \notin Live => row'[i].state \notin Live)
      BY <3>1, <1>age DEF RowsAge
    <3>3. QED  BY <3>1, <3>2, <2>was DEF Stopped
  <2>3. CASE run'[t] = run[t] /\ run[t].pc = "idle"
    <3>1. run'[t] = IdleRun
      BY <2>3 DEF AbandonOK, IdleOK
    <3>2. ~run'[t].cancelled /\ run'[t].err = "none"
      BY <3>1 DEF IdleRun
    <3>3. QED  BY <3>1, <3>2
  <2>4. CASE Taken(t)
    BY <2>4 DEF Taken
  <2>5. CASE Told(t)
    <3>1. PICK m \in cancelMsgs : activeTokens[m[1]][m[2]] = t
      BY <2>5 DEF Told
    <3>2. m[1] \in Procs /\ m[2] \in Jobs /\ t # None
      BY PipelineAssumption DEF WellFormed, TypeOK
    <3>3. run[t].job = m[2] /\ run[t].pc # "idle"
      BY <3>1, <3>2 DEF AbandonOK, TokenOK
    <3>4. run'[t].job = m[2] /\ run'[t].err = run[t].err /\ run'[t].pc # "idle"
      BY <2>5, <2>type, <3>3 DEF Told, Run
    <3>5. Stopped(m[2])'
      BY <1>msgs, <1>age DEF AbandonOK, MessageOK, RowsAge
    <3>6. QED  BY <3>3, <3>4, <3>5, <2>idle, <2>was, <1>age DEF RowsAge, Stopped
  <2>6. CASE Moves(t)
    <3>1. PICK i \in Jobs : /\ i = run[t].job /\ i = run'[t].job /\ row[i].state # "none"
                            /\ run'[t].cancelled = run[t].cancelled
      BY <2>6, <2>idle DEF Moves
    <3>2. (Stopped(i) => Stopped(i)') /\ (row[i].state \notin Live => row'[i].state \notin Live)
      BY <3>1, <1>age DEF RowsAge
    <3>3. run'[t].err = "cancelled" => row[i].state \notin Live
      BY <2>6, <3>1, <2>was DEF Moves, Stopped, Live
    <3>4. run'[t].pc # "idle"
      BY <2>6 DEF Moves
    <3>5. QED  BY <3>1, <3>2, <3>3, <3>4, <2>was DEF Stopped
  <2>7. QED  BY <2>1, <2>2, <2>3, <2>4, <2>5, <2>6, RunMovesStep DEF RunMoves
<1>4. QED  BY <1>1, <1>2, <1>3 DEF AbandonOK, AbandonedIsEnded, IdleOK, Stopped, IdleRun

-----------------------------------------------------------------------------
(* Nothing is forgotten *)

\* What a run, an error and a finished entry tell about the row.
ReachOK ==
    /\ \A s \in Slots : /\ run[s].pc \in Working => row[run[s].job].state # "QUEUED"
                        /\ run[s].pc \in Leaving => row[run[s].job].state \notin Live
                        /\ run[s].pc = "fail" => run[s].err # "none"
    /\ \A j \in Jobs : entry[j].st = "completed" => row[j].state \notin Live

\* Only a processor that returned completes an entry.
CompletesFixed == \A i \in Jobs : entry'[i].st = "completed" =>
    entry[i].st = "completed" \/ \E s \in Slots : run[s].pc = "finish" /\ run[s].job = i

\* Finish is the only action that does.
LEMMA CompletesFixedStep ==
    ASSUME WellFormed, [Next]_vars
    PROVE  CompletesFixed
<1>entry. entry \in [Jobs -> Entry]
  BY DEF WellFormed, TypeOK
<1>j. \A s \in Slots : run[s].pc # "idle" => run[s].job \in Jobs
  BY RunTypes
<1>r. \A r \in Reqs : req[r].pc \notin {"idle", "create"} => req[r].job \in Jobs
  BY ReqTypes
<1>1. ASSUME NEW r \in Reqs, SubmitEnqueue(r) PROVE CompletesFixed
  BY <1>1, <1>entry, <1>j, <1>r DEF CompletesFixed, Entry, SubmitEnqueue, ReqTo, ReqDone, Publish,
      workerVars, IdleReq
<1>2. ASSUME NEW r \in Reqs, CancelRemove(r) PROVE CompletesFixed
  BY <1>2, <1>entry, <1>j, <1>r DEF CompletesFixed, Entry, CancelRemove, ReqTo, workerVars
<1>3. ASSUME NEW s \in Slots, NEW j \in Jobs, Claim(s, j) PROVE CompletesFixed
  BY <1>3, <1>entry, <1>j, <1>r DEF CompletesFixed, Entry, Claim, TakeJob, IdleRun
<1>4. ASSUME NEW s \in Slots, NEW j \in Jobs, ClaimStalled(s, j) PROVE CompletesFixed
  BY <1>4, <1>entry, <1>j, <1>r DEF CompletesFixed, Entry, ClaimStalled, TakeJob, IdleRun
<1>5. ASSUME NEW j \in Jobs, Promote(j) PROVE CompletesFixed
  BY <1>5, <1>entry, <1>j, <1>r DEF CompletesFixed, Entry, Promote, workerVars
<1>6. ASSUME NEW j \in Jobs, Stalled(j) PROVE CompletesFixed
  BY <1>6, <1>entry, <1>j, <1>r DEF CompletesFixed, Entry, Stalled, Requeue, workerVars
<1>7. ASSUME NEW j \in Jobs, LockLost(j) PROVE CompletesFixed
  BY <1>7, <1>entry, <1>j, <1>r DEF CompletesFixed, Entry, LockLost, Requeue, workerVars
<1>8. ASSUME NEW s \in Slots, Finish(s) PROVE CompletesFixed
  BY <1>8, <1>entry, <1>j, <1>r DEF CompletesFixed, Entry, Finish, Holds
<1>9. ASSUME NEW s \in Slots, FailAttempt(s) PROVE CompletesFixed
  BY <1>9, <1>entry, <1>j, AfterFailType DEF CompletesFixed, Entry, FailAttempt
<1>10. CASE UNCHANGED entry
  BY <1>10, <1>entry, <1>j, <1>r DEF CompletesFixed
<1>11. QED
  BY ZenonT(90), <1>1, <1>2, <1>3, <1>4, <1>5, <1>6, <1>7, <1>8, <1>9, <1>10
  DEF Next, NewRequest, RequestStep, RunStep, vars, workerVars, SubmitLookup, SubmitCreate,
      CancelRead, DeleteRead, ApiCrash, SubmitAsset, SubmitError, CancelUpdate, CancelPublish,
      DeleteList, DeleteObjects, DeleteRow, RowGone, FailWrite, FailWriteGone, Start, StartRefused,
      SetToken, Download, BeginStage, AbortStage, TranscodeError, EndStage, EndLastStage,
      UploadDone, Complete, CompleteRefused, Announce, MarkReady, DbError, LateReport,
      ProgressOnDeletedRow, UploadFile, ProcCrash, ReceiveCancel, MayDelete, ProcDown, Publish,
      Purged, ReqDone, ReqTo, Requeue, RunTo, TakeJob, Throw

\* A fault counts, nothing takes it back.
LEMMA FaultsFixedStep ==
    ASSUME WellFormed, [Next]_vars
    PROVE  faults' \in {faults, faults + 1}
<1>1. ASSUME ApiCrash PROVE faults' \in {faults, faults + 1}
  BY <1>1 DEF vars, ApiCrash, IdleReq, workerVars
<1>2. ASSUME NEW j \in Jobs, LockLost(j) PROVE faults' \in {faults, faults + 1}
  BY <1>2 DEF vars, LockLost, Requeue, workerVars
<1>3. ASSUME NEW p \in Procs, ProcCrash(p) PROVE faults' \in {faults, faults + 1}
  BY <1>3 DEF vars, ProcCrash, ProcDown
<1>4. CASE UNCHANGED faults
  BY <1>4 DEF vars
<1>5. QED
  BY ZenonT(90), <1>1, <1>2, <1>3, <1>4
  DEF Next, NewRequest, RequestStep, RunStep, vars, workerVars, SubmitLookup, SubmitCreate,
      CancelRead, DeleteRead, SubmitEnqueue, SubmitAsset, SubmitError, CancelRemove, CancelUpdate,
      CancelPublish, DeleteList, DeleteObjects, DeleteRow, RowGone, Claim, ClaimStalled, Promote,
      Stalled, FailWrite, FailWriteGone, Start, StartRefused, SetToken, Download, BeginStage,
      AbortStage, TranscodeError, EndStage, EndLastStage, UploadDone, Complete, CompleteRefused,
      Announce, MarkReady, DbError, Finish, LateReport, FailAttempt, ProgressOnDeletedRow,
      UploadFile, ReceiveCancel, MayDelete, ProcDown, Publish, Purged, ReqDone, ReqTo, Requeue,
      RunTo, TakeJob, Throw

\* A row that was QUEUED is PROCESSING before a run works on the job, and it is
\* over before a run leaves.
LEMMA ReachStep == ASSUME WellFormed, ReachOK, [Next]_vars PROVE ReachOK'
<1>age. RowsAge
  BY RowsAgeStep
<1>1. ASSUME NEW t \in Slots
      PROVE  /\ run'[t].pc \in Working => row'[run'[t].job].state # "QUEUED"
             /\ run'[t].pc \in Leaving => row'[run'[t].job].state \notin Live
             /\ run'[t].pc = "fail" => run'[t].err # "none"
  <2>idle. run[t].pc # "idle" => run[t].job \in Jobs /\ row[run[t].job].state # "none"
    BY DEF WellFormed, RunOK
  <2>was. /\ run[t].pc \in Working => row[run[t].job].state # "QUEUED"
          /\ run[t].pc \in Leaving => row[run[t].job].state \notin Live
          /\ run[t].pc = "fail" => run[t].err # "none"
    BY DEF ReachOK
  <2>type. run[t] \in Run
    BY DEF WellFormed, TypeOK
  <2>1. CASE run'[t] = IdleRun
    BY <2>1 DEF IdleRun, Working, Leaving
  <2>2. CASE Taken(t)
    BY <2>2 DEF Taken, Working, Leaving
  <2>3. CASE run'[t] = run[t] \/ Told(t)
    <3>1. run'[t].pc = run[t].pc /\ run'[t].job = run[t].job /\ run'[t].err = run[t].err
      BY <2>3, <2>type DEF Told, Run
    <3>2. CASE run[t].pc = "idle"
      BY <3>1, <3>2 DEF Working, Leaving
    <3>3. CASE run[t].pc # "idle"
      <4>1. PICK i \in Jobs : i = run[t].job /\ i = run'[t].job /\ row[i].state # "none"
        BY <3>1, <3>3, <2>idle
      <4>2. QED  BY <3>1, <4>1, <2>was, <1>age DEF RowsAge
    <3>4. QED  BY <3>2, <3>3
  <2>4. CASE Moves(t)
    <3>1. PICK i \in Jobs : i = run[t].job /\ i = run'[t].job /\ row[i].state # "none"
      BY <2>4, <2>idle DEF Moves
    <3>2. run'[t].pc \in Working => row'[i].state # "QUEUED"
      BY <2>4, <3>1, <2>was, <1>age DEF Moves, RowsAge
    <3>3. row'[i].state \in Live => row'[i].state \in {"QUEUED", "PROCESSING"}
      BY DEF Live
    <3>4. run[t].pc = "complete" => row'[i].state # "QUEUED"
      BY <3>1, <2>was, <1>age DEF RowsAge, Working
    <3>5. run'[t].pc \in Leaving => row'[i].state \notin Live
      BY <2>4, <3>1, <3>3, <3>4, <2>was, <1>age DEF Moves, RowsAge, Live
    <3>6. QED  BY <2>4, <3>1, <3>2, <3>5 DEF Moves
  <2>5. QED  BY <2>1, <2>2, <2>3, <2>4, RunMovesStep DEF RunMoves
<1>2. ASSUME NEW i \in Jobs, entry'[i].st = "completed" PROVE row'[i].state \notin Live
  <2>1. CASE entry[i].st = "completed"
    <3>1. row[i].state \notin Live /\ row[i].state # "none"
      BY <2>1 DEF ReachOK, WellFormed, EntryOK
    <3>2. QED  BY <3>1, <1>age DEF RowsAge
  <2>2. CASE \E s \in Slots : run[s].pc = "finish" /\ run[s].job = i
    <3>1. row[i].state \notin Live /\ row[i].state # "none"
      BY <2>2 DEF ReachOK, WellFormed, RunOK, Leaving
    <3>2. QED  BY <3>1, <1>age DEF RowsAge
  <2>3. QED  BY <1>2, <2>1, <2>2, CompletesFixedStep DEF CompletesFixed
<1>3. QED  BY <1>1, <1>2 DEF ReachOK

\* Until a process goes down no lock is lost, and whoever holds one works on the job.
Held ==
    /\ \A j \in Jobs : entry[j].stalled = 0
    /\ \A s \in Slots : run[s].err # "stalled"
    /\ \A j \in Jobs : entry[j].st = "active" => run[entry[j].lock].pc # "idle" /\ run[entry[j].lock].job = j
    /\ \A j \in Jobs : entry[j].st = "failed" /\ row[j].state \in Live => failWrite[j] # None
HeldOK == Undisturbed => Held

\* A process that went down, and a job that was deleted, stay so.
LEMMA UndisturbedBefore == ASSUME WellFormed, [Next]_vars, Undisturbed' PROVE Undisturbed
<1>1. \A i \in Jobs : row[i].state # "deleted"
  BY RowsAgeStep DEF RowsAge, Undisturbed
<1>2. faults = 0
  BY FaultsFixedStep, Constants DEF Undisturbed, WellFormed, TypeOK
<1>3. QED  BY <1>1, <1>2 DEF Undisturbed

\* Every attempt that ends is retried, or it ends the job, or the failed handler will.
LEMMA HeldFrame ==
    ASSUME WellFormed, HeldOK, AbandonOK, ReachOK, [Next]_vars, Undisturbed'
    PROVE  Held'
<1>row. row \in [Jobs -> Row]
  BY DEF WellFormed, TypeOK
<1>run. run \in [Slots -> Run]
  BY DEF WellFormed, TypeOK
<1>entry. entry \in [Jobs -> Entry]
  BY DEF WellFormed, TypeOK
<1>failWrite. failWrite \in [Jobs -> Procs \cup {None}]
  BY DEF WellFormed, TypeOK
<1>j. \A s \in Slots : run[s].pc # "idle" => run[s].job \in Jobs
  BY RunTypes
<1>r. \A r \in Reqs : req[r].pc \notin {"idle", "create"} => req[r].job \in Jobs
  BY ReqTypes
<1>tokens. activeTokens \in [Procs -> [Jobs -> Slots \cup {None}]]
  BY DEF WellFormed, TypeOK
<1>held. Held
  BY UndisturbedBefore DEF HeldOK
<1>calm. faults' = 0 /\ faults \in Nat /\ \A i \in Jobs : row[i].state # "deleted"
  BY UndisturbedBefore, Constants DEF Undisturbed, WellFormed, TypeOK
<1>lock. \A i \in Jobs : entry[i].st = "active" => entry[i].lock \in Slots
  BY DEF WellFormed, EntryOK
<1>made. \A i \in Jobs : entry[i].st # "absent" => row[i].state # "none"
  BY DEF WellFormed, EntryOK
<1>none. None \notin Slots /\ None \notin Jobs /\ None \notin Procs
  BY PipelineAssumption
<1>1. ASSUME NEW r \in Reqs, NEW j \in Jobs, SubmitCreate(r, j) PROVE Held'
  <2>1. /\ row[j].state = "none" /\ UNCHANGED <<run, entry, failWrite>>
        /\ \A i \in Jobs : i # j => row'[i] = row[i]
    BY <1>1, <1>row DEF SubmitCreate, workerVars
  <2>2. QED  BY <2>1, <1>held, <1>made DEF Held
<1>2. ASSUME NEW r \in Reqs, SubmitEnqueue(r) PROVE Held'
  BY <1>2, <1>entry, <1>r, <1>held DEF Held, Live, Entry, Run, SubmitEnqueue, ReqTo, ReqDone,
      Publish, workerVars, IdleReq
<1>3. ASSUME NEW r \in Reqs, CancelRemove(r) PROVE Held'
  <2>1. /\ UNCHANGED <<row, run, failWrite>>
        /\ \A i \in Jobs : /\ entry'[i].stalled = entry[i].stalled /\ entry'[i].lock = entry[i].lock
                           /\ entry'[i].st \in {entry[i].st, "absent"}
    BY <1>3, <1>entry, <1>r DEF CancelRemove, ReqTo, workerVars, Entry
  <2>2. QED  BY <2>1, <1>held DEF Held
<1>4. ASSUME NEW r \in Reqs, CancelUpdate(r) PROVE Held'
  BY <1>4, <1>row, <1>r, <1>held, <1>made DEF Held, Live, Entry, Run, CancelUpdate, ReqTo,
      workerVars
<1>5. ASSUME NEW s \in Slots, NEW j \in Jobs, Claim(s, j) PROVE Held'
  BY <1>5, <1>run, <1>entry, <1>held, <1>lock DEF Held, Live, Entry, Run, Claim, TakeJob, IdleRun
<1>6. ASSUME NEW s \in Slots, NEW j \in Jobs, ClaimStalled(s, j) PROVE Held'
  BY <1>6, <1>held, Constants DEF Held, ClaimStalled
<1>7. ASSUME NEW j \in Jobs, Promote(j) PROVE Held'
  BY <1>7, <1>entry, <1>held, <1>lock DEF Held, Live, Entry, Run, Promote, workerVars
<1>8. ASSUME NEW j \in Jobs, Stalled(j) PROVE Held'
  BY <1>8, <1>held DEF Held, Live, Entry, Run, Stalled, Requeue, workerVars
<1>9. ASSUME NEW s \in Slots, Start(s) PROVE Held'
  BY <1>9, <1>row, <1>run, <1>j, <1>held, <1>lock DEF Held, Live, Entry, Run, Start, RunTo, MayStart
<1>10. ASSUME NEW s \in Slots, StartRefused(s) PROVE Held'
  BY <1>10, <1>run, <1>j, <1>held, <1>lock DEF Held, Live, Entry, Run, StartRefused, MayStart
<1>11. ASSUME NEW s \in Slots, SetToken(s) PROVE Held'
  BY <1>11, <1>run, <1>j, <1>held, <1>lock DEF Held, Live, Entry, Run, SetToken, RunTo, Publish
<1>12. ASSUME NEW s \in Slots, Download(s) PROVE Held'
  BY <1>12, <1>run, <1>j, <1>held, <1>lock DEF Held, Live, Entry, Run, Download
<1>13. ASSUME NEW s \in Slots, BeginStage(s) PROVE Held'
  BY <1>13, <1>run, <1>j, <1>held, <1>lock DEF Held, Live, Entry, Run, BeginStage, RunTo
<1>14. ASSUME NEW s \in Slots, AbortStage(s) PROVE Held'
  BY <1>14, <1>run, <1>j, <1>held, <1>lock DEF Held, Live, Entry, Run, AbortStage, Throw, ErrorOf
<1>15. ASSUME NEW s \in Slots, TranscodeError(s) PROVE Held'
  BY <1>15, <1>run, <1>j, <1>held, <1>lock DEF Held, Live, Entry, Run, TranscodeError, Throw,
      ErrorOf
<1>16. ASSUME NEW s \in Slots, EndStage(s) PROVE Held'
  BY <1>16, <1>run, <1>j, <1>held, <1>lock DEF Held, Live, Entry, Run, EndStage
<1>17. ASSUME NEW s \in Slots, EndLastStage(s) PROVE Held'
  BY <1>17, <1>run, <1>j, <1>held, <1>lock DEF Held, Live, Entry, Run, EndLastStage
<1>18. ASSUME NEW s \in Slots, NEW f \in Objects, UploadFile(s, f) PROVE Held'
  BY <1>18, <1>run, <1>j, <1>held, <1>lock DEF Held, Live, Entry, Run, UploadFile
<1>19. ASSUME NEW s \in Slots, UploadDone(s) PROVE Held'
  BY <1>19, <1>run, <1>j, <1>held, <1>lock DEF Held, Live, Entry, Run, UploadDone, RunTo
<1>20. ASSUME NEW s \in Slots, Complete(s) PROVE Held'
  BY <1>20, <1>row, <1>run, <1>j, <1>held, <1>lock DEF Held, Live, Entry, Run, Complete, RunTo,
      MayComplete
<1>21. ASSUME NEW s \in Slots, CompleteRefused(s) PROVE Held'
  BY <1>21, <1>run, <1>j, <1>held, <1>lock DEF Held, Live, Entry, Run, CompleteRefused, RunTo,
      MayComplete
<1>22. ASSUME NEW s \in Slots, Announce(s) PROVE Held'
  BY <1>22, <1>run, <1>j, <1>held, <1>lock DEF Held, Live, Entry, Run, Announce, RunTo, Publish,
      HasPlaylist
<1>23. ASSUME NEW s \in Slots, MarkReady(s) PROVE Held'
  BY <1>23, <1>run, <1>j, <1>held, <1>lock DEF Held, Live, Entry, Run, MarkReady, RunTo
<1>24. ASSUME NEW s \in Slots, DbError(s) PROVE Held'
  BY <1>24, <1>run, <1>j, <1>held, <1>lock DEF Held, Live, Entry, Run, DbError
<1>25. ASSUME NEW s \in Slots, Finish(s) PROVE Held'
  <2>1. /\ run[s].job \in Jobs /\ entry[run[s].job].st = "active" /\ entry[run[s].job].lock = s
        /\ entry'[run[s].job].st = "completed" /\ entry'[run[s].job].stalled = entry[run[s].job].stalled
        /\ \A i \in Jobs : i # run[s].job => entry'[i] = entry[i]
        /\ run'[s] = IdleRun /\ \A t \in Slots : t # s => run'[t] = run[t]
        /\ UNCHANGED <<row, failWrite>>
    BY <1>25, <1>j, <1>entry, <1>run DEF Finish, Holds, Entry
  <2>2. \A i \in Jobs : i # run[s].job /\ entry[i].st = "active" => entry[i].lock # s
    BY <1>held DEF Held
  <2>3. \A t \in Slots : run'[t].err # "stalled"
    BY <2>1, <1>held DEF Held, IdleRun
  <2>4. QED  BY <2>1, <2>2, <2>3, <1>held, <1>lock DEF Held
<1>26. ASSUME NEW s \in Slots, LateReport(s) PROVE Held'
  <2>1. /\ run[s].job \in Jobs /\ ~Holds(s) /\ UNCHANGED <<row, entry, failWrite>>
        /\ run'[s] = IdleRun /\ \A t \in Slots : t # s => run'[t] = run[t]
    BY <1>26, <1>j, <1>run DEF LateReport
  <2>2. \A i \in Jobs : entry[i].st = "active" => entry[i].lock # s
    BY <2>1, <1>held DEF Held, Holds
  <2>3. \A t \in Slots : run'[t].err # "stalled"
    BY <2>1, <1>held DEF Held, IdleRun
  <2>4. QED  BY <2>1, <2>2, <2>3, <1>held, <1>lock DEF Held
<1>27. ASSUME NEW s \in Slots, FailAttempt(s) PROVE Held'
  <2> DEFINE j == run[s].job
  <2>1. /\ j \in Jobs /\ entry[j].st = "active" /\ entry[j].lock = s
        /\ entry'[j].st = AfterFail(s) /\ entry'[j].stalled = entry[j].stalled
        /\ \A i \in Jobs : i # j => entry'[i] = entry[i] /\ failWrite'[i] = failWrite[i]
        /\ run'[s] = IdleRun /\ \A t \in Slots : t # s => run'[t] = run[t]
        /\ row' = row
    BY <1>27, <1>j, <1>entry, <1>run, <1>failWrite DEF FailAttempt, Holds, Entry
  <2>2. \A i \in Jobs : i # j /\ entry[i].st = "active" => entry[i].lock # s
    BY <1>held DEF Held
  <2>3. \A t \in Slots : run'[t].err # "stalled"
    BY <2>1, <1>held DEF Held, IdleRun
  <2>4. entry'[j].st = "failed" /\ row[j].state \in Live => failWrite'[j] # None
    <3> SUFFICES ASSUME AfterFail(s) = "failed", row[j].state \in Live PROVE failWrite'[j] # None
      BY <2>1
    <3>1. run[s].err \notin {"none", "stalled", "cancelled"}
      BY <1>27, <1>held DEF Held, ReachOK, AbandonOK, AbandonedIsEnded, FailAttempt
    <3>2. run[s].err = "error" /\ run[s].attempt \in Nat
      BY <3>1, <1>run DEF Run
    <3>3. Exhausted(s)
      BY <3>2, Constants DEF AfterFail, Retries, Exhausted
    <3>4. failWrite'[j] = ProcOf[s]
      BY <1>27, <3>2, <3>3, <2>1, <1>failWrite DEF FailAttempt
    <3>5. QED  BY <3>4, <1>none, Constants
  <2>5. AfterFail(s) # "active"
    BY AfterFailType
  <2>6. QED  BY <2>1, <2>2, <2>3, <2>4, <2>5, <1>held, <1>lock DEF Held
<1>28. ASSUME NEW j \in Jobs, FailWrite(j) PROVE Held'
  BY <1>28, <1>row, <1>failWrite, <1>held DEF Held, Live, Entry, Run, FailWrite, Publish
<1>29. ASSUME NEW p \in Procs, NEW j \in Jobs, ReceiveCancel(p, j) PROVE Held'
  BY <1>29, <1>run, <1>tokens, <1>held, <1>lock, <1>none DEF Held, Live, Entry, Run, ReceiveCancel
<1>30. ASSUME ApiCrash PROVE Held'
  BY <1>30, <1>calm DEF Held, Live, Entry, Run, ApiCrash, IdleReq, workerVars
<1>31. ASSUME NEW j \in Jobs, LockLost(j) PROVE Held'
  BY <1>31, <1>calm DEF Held, Live, Entry, Run, LockLost, Requeue, workerVars
<1>32. ASSUME NEW j \in Jobs, FailWriteGone(j) PROVE Held'
  BY <1>32, <1>calm DEF Held, Live, Entry, Run, FailWriteGone, ProcDown
<1>33. ASSUME NEW s \in Slots, ProgressOnDeletedRow(s) PROVE Held'
  BY <1>33, <1>calm, <1>j DEF Held, Live, Entry, Run, ProgressOnDeletedRow, ProcDown
<1>34. ASSUME NEW p \in Procs, ProcCrash(p) PROVE Held'
  BY <1>34, <1>calm DEF Held, Live, Entry, Run, ProcCrash, ProcDown
<1>35. ASSUME NEW r \in Reqs, DeleteRow(r) PROVE Held'
  BY <1>35, <1>row, <1>r, <1>held, <1>made DEF Held, Live, Entry, Run, DeleteRow, ReqDone, IdleReq,
      workerVars
<1>36. CASE UNCHANGED <<row, entry, run, failWrite>>
  BY <1>36, <1>held DEF Held
<1>37. QED
  BY ZenonT(90), <1>1, <1>2, <1>3, <1>4, <1>5, <1>6, <1>7, <1>8, <1>9, <1>10, <1>11, <1>12, <1>13,
      <1>14, <1>15, <1>16, <1>17, <1>18, <1>19, <1>20, <1>21, <1>22, <1>23, <1>24, <1>25, <1>26,
      <1>27, <1>28, <1>29, <1>30, <1>31, <1>32, <1>33, <1>34, <1>35, <1>36
  DEF Next, NewRequest, RequestStep, RunStep, vars, workerVars, SubmitLookup, CancelRead,
      DeleteRead, SubmitAsset, SubmitError, CancelPublish, DeleteList, DeleteObjects, RowGone,
      MayDelete, ProcDown, Publish, Purged, ReqDone, ReqTo, Requeue, RunTo, TakeJob, Throw

-----------------------------------------------------------------------------
(* The theorems *)

Safe ==
    /\ FailureOK /\ DeleteIsSafe /\ AnnounceOK /\ OutputOK /\ KeysOK
    /\ AbandonOK /\ ReachOK /\ HeldOK

\* All the inductive parts hold before anything was submitted.
LEMMA SafeInit == Init => Safe
BY PipelineAssumption
   DEF Init, Safe, FailureOK, DeleteIsSafe, AnnounceOK, CompletedOnce, OutputOK, RunsKeep, RunKeeps,
       DeletesMarked, CompletedHasOutput, PlaybackBacked, PlaybackExists, KeysOK, OneJobPerKey,
       AbandonOK, TokenOK, MessageOK, IdleOK, AbandonedIsEnded, ReachOK, Working, Leaving, HeldOK, Held,
       NoRow, NoEntry, IdleRun, IdleReq

\* And every step keeps them.
LEMMA SafeStep == WellFormed /\ Safe /\ [Next]_vars => Safe'
<1> SUFFICES ASSUME WellFormed, Safe, [Next]_vars PROVE Safe'
  OBVIOUS
<1>1. HeldOK'
  BY HeldFrame DEF Safe, HeldOK
<1>2. QED
  BY <1>1, FailureStep, DeleteStep, AnnounceStep, OutputStep, KeysStep, AbandonStep, ReachStep DEF Safe

\* Every safety property of the pipeline follows from this one invariant.
THEOREM PipelineSafe == Spec => []Safe
<1>1. Init => Safe
  BY SafeInit
<1>2. WellFormed /\ Safe /\ [Next]_vars => Safe'
  BY SafeStep
<1>3. QED  BY <1>1, <1>2, PipelineWellFormed, PTL DEF Spec

\* A job marked FAILED has used every attempt and is not queued any more
\* (the failed handler, worker.ts:111-132).
THEOREM FailedMeansExhausted == Spec => []FailedIsExhausted
<1>1. Safe => FailedIsExhausted
  BY DEF Safe, FailureOK, FailedIsExhausted
<1>2. QED  BY <1>1, PipelineSafe, PTL

\* deleteJob never removes output or row of a job in progress, although it
\* checks the state two awaits before it acts (service.ts:274-292).
THEOREM DeletesOnlyEndedJobs == Spec => []DeleteIsSafe
<1>1. Safe => DeleteIsSafe
  BY DEF Safe
<1>2. QED  BY <1>1, PipelineSafe, PTL

\* Redelivered jobs publish one COMPLETED between them (worker.ts:83-93).
THEOREM CompletionAnnouncedOnce == Spec => []CompletedOnce
<1>1. Safe => CompletedOnce
  BY DEF Safe, AnnounceOK
<1>2. QED  BY <1>1, PipelineSafe, PTL

\* A COMPLETED job has a manifest and its whole output in S3 unless its
\* deletion was asked for (worker.ts:83-92, transcode.ts:168-245).
THEOREM CompletedJobsHaveOutput == Spec => []CompletedHasOutput
<1>1. Safe => CompletedHasOutput
  BY DEF Safe, OutputOK
<1>2. QED  BY <1>1, PipelineSafe, PTL

\* A worker gives an attempt up as cancelled only if the job was cancelled, and
\* has then ended, however tokens, redelivered runs and late messages meet
\* (worker.ts:22-29, 42-44, 70-79).
THEOREM OnlyEndedJobsAreAbandoned == Spec => []AbandonedIsEnded
<1>1. Safe => AbandonedIsEnded
  BY DEF Safe, AbandonOK
<1>2. QED  BY <1>1, PipelineSafe, PTL

\* As long as no process goes down, a queued job that is not over is waiting, in
\* the hands of the slot that holds its lock, or about to be marked FAILED
\* (worker.ts:111-131); none is left that only a restart would find.
THEOREM NoJobIsStranded == Spec => []NothingStranded
<1>1. WellFormed /\ Safe => NothingStranded
  <2> SUFFICES ASSUME WellFormed, Safe, Undisturbed,
                      NEW j \in Jobs, entry[j].st # "absent", row[j].state \in Live
               PROVE  SeenTo(j)
    BY DEF NothingStranded
  <2>1. entry[j].st \in {"waiting", "delayed", "active", "completed", "failed"}
    BY DEF WellFormed, TypeOK, Entry
  <2>2. entry[j].st # "completed" /\ Held
    BY DEF Safe, ReachOK, HeldOK
  <2>3. QED  BY <2>1, <2>2 DEF Held, SeenTo
<1>2. QED  BY <1>1, PipelineSafe, PipelineWellFormed, PTL

\* An asset's playbackUrl points into a complete rendition of that asset
\* (worker.ts:97-106).
THEOREM PlaybackUrlsAreBacked == Spec => []PlaybackBacked
<1>1. Safe => PlaybackBacked
  BY DEF Safe, OutputOK
<1>2. QED  BY <1>1, PipelineSafe, PTL

\* Submits that carry one idempotency key make one job, also when they run
\* at the same time (service.ts:114-145).
THEOREM KeysNameOneJob == Spec => []OneJobPerKey
<1>1. Safe => OneJobPerKey
  BY DEF Safe, KeysOK
<1>2. QED  BY <1>1, PipelineSafe, PTL

\* Handlers, worker runs, the failed handler, crashes and redeliveries
\* together implement the abstract life cycle of a job.
THEOREM PipelineImplementsLifecycle == Spec => ImplementsLifecycle
<1>1. Init => Life!LifeInit
  BY LifeInitial
<1>2. WellFormed /\ Safe /\ [Next]_vars => [Life!LifeNext]_(Life!lifeVars)
  <2>1. LifeStep => [Life!LifeNext]_(Life!lifeVars)
    BY DEF LifeStep, Life!LifeNext, Life!lifeVars, States, Completes
  <2>2. QED  BY <2>1, LifecycleStep DEF Safe
<1>3. QED
  BY <1>1, <1>2, PipelineWellFormed, PipelineSafe, PTL
  DEF Spec, ImplementsLifecycle, Life!LifeSpec

=============================================================================
