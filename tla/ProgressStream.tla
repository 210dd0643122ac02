--------------------------- MODULE ProgressStream ---------------------------
(***************************************************************************)
(* How a dashboard follows a job: streamProgress of video-svc              *)
(* (apps/video-svc/src/service.ts) listens to the queue's events, the      *)
(* gateway bridges the stream to server-sent events                        *)
(* (apps/api-gateway/src/routes/transcode.ts), and JobsBoard               *)
(* (apps/web/components/JobsBoard.tsx) lays them over a job list that it   *)
(* polls.  One job, one board.                                             *)
(*                                                                         *)
(* The job's side keeps of TranscodePipeline what a watcher can tell: the  *)
(* state column, BullMQ's entry and the order of database writes and queue *)
(* events.  Percentages and the other jobs of the list are left out.       *)
(***************************************************************************)
EXTENDS Naturals, Sequences, FiniteSets

CONSTANTS
    Streams,     \* streamProgress calls that may be open at a time
    Polls,       \* GET /v1/jobs requests that may be in flight at a time
    MaxAttempts, \* attempts of the queue entry
    MaxEvents,   \* bound on queue events not handled yet, for progress events
    MaxFaults,   \* bound on lost connections and failed requests
    None         \* no value

ASSUME ProgressAssumption ==
    /\ MaxAttempts \in Nat \ {0}
    /\ MaxEvents \in Nat /\ MaxFaults \in Nat
    /\ None \notin Streams

VARIABLES
    row,     \* state column of the job
    entry,   \* BullMQ entry of the job
    worker,  \* the run of the job
    attempts, \* attempts begun
    faults,  \* lost connections and failed requests
    cancel,  \* the cancelJob call in flight
    events,  \* queue events that video-svc has not handled yet
    stream,  \* streamProgress calls
    listed,  \* JobsBoard: the job's state in jobs
    live,    \* JobsBoard: its state in live, the overlay
    source,  \* JobsBoard: the open EventSource
    poll     \* list requests

vars == <<row, entry, worker, attempts, faults, cancel, events, stream, listed, live, source, poll>>

jobVars   == <<row, entry, worker>>
boardVars == <<listed, live, source, poll>>

-----------------------------------------------------------------------------
(* Types *)

Active == {"QUEUED", "PROCESSING"}
Ended  == {"COMPLETED", "FAILED", "CANCELLED"}
State  == Active \cup Ended

ASSUME NoneAssumption == None \notin State

\* pc     found: the row is read, the listeners are not registered yet
\* kept   attached: the browser still has the other end
\* out    states on their way to the browser, "end" when the stream ends
Stream == [pc : {"closed", "read", "found", "open"}, row : State \cup {None},
           attached : BOOLEAN, cancelled : BOOLEAN, out : Seq(State \cup {"end"})]
NoStream == [pc |-> "closed", row |-> None, attached |-> FALSE, cancelled |-> FALSE, out |-> <<>>]

TypeOK ==
    /\ row \in State
    /\ entry \in {"waiting", "active", "finished", "removed"}
    /\ worker \in {"idle", "taken", "run", "return", "fail", "stop", "write"}
    /\ attempts \in 0..MaxAttempts /\ faults \in 0..MaxFaults
    /\ cancel \in {"idle", "remove", "update"}
    /\ events \in Seq({"progress", "completed", "failed"})
    /\ stream \in [Streams -> Stream]
    /\ listed \in State \cup {None}
    /\ live \in State \cup {None}
    /\ source \in Streams \cup {None}
    /\ poll \in [Polls -> {"idle", "asked"} \cup State]

Fault == faults < MaxFaults /\ faults' = faults + 1
Emit(e) == events' = Append(events, e)

-----------------------------------------------------------------------------
(* The job *)

Take ==
    /\ entry = "waiting" /\ worker = "idle"
    /\ attempts' = attempts + 1 /\ UNCHANGED faults
    /\ entry' = "active" /\ worker' = "taken"
    /\ UNCHANGED <<row, cancel, events, stream, boardVars>>

MayStart_Any == TRUE  \* mutant: the update is not guarded by the state
MayStart == row \in Active

Start ==
    /\ worker = "taken"
    /\ IF MayStart THEN row' = "PROCESSING" /\ worker' = "run"
                   ELSE worker' = "stop" /\ UNCHANGED row
    /\ UNCHANGED <<entry, attempts, faults, cancel, events, stream, boardVars>>

Progress ==
    /\ worker = "run"
    /\ Len(events) < MaxEvents
    /\ Emit("progress")
    /\ UNCHANGED <<jobVars, attempts, faults, cancel, stream, boardVars>>

\* The row is written first, the queue learns of it later, and the asset's
\* row between the two may fail the attempt.  A job cancelled in the last
\* instant returns its result all the same.
Complete ==
    /\ worker = "run"
    /\ row' = IF row = "PROCESSING" THEN "COMPLETED" ELSE row
    /\ worker' \in IF row = "PROCESSING" THEN {"return", "fail"} ELSE {"return"}
    /\ UNCHANGED <<entry, attempts, faults, cancel, events, stream, boardVars>>

Returned ==
    /\ worker = "return"
    /\ entry' = "finished" /\ worker' = "idle"
    /\ Emit("completed")
    /\ UNCHANGED <<row, attempts, faults, cancel, stream, boardVars>>

\* ffmpeg, S3 or the database fails, or the cancel message killed ffmpeg.
RunFails(cancelled) ==
    /\ worker = "run"
    /\ cancelled => row = "CANCELLED"
    /\ worker' = IF cancelled THEN "stop" ELSE "fail"
    /\ UNCHANGED <<row, entry, attempts, faults, cancel, events, stream, boardVars>>

Retries_OnceMore == attempts <= MaxAttempts  \* mutant: off by one
Retries == attempts < MaxAttempts

\* video-svc takes a "failed" event for the end of the job, jobs-svc
\* (service.ts:157-163) says that it comes with every failed attempt: here a
\* failure with attempts left may come with one or without.
AttemptFails(told) ==
    /\ worker = "fail" /\ Retries
    /\ entry' = "waiting" /\ worker' = "idle"
    /\ IF told THEN Emit("failed") ELSE UNCHANGED events
    /\ UNCHANGED <<row, attempts, faults, cancel, stream, boardVars>>

Stopped ==
    /\ worker = "stop" \/ (worker = "fail" /\ ~Retries)
    /\ entry' = "finished"
    /\ worker' = IF worker = "stop" THEN "idle" ELSE "write"
    /\ Emit("failed")
    /\ UNCHANGED <<row, attempts, faults, cancel, stream, boardVars>>

\* The failed handler writes its row after the queue event went out.
FailWrite ==
    /\ worker = "write"
    /\ row' = "FAILED" /\ worker' = "idle"
    /\ UNCHANGED <<entry, attempts, faults, cancel, events, stream, boardVars>>

CancelRead ==
    /\ cancel = "idle" /\ row \in Active
    /\ cancel' = "remove"
    /\ UNCHANGED <<jobVars, attempts, faults, events, stream, boardVars>>

\* An entry that a worker holds cannot be removed; a removed one ends
\* without any event streamProgress listens to.  A failure is swallowed.
CancelRemove ==
    /\ cancel = "remove"
    /\ \/ entry = "waiting" /\ entry' = "removed"
       \/ UNCHANGED entry
    /\ cancel' = "update"
    /\ UNCHANGED <<row, worker, attempts, faults, events, stream, boardVars>>

CancelUpdate ==
    /\ cancel = "update"
    /\ row' = "CANCELLED" /\ cancel' = "idle"
    /\ UNCHANGED <<entry, worker, attempts, faults, events, stream, boardVars>>

-----------------------------------------------------------------------------
(* streamProgress *)

StreamFind(s) ==
    /\ stream[s].pc = "read"
    /\ stream' = [stream EXCEPT ![s].pc = "found", ![s].row = row]
    /\ UNCHANGED <<jobVars, attempts, faults, cancel, events, boardVars>>

\* What is written to a stream nobody reads is gone.  Without percentages a
\* state sent twice in a row is the state sent once.
Sent(st, states) ==
    LET repeated == st.out # <<>> /\ states = <<st.out[Len(st.out)]>> IN
    IF st.attached /\ ~repeated THEN [st EXCEPT !.out = @ \o states] ELSE st

Closed(st) == [st EXCEPT !.pc = "closed", !.row = None, !.cancelled = FALSE]

\* A job that had ended when it was read is reported and the stream closed,
\* otherwise the listeners are registered and the state that was read is sent.
StreamSubscribe(s) ==
    LET st == stream[s] IN
    /\ st.pc = "found"
    /\ stream' = [stream EXCEPT ![s] =
                    IF st.row \in Ended THEN Closed(Sent(st, <<st.row, "end">>))
                    ELSE [Sent(st, <<st.row>>) EXCEPT !.pc = "open", !.row = None]]
    /\ UNCHANGED <<jobVars, attempts, faults, cancel, events, boardVars>>

AfterTerminal_Listens(st) == st  \* mutant: end without cleanup
AfterTerminal(st) == Closed(st)

\* What an open stream does with a queue event.
Heard(st, e) ==
    CASE e = "progress"  -> Sent(st, <<"PROCESSING">>)
      [] e = "completed" -> AfterTerminal(Sent(st, <<"COMPLETED", "end">>))
      [] e = "failed"    -> AfterTerminal(Sent(st, <<"FAILED", "end">>))

HandleEvent ==
    /\ events # <<>>
    /\ events' = Tail(events)
    /\ stream' = [s \in Streams |-> IF stream[s].pc = "open" THEN Heard(stream[s], Head(events))
                                    ELSE stream[s]]
    /\ UNCHANGED <<jobVars, attempts, faults, cancel, boardVars>>

\* The gateway cancels the call once the browser has gone.  A call that is
\* still reading the row has no handler for it yet and goes on.
StreamCancelled(s) ==
    LET st == stream[s] IN
    /\ ~st.attached /\ ~st.cancelled /\ st.pc # "closed"
    /\ stream' = [stream EXCEPT ![s] = IF st.pc = "open" THEN Closed(st)
                                       ELSE [st EXCEPT !.cancelled = TRUE]]
    /\ UNCHANGED <<jobVars, attempts, faults, cancel, events, boardVars>>

-----------------------------------------------------------------------------
(* JobsBoard *)

Idle(q) == poll[q] = "idle"
Ask(q)  == poll' = [poll EXCEPT ![q] = "asked"]

\* Every two seconds while a listed job is active.  Refreshes that a person
\* or another panel asks for are among these as long as it is.
Polling_WithoutSource == listed \in Active /\ source = None  \* mutant: trust the stream
Polling == listed \in Active

\* The server reads the row for a request; when the request was sent makes
\* no difference.
PollRead(q) ==
    /\ poll[q] = "asked" \/ (Idle(q) /\ Polling)
    /\ poll' = [poll EXCEPT ![q] = row]
    /\ UNCHANGED <<jobVars, attempts, faults, cancel, events, stream, listed, live, source>>

Detached(st) == [st EXCEPT !.attached = FALSE, !.out = <<>>]

Free(s) == stream[s].pc = "closed"

\* Answers come in any order and the last one is listed; a job listed as
\* active without an EventSource gets one, as far as Streams allows.
PollAnswer(q) ==
    /\ poll[q] \in State
    /\ listed' = poll[q]
    /\ poll' = [poll EXCEPT ![q] = "idle"]
    /\ IF poll[q] \in Active /\ source = None /\ \E s \in Streams : Free(s)
       THEN \E s \in Streams :
              /\ Free(s)
              /\ stream' = [stream EXCEPT ![s] = [NoStream EXCEPT !.pc = "read", !.attached = TRUE]]
              /\ source' = s
       ELSE UNCHANGED <<stream, source>>
    /\ UNCHANGED <<jobVars, attempts, faults, cancel, events, live>>

PollFails(q) ==
    /\ ~Idle(q)
    /\ Fault
    /\ poll' = [poll EXCEPT ![q] = "idle"]
    /\ UNCHANGED <<jobVars, attempts, cancel, events, stream, listed, live, source>>

\* onmessage: the event goes to the overlay; a terminal one closes the
\* EventSource and refreshes the list (when a request slot is free, the
\* bound of the model).
Message ==
    LET state == Head(stream[source].out) IN
    /\ source # None
    /\ stream[source].out # <<>> /\ state \in State
    /\ live' = state
    /\ IF state \in Ended
       THEN /\ stream' = [stream EXCEPT ![source] = Detached(@)]
            /\ source' = None
            /\ \E q \in Polls : Idle(q) /\ Ask(q)
       ELSE /\ stream' = [stream EXCEPT ![source].out = Tail(@)]
            /\ UNCHANGED <<source, poll>>
    /\ UNCHANGED <<jobVars, attempts, faults, cancel, events, listed>>

\* onerror: the connection is lost (a network failure, a draining gateway).
\* A stream that has ended was closed by its terminal event before.
Disconnect ==
    /\ source # None
    /\ Fault
    /\ stream' = [stream EXCEPT ![source] = Detached(@)]
    /\ source' = None
    /\ UNCHANGED <<jobVars, attempts, cancel, events, listed, live, poll>>

-----------------------------------------------------------------------------
(* Specification *)

Init ==
    /\ row = "QUEUED" /\ entry = "waiting" /\ worker = "idle"
    /\ attempts = 0 /\ faults = 0
    /\ cancel = "idle" /\ events = <<>>
    /\ stream = [s \in Streams |-> NoStream]
    /\ listed = None /\ live = None /\ source = None
    /\ \E q \in Polls : poll = [p \in Polls |-> IF p = q THEN "asked" ELSE "idle"]  \* on mount

JobStep ==
    \/ Take \/ Start \/ Complete \/ Returned \/ Stopped \/ FailWrite
    \/ \E b \in BOOLEAN : RunFails(b) \/ AttemptFails(b)

PollStep(q) == PollRead(q) \/ PollAnswer(q)
CancelStep == CancelRemove \/ CancelUpdate
StreamStep(s) == StreamFind(s) \/ StreamSubscribe(s) \/ StreamCancelled(s)

Next ==
    \/ JobStep \/ Progress
    \/ CancelRead \/ CancelStep
    \/ HandleEvent \/ \E s \in Streams : StreamStep(s)
    \/ \E q \in Polls : PollStep(q) \/ PollFails(q)
    \/ Message \/ Disconnect

\* The worker, Node's continuations, Redis's events, the browser's timer and
\* its requests go on; cancelling is people's, and connections need not fail.
Fairness ==
    /\ WF_vars(JobStep) /\ WF_vars(CancelStep) /\ WF_vars(HandleEvent)
    /\ \A s \in Streams : WF_vars(StreamStep(s))
    /\ \A q \in Polls : WF_vars(PollStep(q))
    /\ SF_vars(Message)

Spec     == Init /\ [][Next]_vars
FairSpec == Spec /\ Fairness

Displayed == IF live # None THEN live ELSE listed

-----------------------------------------------------------------------------
(* Properties *)

\* streamProgress writes one terminal event and ends the call, whatever else
\* the queue says of the job afterwards (service.ts:223-239).
EndsOnce ==
    \A s \in Streams : LET out == stream[s].out IN
        \A i \in DOMAIN out :
            /\ out[i] = "end" => i = Len(out)
            /\ out[i] \in Ended => i + 1 = Len(out) /\ out[i + 1] = "end"

\* A job the board knows to be over never runs again, whether the list, a stream
\* or a late answer said so: polling stops for good once every listed job has
\* ended (JobsBoard.tsx:207-211).  A stream's FAILED is excepted: the queue's
\* event comes before the row is written, and may come with attempts left
\* (service.ts:229-234).
EndLasts ==
    listed \in Ended \/ live \in Ended \ {"FAILED"} => row \in Ended

\* However the answers overtake each other and whatever the stream misses,
\* a list that had the job ends up with it ended: polling goes on while it
\* does not (JobsBoard.tsx:205-211).
ListEnds == <>[](row \in Ended) => <>[](listed \notin Active)

\* "Polling fallback while any job is active: SSE can miss the terminal event
\* if the job finishes during subscription setup." (JobsBoard.tsx:205-206):
\* an ended job is displayed as ended.
DisplayEnds == <>[](row \in Ended) => <>[](Displayed \notin Active)

=============================================================================
