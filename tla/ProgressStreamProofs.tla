------------------------- MODULE ProgressStreamProofs -------------------------
(***************************************************************************)
(* Type correctness of ProgressStream, EndsOnce and EndLasts, proved for   *)
(* any number of streams, requests, attempts, events and faults: a stream  *)
(* that is still written to has sent no terminal state, and while the row  *)
(* is active nothing on the way to the board says that the job is over.    *)
(***************************************************************************)
EXTENDS ProgressStream, TLAPS, SequenceTheorems

Out == State \cup {"end"}

\* What a browser may find: a terminal state only before the end, at the end.
EndsWell(out) == \A i \in 1..Len(out) :
    /\ out[i] = "end" => i = Len(out)
    /\ out[i] \in Ended => i + 1 = Len(out) /\ out[i + 1] = "end"

Unended(out) == \A i \in 1..Len(out) : out[i] \in Active

StreamOK(st) ==
    /\ st.pc = "found" => st.row \in State
    /\ EndsWell(st.out)
    /\ st.pc # "closed" => Unended(st.out)

JobTyped ==
    /\ row \in State
    /\ entry \in {"waiting", "active", "finished", "removed"}
    /\ worker \in {"idle", "taken", "run", "return", "fail", "stop", "write"}
    /\ attempts \in 0..MaxAttempts
    /\ cancel \in {"idle", "remove", "update"}
    /\ events \in Seq({"progress", "completed", "failed"})
    /\ entry = "waiting" => attempts < MaxAttempts

StreamsOK == stream \in [Streams -> Stream] /\ \A s \in Streams : StreamOK(stream[s])

BoardTyped ==
    /\ listed \in State \cup {None}
    /\ live \in State \cup {None}
    /\ source \in Streams \cup {None}
    /\ poll \in [Polls -> {"idle", "asked"} \cup State]

StreamInv == JobTyped /\ faults \in 0..MaxFaults /\ StreamsOK /\ BoardTyped

-----------------------------------------------------------------------------
(* One stream *)

LEMMA States ==
    /\ \A x \in State : x \in Active \/ x \in Ended
    /\ Active \subseteq State /\ Ended \subseteq State
    /\ \A x \in Active : x \notin Ended /\ x # "end"
    /\ \A x \in Ended : x # "end"
    /\ {"QUEUED", "PROCESSING"} \subseteq Active /\ {"COMPLETED", "FAILED", "CANCELLED"} \subseteq Ended
    /\ "idle" \notin State /\ "asked" \notin State
BY DEF State, Active, Ended

LEMMA StreamFields ==
    ASSUME NEW st \in Stream
    PROVE  /\ st.pc \in {"closed", "read", "found", "open"} /\ st.row \in State \cup {None}
           /\ st.attached \in BOOLEAN /\ st.cancelled \in BOOLEAN /\ st.out \in Seq(Out) /\ Len(st.out) \in Nat
BY DEF Stream, Out

\* Parts of a stream are written.
LEMMA StreamWritten ==
    ASSUME NEW st \in Stream, NEW pc \in {"closed", "read", "found", "open"}, NEW r \in State \cup {None},
           NEW attached \in BOOLEAN, NEW cancelled \in BOOLEAN, NEW out \in Seq(Out), NEW t,
           t = [st EXCEPT !.pc = pc, !.row = r, !.attached = attached, !.cancelled = cancelled, !.out = out]
    PROVE  t \in Stream /\ t.pc = pc /\ t.row = r /\ t.attached = attached /\ t.cancelled = cancelled /\ t.out = out
BY DEF Stream, Out

LEMMA UnendedEndsWell == ASSUME NEW out, Unended(out) PROVE EndsWell(out)
BY States DEF Unended, EndsWell

LEMMA EmptyUnended == Unended(<<>>) /\ <<>> \in Seq(Out)
BY DEF Unended

\* An active state, or a terminal one and the end, is sent.
LEMMA SentActive ==
    ASSUME NEW st \in Stream, Unended(st.out), NEW x \in Active
    PROVE  /\ Sent(st, <<x>>) \in Stream
           /\ Sent(st, <<x>>).pc = st.pc /\ Sent(st, <<x>>).row = st.row /\ Unended(Sent(st, <<x>>).out)
<1>1. st.out \in Seq(Out) /\ <<x>> \in Seq(Out) /\ Len(<<x>>) = 1 /\ <<x>>[1] = x
  BY StreamFields, States DEF Out
<1>2. PICK out \in Seq(Out) : out = st.out \o <<x>> /\ Unended(out)
  <2>1. /\ st.out \o <<x>> \in Seq(Out) /\ Len(st.out \o <<x>>) = Len(st.out) + 1
        /\ \A i \in 1..Len(st.out) + 1 :
             (st.out \o <<x>>)[i] = IF i <= Len(st.out) THEN st.out[i] ELSE <<x>>[i - Len(st.out)]
    BY <1>1, ConcatProperties
  <2>2. Len(st.out) \in Nat
    BY StreamFields
  <2>3. Unended(st.out \o <<x>>)
    <3> SUFFICES ASSUME NEW i \in 1..Len(st.out) + 1 PROVE (st.out \o <<x>>)[i] \in Active
      BY <2>1 DEF Unended
    <3>1. CASE i <= Len(st.out)
      <4>1. i \in 1..Len(st.out)
        BY <2>2, <3>1
      <4>2. QED  BY <2>1, <3>1, <4>1 DEF Unended
    <3>2. CASE ~(i <= Len(st.out))
      <4>1. i - Len(st.out) = 1
        BY <2>2, <3>2
      <4>2. QED  BY <1>1, <2>1, <3>2, <4>1
    <3>3. QED  BY <3>1, <3>2
  <2>4. QED  BY <2>1, <2>3
<1>3. PICK t : t = [st EXCEPT !.out = out]
  OBVIOUS
<1>4. t \in Stream /\ t.pc = st.pc /\ t.row = st.row /\ t.out = out
  BY <1>3 DEF Stream, Out
<1>5. Sent(st, <<x>>) \in {st, t}
  BY <1>2, <1>3 DEF Sent
<1>6. QED  BY <1>2, <1>4, <1>5

LEMMA SentTerminal ==
    ASSUME NEW st \in Stream, Unended(st.out), NEW x \in Ended
    PROVE  /\ Sent(st, <<x, "end">>) \in Stream /\ EndsWell(Sent(st, <<x, "end">>).out)
<1>1. st.out \in Seq(Out) /\ <<x, "end">> \in Seq(Out)
      /\ Len(<<x, "end">>) = 2 /\ <<x, "end">>[1] = x /\ <<x, "end">>[2] = "end"
  BY StreamFields, States DEF Out
<1>2. PICK out \in Seq(Out) : out = st.out \o <<x, "end">> /\ EndsWell(out)
  <2> DEFINE n == Len(st.out)
             o == st.out \o <<x, "end">>
  <2>1. /\ o \in Seq(Out) /\ Len(o) = n + 2
        /\ \A i \in 1..n + 2 : o[i] = IF i <= n THEN st.out[i] ELSE <<x, "end">>[i - n]
    BY <1>1, ConcatProperties
  <2>2. n \in Nat
    BY StreamFields
  <2>3. \A i \in 1..n : o[i] \in Active
    BY <2>1, <2>2 DEF Unended
  <2>4. o[n + 1] = x /\ o[n + 2] = "end"
    <3>1. n + 1 \in 1..n + 2 /\ n + 2 \in 1..n + 2 /\ ~(n + 1 <= n) /\ ~(n + 2 <= n) /\ (n + 1) - n = 1 /\ (n + 2) - n = 2
      BY <2>2
    <3>2. QED  BY <1>1, <2>1, <3>1
  <2>5. \A i \in 1..n + 2 : i \in 1..n \/ i = n + 1 \/ i = n + 2
    BY <2>2
  <2> HIDE DEF n, o
  <2>6. EndsWell(o)
    BY <2>1, <2>2, <2>3, <2>4, <2>5, States DEF EndsWell
  <2>7. QED  BY <2>1, <2>6 DEF o
<1>3. PICK t : t = [st EXCEPT !.out = out]
  OBVIOUS
<1>4. t \in Stream /\ t.out = out
  BY <1>3 DEF Stream, Out
<1>5. Sent(st, <<x, "end">>) \in {st, t}
  BY <1>2, <1>3 DEF Sent
<1>6. QED  BY <1>2, <1>4, <1>5, UnendedEndsWell

LEMMA ClosedOK ==
    ASSUME NEW st \in Stream, EndsWell(st.out)
    PROVE  Closed(st) \in Stream /\ StreamOK(Closed(st))
<1>1. PICK t : t = [st EXCEPT !.pc = "closed", !.row = None, !.cancelled = FALSE]
  OBVIOUS
<1>2. t \in Stream /\ t.pc = "closed" /\ t.out = st.out
  BY <1>1 DEF Stream
<1>3. QED  BY <1>1, <1>2 DEF Closed, StreamOK

LEMMA DetachedOK ==
    ASSUME NEW st \in Stream, StreamOK(st)
    PROVE  Detached(st) \in Stream /\ StreamOK(Detached(st))
<1>1. PICK e \in Seq(Out) : e = <<>> /\ Unended(e) /\ EndsWell(e)
  BY EmptyUnended, UnendedEndsWell
<1>2. PICK t : t = [st EXCEPT !.attached = FALSE, !.out = e]
  OBVIOUS
<1>3. t \in Stream /\ t.pc = st.pc /\ t.row = st.row /\ t.out = e
  BY <1>2 DEF Stream, Out
<1>4. QED  BY <1>1, <1>2, <1>3 DEF Detached, StreamOK

LEMMA HeardOK ==
    ASSUME NEW st \in Stream, StreamOK(st), st.pc = "open", NEW e \in {"progress", "completed", "failed"}
    PROVE  Heard(st, e) \in Stream /\ StreamOK(Heard(st, e))
<1>1. Unended(st.out)
  BY DEF StreamOK
<1>2. CASE e = "progress"
  <2>1. "PROCESSING" \in Active
    BY DEF Active
  <2>2. Heard(st, e) = Sent(st, <<"PROCESSING">>)
    BY <1>2 DEF Heard
  <2>3. QED  BY <1>1, <2>1, <2>2, SentActive, UnendedEndsWell DEF StreamOK
<1>3. ASSUME NEW x \in Ended, Heard(st, e) = AfterTerminal(Sent(st, <<x, "end">>))
      PROVE  Heard(st, e) \in Stream /\ StreamOK(Heard(st, e))
  BY <1>1, <1>3, SentTerminal, ClosedOK DEF AfterTerminal
<1>4. CASE e = "completed"
  <2>1. "COMPLETED" \in Ended /\ Heard(st, e) = AfterTerminal(Sent(st, <<"COMPLETED", "end">>))
    BY <1>4 DEF Heard, Ended
  <2>2. QED  BY <1>3, <2>1
<1>5. CASE e = "failed"
  <2>1. "FAILED" \in Ended /\ Heard(st, e) = AfterTerminal(Sent(st, <<"FAILED", "end">>))
    BY <1>5 DEF Heard, Ended
  <2>2. QED  BY <1>3, <2>1
<1>6. QED  BY <1>2, <1>4, <1>5

\* One stream is written.
LEMMA OneStream ==
    ASSUME StreamsOK, NEW s \in Streams, NEW t \in Stream, StreamOK(t), stream' = [stream EXCEPT ![s] = t]
    PROVE  StreamsOK'
<1>1. stream' \in [Streams -> Stream]
  BY DEF StreamsOK
<1>2. \A r \in Streams : stream'[r] = t \/ stream'[r] = stream[r]
  BY DEF StreamsOK
<1>3. QED  BY <1>1, <1>2 DEF StreamsOK

-----------------------------------------------------------------------------
(* The invariant *)

LEMMA StreamInit == Init => StreamInv
<1> SUFFICES ASSUME Init PROVE StreamInv
  OBVIOUS
<1>1. JobTyped /\ faults \in 0..MaxFaults
  BY ProgressAssumption, States DEF Init, JobTyped, State, Active
<1>2. PICK t : t = NoStream
  OBVIOUS
<1>3. PICK e \in Seq(Out) : e = <<>> /\ Unended(e) /\ EndsWell(e)
  BY EmptyUnended, UnendedEndsWell
<1>4. t \in Stream /\ t.pc = "closed" /\ t.out = e
  BY <1>2, <1>3 DEF NoStream, Stream, Out
<1>5. StreamsOK
  <2>1. stream = [s \in Streams |-> t]
    BY <1>2 DEF Init
  <2>2. StreamOK(t)
    BY <1>3, <1>4 DEF StreamOK
  <2>3. QED  BY <1>4, <2>1, <2>2 DEF StreamsOK
<1>6. BoardTyped
  BY DEF Init, BoardTyped
<1>7. QED  BY <1>1, <1>5, <1>6 DEF StreamInv

LEMMA StreamStepOK == ASSUME StreamInv, [Next]_vars PROVE StreamInv'
<1>inv. JobTyped /\ faults \in 0..MaxFaults /\ StreamsOK /\ BoardTyped
  BY DEF StreamInv
<1>max. MaxAttempts \in Nat /\ MaxFaults \in Nat /\ None \notin Streams
  BY ProgressAssumption
<1>states. "PROCESSING" \in State /\ "COMPLETED" \in State /\ "FAILED" \in State /\ "CANCELLED" \in State
  BY DEF State, Active, Ended
<1>streams. ASSUME UNCHANGED stream PROVE StreamsOK'
  BY <1>inv, <1>streams DEF StreamsOK
<1>board. ASSUME UNCHANGED <<listed, live, source, poll>> PROVE BoardTyped'
  BY <1>inv, <1>board DEF BoardTyped
<1>job. ASSUME UNCHANGED <<row, entry, worker, attempts, cancel, events>> PROVE JobTyped'
  BY <1>inv, <1>job DEF JobTyped
<1>fault. ASSUME Fault PROVE faults' \in 0..MaxFaults
  BY <1>inv, <1>max, <1>fault DEF Fault
<1>one. ASSUME NEW s \in Streams PROVE stream[s] \in Stream /\ StreamOK(stream[s])
  BY <1>inv DEF StreamsOK
<1>1. ASSUME JobStep \/ Progress \/ CancelRead \/ CancelStep PROVE StreamInv'
  <2>1. UNCHANGED <<faults, stream, listed, live, source, poll>>
    BY <1>1 DEF JobStep, Take, Start, Complete, Returned, Stopped, FailWrite, RunFails, AttemptFails, Progress,
                CancelRead, CancelStep, CancelRemove, CancelUpdate, boardVars
  <2>2. /\ row' \in State
        /\ entry' \in {"waiting", "active", "finished", "removed"}
        /\ worker' \in {"idle", "taken", "run", "return", "fail", "stop", "write"}
        /\ cancel' \in {"idle", "remove", "update"}
    BY <1>inv, <1>states, <1>1 DEF JobTyped, JobStep, Take, Start, Complete, Returned, Stopped, FailWrite, RunFails,
                AttemptFails, Progress, CancelRead, CancelStep, CancelRemove, CancelUpdate, jobVars
  <2>3. attempts' \in 0..MaxAttempts /\ (entry' = "waiting" => attempts' < MaxAttempts)
    <3>1. CASE Take
      BY <1>inv, <1>max, <3>1 DEF Take, JobTyped
    <3>2. CASE ~Take
      BY <1>inv, <1>max, <1>1, <3>2 DEF JobTyped, JobStep, Start, Complete, Returned, Stopped, FailWrite, RunFails,
                AttemptFails, Retries, Progress, CancelRead, CancelStep, CancelRemove, CancelUpdate, jobVars
    <3>3. QED  BY <3>1, <3>2
  <2>4. events' = events \/ \E x \in {"progress", "completed", "failed"} : events' = Append(events, x)
    BY <1>1 DEF JobStep, Take, Start, Complete, Returned, Stopped, FailWrite, RunFails, AttemptFails, Emit, Progress,
                CancelRead, CancelStep, CancelRemove, CancelUpdate
  <2>5. events' \in Seq({"progress", "completed", "failed"})
    BY <1>inv, <2>4 DEF JobTyped
  <2>6. QED  BY <1>inv, <1>streams, <1>board, <2>1, <2>2, <2>3, <2>5 DEF StreamInv, JobTyped
<1>2. ASSUME NEW s \in Streams, StreamFind(s) PROVE StreamInv'
  <2>1. PICK t : t = [stream[s] EXCEPT !.pc = "found", !.row = row]
    OBVIOUS
  <2>2. row \in State
    BY <1>inv DEF JobTyped
  <2>3. t \in Stream /\ t.pc = "found" /\ t.row = row /\ t.out = stream[s].out
    BY <1>one, <2>1, <2>2 DEF Stream
  <2>4. stream' = [stream EXCEPT ![s] = t]
    BY <1>inv, <1>2, <2>1 DEF StreamFind, StreamsOK
  <2>5. StreamOK(t)
    BY <1>one, <1>2, <2>2, <2>3 DEF StreamFind, StreamOK
  <2>6. StreamsOK'
    BY <1>inv, <2>3, <2>4, <2>5, OneStream
  <2>7. QED  BY <1>inv, <1>job, <1>board, <1>2, <2>6 DEF StreamFind, StreamInv, jobVars, boardVars
<1>3. ASSUME NEW s \in Streams, StreamSubscribe(s) PROVE StreamInv'
  <2> DEFINE st == stream[s]
  <2>1. st \in Stream /\ st.row \in State /\ Unended(st.out)
    BY <1>one, <1>3 DEF StreamSubscribe, StreamOK
  <2>2. CASE st.row \in Ended
    <3>1. stream' = [stream EXCEPT ![s] = Closed(Sent(st, <<st.row, "end">>))]
      BY <1>3, <2>2 DEF StreamSubscribe
    <3>2. Closed(Sent(st, <<st.row, "end">>)) \in Stream /\ StreamOK(Closed(Sent(st, <<st.row, "end">>)))
      BY <2>1, <2>2, SentTerminal, ClosedOK
    <3>3. QED  BY <1>inv, <3>1, <3>2, OneStream, <1>job, <1>board, <1>3 DEF StreamSubscribe, StreamInv, jobVars, boardVars
  <2>3. CASE st.row \notin Ended
    <3>1. PICK u : u = Sent(st, <<st.row>>)
      OBVIOUS
    <3>2. u \in Stream /\ Unended(u.out)
      BY <2>1, <2>3, <3>1, SentActive, States
    <3>3. PICK t : t = [u EXCEPT !.pc = "open", !.row = None]
      OBVIOUS
    <3>4. t \in Stream /\ t.pc = "open" /\ t.out = u.out
      BY <3>2, <3>3 DEF Stream
    <3>5. StreamOK(t)
      BY <3>2, <3>4, UnendedEndsWell DEF StreamOK
    <3>6. stream' = [stream EXCEPT ![s] = t]
      BY <1>3, <2>3, <3>1, <3>3 DEF StreamSubscribe
    <3>7. StreamsOK'
      BY <1>inv, <3>4, <3>5, <3>6, OneStream
    <3>8. QED  BY <1>inv, <3>7, <1>job, <1>board, <1>3 DEF StreamSubscribe, StreamInv, jobVars, boardVars
  <2>4. QED  BY <2>2, <2>3
<1>4. CASE HandleEvent
  <2>1. /\ events # <<>> /\ events' = Tail(events)
        /\ stream' = [s \in Streams |-> IF stream[s].pc = "open" THEN Heard(stream[s], Head(events)) ELSE stream[s]]
        /\ UNCHANGED <<row, entry, worker, attempts, faults, cancel, listed, live, source, poll>>
    BY <1>4 DEF HandleEvent, jobVars, boardVars
  <2>2. Head(events) \in {"progress", "completed", "failed"} /\ events' \in Seq({"progress", "completed", "failed"})
    BY <1>inv, <2>1, HeadTailProperties DEF JobTyped
  <2>3. ASSUME NEW s \in Streams PROVE stream'[s] \in Stream /\ StreamOK(stream'[s])
    <3>1. CASE stream[s].pc = "open"
      <4>1. stream'[s] = Heard(stream[s], Head(events))
        BY <2>1, <3>1
      <4>2. QED  BY <1>one, <2>2, <3>1, <4>1, HeardOK
    <3>2. CASE stream[s].pc # "open"
      <4>1. stream'[s] = stream[s]
        BY <2>1, <3>2
      <4>2. QED  BY <1>one, <4>1
    <3>3. QED  BY <3>1, <3>2
  <2>4. stream' \in [Streams -> Stream]
    BY <2>1, <2>3
  <2>5. StreamsOK'
    BY <2>3, <2>4 DEF StreamsOK
  <2>6. JobTyped'
    BY <1>inv, <2>1, <2>2 DEF JobTyped
  <2>7. QED  BY <1>inv, <1>board, <2>1, <2>5, <2>6 DEF StreamInv
<1>5. ASSUME NEW s \in Streams, StreamCancelled(s) PROVE StreamInv'
  <2>1. PICK u : u = [stream[s] EXCEPT !.cancelled = TRUE]
    OBVIOUS
  <2>2. u \in Stream /\ u.pc = stream[s].pc /\ u.row = stream[s].row /\ u.out = stream[s].out
    BY <1>one, <2>1 DEF Stream
  <2>3. StreamOK(u)
    BY <1>one, <2>2 DEF StreamOK
  <2>4. Closed(stream[s]) \in Stream /\ StreamOK(Closed(stream[s]))
    BY <1>one, ClosedOK DEF StreamOK
  <2>5. stream' = [stream EXCEPT ![s] = Closed(stream[s])] \/ stream' = [stream EXCEPT ![s] = u]
    BY <1>inv, <1>5, <2>1 DEF StreamCancelled, StreamsOK
  <2>6. StreamsOK'
    BY <1>inv, <2>2, <2>3, <2>4, <2>5, OneStream
  <2>7. QED  BY <1>inv, <1>job, <1>board, <1>5, <2>6 DEF StreamCancelled, StreamInv, jobVars, boardVars
<1>6. ASSUME NEW q \in Polls, PollRead(q) \/ PollFails(q) PROVE StreamInv'
  <2>1. UNCHANGED <<row, entry, worker, attempts, cancel, events, stream, listed, live, source>>
    BY <1>6 DEF PollRead, PollFails, jobVars
  <2>2. poll' = [poll EXCEPT ![q] = row] \/ poll' = [poll EXCEPT ![q] = "idle"]
    BY <1>6 DEF PollRead, PollFails
  <2>3. faults' \in 0..MaxFaults
    BY <1>inv, <1>fault, <1>6 DEF PollRead, PollFails
  <2>4. poll' \in [Polls -> {"idle", "asked"} \cup State]
    BY <1>inv, <2>2 DEF BoardTyped, JobTyped
  <2>5. BoardTyped'
    BY <1>inv, <2>1, <2>4 DEF BoardTyped
  <2>6. QED  BY <1>job, <1>streams, <2>1, <2>3, <2>5 DEF StreamInv
<1>7. ASSUME NEW q \in Polls, PollAnswer(q) PROVE StreamInv'
  <2>1. /\ UNCHANGED <<row, entry, worker, attempts, cancel, events, faults, live>>
        /\ poll[q] \in State /\ listed' = poll[q] /\ poll' = [poll EXCEPT ![q] = "idle"]
    BY <1>7 DEF PollAnswer, jobVars
  <2>2. PICK t : t = [NoStream EXCEPT !.pc = "read", !.attached = TRUE]
    OBVIOUS
  <2>3. \/ UNCHANGED <<stream, source>>
        \/ \E s \in Streams : stream' = [stream EXCEPT ![s] = t] /\ source' = s
    BY <1>7, <2>2 DEF PollAnswer
  <2>4. t \in Stream /\ StreamOK(t)
    <3>1. PICK e \in Seq(Out) : e = <<>> /\ Unended(e) /\ EndsWell(e)
      BY EmptyUnended, UnendedEndsWell
    <3>2. NoStream = [pc |-> "closed", row |-> None, attached |-> FALSE, cancelled |-> FALSE, out |-> e]
      BY <3>1 DEF NoStream
    <3>3. t \in Stream /\ t.pc = "read" /\ t.out = e
      BY <2>2, <3>2 DEF Stream, Out
    <3>4. QED  BY <3>1, <3>3 DEF StreamOK
  <2>5. StreamsOK'
    BY <1>inv, <1>streams, <2>3, <2>4, OneStream
  <2>6. BoardTyped'
    BY <1>inv, <2>1, <2>3 DEF BoardTyped
  <2>7. QED  BY <1>inv, <1>job, <2>1, <2>5, <2>6 DEF StreamInv
<1>8. ASSUME Message \/ Disconnect PROVE StreamInv'
  <2>1. UNCHANGED <<row, entry, worker, attempts, cancel, events, listed>> /\ source # None
    BY <1>8 DEF Message, Disconnect, jobVars
  <2>2. PICK s \in Streams : s = source
    BY <1>inv, <2>1 DEF BoardTyped
  <2>3. faults' \in 0..MaxFaults
    BY <1>inv, <1>fault, <1>8 DEF Message, Disconnect
  <2>4. Detached(stream[s]) \in Stream /\ StreamOK(Detached(stream[s]))
    BY <1>one, DetachedOK
  <2>5. CASE stream' = [stream EXCEPT ![s] = Detached(stream[s])] /\ source' = None
    <3>1. StreamsOK'
      BY <1>inv, <2>4, <2>5, OneStream
    <3>2. live' \in State \cup {None} /\ poll' \in [Polls -> {"idle", "asked"} \cup State]
      BY <1>inv, <1>8 DEF Message, Disconnect, BoardTyped, Ask
    <3>3. BoardTyped'
      BY <1>inv, <2>1, <2>5, <3>2 DEF BoardTyped
    <3>4. QED  BY <1>job, <2>1, <2>3, <3>1, <3>3 DEF StreamInv
  <2>6. CASE Message /\ Head(stream[s].out) \notin Ended
    <3> DEFINE out == stream[s].out
    <3>1. /\ out # <<>> /\ Head(out) \in State /\ live' = Head(out)
          /\ stream' = [stream EXCEPT ![s].out = Tail(out)] /\ UNCHANGED <<source, poll>>
      BY <1>inv, <2>2, <2>6 DEF Message, StreamsOK
    <3>2. out \in Seq(Out) /\ Len(out) \in Nat
      BY <1>one, StreamFields
    <3>3. PICK rest \in Seq(Out) :
            /\ rest = Tail(out) /\ Len(rest) = Len(out) - 1
            /\ \A i \in 1..Len(rest) : rest[i] = out[i + 1]
      BY <3>1, <3>2, HeadTailProperties
    <3>4. PICK t : t = [stream[s] EXCEPT !.out = rest]
      OBVIOUS
    <3>5. t \in Stream /\ t.pc = stream[s].pc /\ t.row = stream[s].row /\ t.out = rest
      BY <1>one, <3>4 DEF Stream, Out
    <3>6. EndsWell(rest)
      <4>1. EndsWell(out)
        BY <1>one DEF StreamOK
      <4>2. \A i \in 1..Len(rest) : i + 1 \in 1..Len(out) /\ (i + 1 = Len(out) <=> i = Len(rest))
        BY <3>2, <3>3
      <4>3. ASSUME NEW i \in 1..Len(rest), rest[i] \in Ended PROVE i + 1 = Len(rest) /\ rest[i + 1] = "end"
        <5>1. out[i + 1] \in Ended /\ i + 1 \in 1..Len(out)
          BY <3>3, <4>2, <4>3
        <5>2. (i + 1) + 1 = Len(out) /\ out[(i + 1) + 1] = "end"
          BY <4>1, <5>1 DEF EndsWell
        <5>3. i + 1 = Len(rest) /\ i + 1 \in 1..Len(rest)
          BY <3>2, <3>3, <5>2
        <5>4. QED  BY <3>3, <5>2, <5>3
      <4>4. ASSUME NEW i \in 1..Len(rest), rest[i] = "end" PROVE i = Len(rest)
        BY <3>3, <4>1, <4>2, <4>4 DEF EndsWell
      <4>5. QED  BY <4>3, <4>4 DEF EndsWell
    <3>7. Unended(out) => Unended(rest)
      BY <3>2, <3>3 DEF Unended
    <3>8. StreamOK(t)
      BY <1>one, <3>5, <3>6, <3>7 DEF StreamOK
    <3>9. stream' = [stream EXCEPT ![s] = t]
      BY <1>inv, <3>1, <3>3, <3>4 DEF StreamsOK
    <3>10. StreamsOK'
      BY <1>inv, <3>5, <3>8, <3>9, OneStream
    <3>11. BoardTyped'
      BY <1>inv, <2>1, <3>1 DEF BoardTyped
    <3>12. QED  BY <1>job, <2>1, <2>3, <3>10, <3>11 DEF StreamInv
  <2>7. \/ stream' = [stream EXCEPT ![s] = Detached(stream[s])] /\ source' = None
        \/ Message /\ Head(stream[s].out) \notin Ended
    BY <1>8, <2>2 DEF Message, Disconnect
  <2>8. QED  BY <2>5, <2>6, <2>7
<1>9. CASE UNCHANGED vars
  BY <1>inv, <1>9, <1>job, <1>streams, <1>board DEF vars, StreamInv
<1>10. QED
  BY <1>1, <1>2, <1>3, <1>4, <1>5, <1>6, <1>7, <1>8, <1>9 DEF Next, StreamStep, PollStep

LEMMA StreamInvariant == Spec => []StreamInv
BY StreamInit, StreamStepOK, PTL DEF Spec

\* Type correctness: the queue entry is not taken more often than its attempts,
\* and what is on the way to a browser is states and the end of the stream.
THEOREM StreamTypeCorrect == Spec => []TypeOK
<1>1. StreamInv => TypeOK
  BY DEF StreamInv, JobTyped, StreamsOK, BoardTyped, TypeOK
<1>2. QED  BY <1>1, StreamInvariant, PTL

\* streamProgress writes one terminal event and ends the call: whatever the queue
\* says afterwards, its listeners are gone (the cleanup in service.ts:223-239).
THEOREM StreamsEndOnce == Spec => []EndsOnce
<1>1. StreamInv => EndsOnce
  <2> SUFFICES ASSUME StreamInv, NEW s \in Streams, NEW i \in DOMAIN stream[s].out
               PROVE  /\ stream[s].out[i] = "end" => i = Len(stream[s].out)
                      /\ stream[s].out[i] \in Ended => i + 1 = Len(stream[s].out) /\ stream[s].out[i + 1] = "end"
    BY DEF EndsOnce
  <2>1. stream[s] \in Stream /\ EndsWell(stream[s].out)
    BY DEF StreamInv, StreamsOK, StreamOK
  <2>2. i \in 1..Len(stream[s].out)
    BY <2>1, StreamFields, LenProperties
  <2>3. QED  BY <2>1, <2>2 DEF EndsWell
<1>2. QED  BY <1>1, StreamInvariant, PTL

-----------------------------------------------------------------------------
(* Ends that last *)

\* What is not said of a job before its row is ended.
Told == Ended \ {"FAILED"}

Innocent(st) == st.row \notin Ended /\ \A i \in 1..Len(st.out) : st.out[i] \notin Told

\* Nobody on the way from the worker to the board believes that the job is over.
Unaware ==
    /\ worker # "return"
    /\ \A i \in 1..Len(events) : events[i] # "completed"
    /\ \A s \in Streams : Innocent(stream[s])
    /\ \A q \in Polls : poll[q] \notin Ended
    /\ listed \notin Ended /\ live \notin Told

ToldOK == (worker = "run" => row # "QUEUED") /\ (row \in Active => Unaware)

LEMMA NoneIsNoEnd == None \notin Ended /\ None \notin Told
BY NoneAssumption DEF State, Told

\* Every update of the row is guarded by its state or ends the job.
LEMMA EndedStays ==
    ASSUME StreamInv, [Next]_vars, row' \in Active
    PROVE  row \in Active
<1>1. row \in State
  BY DEF StreamInv, JobTyped
<1>2. CASE UNCHANGED row
  BY <1>2
<1>3. CASE Start
  BY <1>1, <1>3, States DEF Start, MayStart
<1>4. CASE Complete \/ FailWrite \/ CancelUpdate
  BY <1>4 DEF Complete, FailWrite, CancelUpdate, Active
<1>5. Start \/ Complete \/ FailWrite \/ CancelUpdate \/ UNCHANGED row
  BY DEF Next, JobStep, CancelStep, StreamStep, PollStep, Take, Returned, Stopped, RunFails, AttemptFails, Progress,
         CancelRead, CancelRemove, HandleEvent, StreamFind, StreamSubscribe, StreamCancelled, PollRead, PollAnswer,
         PollFails, Message, Disconnect, jobVars, vars
<1>6. QED  BY <1>2, <1>3, <1>4, <1>5

\* A stream that is sent nothing wrong says nothing wrong.
LEMMA SentInnocent ==
    ASSUME NEW st \in Stream, Innocent(st), NEW states \in Seq(Out),
           \A i \in 1..Len(states) : states[i] \notin Told
    PROVE  Sent(st, states) \in Stream /\ Innocent(Sent(st, states))
<1>1. st.out \in Seq(Out) /\ Len(st.out) \in Nat
  BY StreamFields
<1>2. PICK out \in Seq(Out) : out = st.out \o states /\ \A i \in 1..Len(out) : out[i] \notin Told
  <2> DEFINE n == Len(st.out)
             o == st.out \o states
  <2>1. /\ o \in Seq(Out) /\ Len(o) = n + Len(states) /\ Len(states) \in Nat
        /\ \A i \in 1..n + Len(states) : o[i] = IF i <= n THEN st.out[i] ELSE states[i - n]
    BY <1>1, ConcatProperties, LenProperties
  <2>2. ASSUME NEW i \in 1..n + Len(states) PROVE o[i] \notin Told
    <3>1. CASE i <= n
      <4>1. i \in 1..n
        BY <1>1, <3>1
      <4>2. QED  BY <2>1, <3>1, <4>1 DEF Innocent
    <3>2. CASE ~(i <= n)
      <4>1. i - n \in 1..Len(states)
        BY <1>1, <2>1, <3>2
      <4>2. QED  BY <2>1, <3>2, <4>1
    <3>3. QED  BY <3>1, <3>2
  <2>3. QED  BY <2>1, <2>2
<1>3. PICK t : t = [st EXCEPT !.out = out]
  OBVIOUS
<1>4. t \in Stream /\ t.row = st.row /\ t.out = out
  BY <1>3 DEF Stream, Out
<1>5. Sent(st, states) \in {st, t}
  BY <1>2, <1>3 DEF Sent
<1>6. QED  BY <1>2, <1>4, <1>5 DEF Innocent

\* The states that are sent while the row is active.
LEMMA InnocentWords ==
    /\ \A x \in Out \ Told : \E p \in Seq(Out) : p = <<x>> /\ \A i \in 1..Len(p) : p[i] \notin Told
    /\ \E f \in Seq(Out) : f = <<"FAILED", "end">> /\ \A i \in 1..Len(f) : f[i] \notin Told
<1>1. ASSUME NEW x \in Out \ Told
      PROVE  \E p \in Seq(Out) : p = <<x>> /\ \A i \in 1..Len(p) : p[i] \notin Told
  <2>1. <<x>> \in Seq(Out) /\ Len(<<x>>) = 1 /\ <<x>>[1] = x
    OBVIOUS
  <2>2. PICK p \in Seq(Out) : p = <<x>> /\ Len(p) = 1 /\ p[1] = x
    BY <2>1
  <2>3. \A i \in 1..Len(p) : p[i] \notin Told
    BY <2>2
  <2>4. QED  BY <2>2, <2>3
<1>2. PICK f \in Seq(Out) : f = <<"FAILED", "end">> /\ Len(f) = 2 /\ f[1] = "FAILED" /\ f[2] = "end"
  <2>1. <<"FAILED", "end">> \in Seq(Out)
    BY DEF Out, State, Ended
  <2>2. Len(<<"FAILED", "end">>) = 2 /\ <<"FAILED", "end">>[1] = "FAILED" /\ <<"FAILED", "end">>[2] = "end"
    OBVIOUS
  <2>3. QED  BY <2>1, <2>2
<1>3. \A i \in 1..Len(f) : i = 1 \/ i = 2
  BY <1>2
<1>4. "FAILED" \notin Told /\ "end" \notin Told
  BY DEF Told, Ended
<1>5. \A i \in 1..Len(f) : f[i] \notin Told
  BY <1>2, <1>3, <1>4
<1>6. QED  BY <1>1, <1>2, <1>5

LEMMA ClosedInnocent ==
    ASSUME NEW st \in Stream, Innocent(st)
    PROVE  Innocent(Closed(st))
<1>1. PICK t : t = [st EXCEPT !.pc = "closed", !.row = None, !.cancelled = FALSE]
  OBVIOUS
<1>2. t.row = None /\ t.out = st.out
  BY <1>1 DEF Stream
<1>3. QED  BY <1>1, <1>2, NoneIsNoEnd DEF Closed, Innocent

\* Only a processor that returned makes a stream say COMPLETED.
LEMMA HeardInnocent ==
    ASSUME NEW st \in Stream, Innocent(st), NEW e \in {"progress", "failed"}
    PROVE  Innocent(Heard(st, e))
<1>1. PICK p \in Seq(Out) : p = <<"PROCESSING">> /\ \A i \in 1..Len(p) : p[i] \notin Told
  BY InnocentWords DEF Out, State, Active, Told, Ended
<1>2. PICK f \in Seq(Out) : f = <<"FAILED", "end">> /\ \A i \in 1..Len(f) : f[i] \notin Told
  BY InnocentWords
<1>3. CASE e = "progress"
  <2>1. Heard(st, e) = Sent(st, p)
    BY <1>1, <1>3 DEF Heard
  <2>2. QED  BY <1>1, <2>1, SentInnocent
<1>4. CASE e = "failed"
  <2>1. Heard(st, e) = Closed(Sent(st, f))
    BY <1>2, <1>4 DEF Heard, AfterTerminal
  <2>2. QED  BY <1>2, <2>1, SentInnocent, ClosedInnocent
<1>5. QED  BY <1>3, <1>4

\* One stream is written.
LEMMA OneInnocent ==
    ASSUME StreamsOK, \A s \in Streams : Innocent(stream[s]),
           NEW s \in Streams, NEW t, Innocent(t), stream' = [stream EXCEPT ![s] = t]
    PROVE  (\A r \in Streams : Innocent(stream[r]))'
<1>1. \A r \in Streams : stream'[r] = t \/ stream'[r] = stream[r]
  BY DEF StreamsOK
<1>2. \A r \in Streams : Innocent(stream'[r])
  BY <1>1
<1>3. QED  BY <1>2 DEF Innocent

LEMMA ToldInit == Init => ToldOK
<1> SUFFICES ASSUME Init PROVE Unaware /\ worker # "run"
  BY DEF ToldOK
<1>1. \A s \in Streams : Innocent(stream[s])
  <2>1. NoStream.row = None /\ NoStream.out = <<>>
    BY DEF NoStream
  <2>2. Innocent(NoStream)
    BY <2>1, NoneIsNoEnd DEF Innocent
  <2>3. QED  BY <2>2 DEF Init
<1>2. \A q \in Polls : poll[q] \notin Ended
  BY States DEF Init, Ended
<1>3. QED  BY <1>1, <1>2, NoneIsNoEnd DEF Init, Unaware

LEMMA ToldStep == ASSUME StreamInv, ToldOK, [Next]_vars PROVE ToldOK'
<1>inv. JobTyped /\ StreamsOK /\ BoardTyped
  BY DEF StreamInv
<1>one. ASSUME NEW s \in Streams PROVE stream[s] \in Stream
  BY <1>inv DEF StreamsOK
<1>1. (worker = "run" => row # "QUEUED")'
  <2>1. CASE UNCHANGED worker /\ row' # "QUEUED"
    BY <2>1
  <2>2. CASE UNCHANGED <<worker, row>>
    BY <2>2 DEF ToldOK
  <2>3. CASE worker' # "run"
    BY <2>3
  <2>4. CASE Start
    BY <2>4 DEF Start
  <2>5. (UNCHANGED worker /\ row' # "QUEUED") \/ UNCHANGED <<worker, row>> \/ worker' # "run" \/ Start
    BY DEF Next, JobStep, CancelStep, StreamStep, PollStep, Take, Complete, Returned, Stopped, FailWrite, RunFails,
           AttemptFails, Progress, CancelRead, CancelRemove, CancelUpdate, HandleEvent, StreamFind, StreamSubscribe,
           StreamCancelled, PollRead, PollAnswer, PollFails, Message, Disconnect, jobVars, vars
  <2>6. QED  BY <2>1, <2>2, <2>3, <2>4, <2>5
<1>2. SUFFICES ASSUME row' \in Active PROVE Unaware'
  BY <1>1 DEF ToldOK
<1>row. row \in Active /\ row \notin Ended
  BY <1>2, EndedStays, States
<1>old. Unaware
  BY <1>row DEF ToldOK
<1>ev. events \in Seq({"progress", "completed", "failed"})
  BY <1>inv DEF JobTyped
<1>events. ASSUME NEW e \in {"progress", "failed"}, events' = Append(events, e)
           PROVE  (\A i \in 1..Len(events) : events[i] # "completed")'
  <2>1. Len(events) \in Nat /\ Len(events') = Len(events) + 1
        /\ \A i \in 1..Len(events) + 1 : events'[i] = IF i <= Len(events) THEN events[i] ELSE e
    BY <1>ev, <1>events, AppendProperties
  <2>2. \A i \in 1..Len(events) + 1 : i <= Len(events) => i \in 1..Len(events)
    BY <2>1
  <2>3. QED  BY <1>old, <2>1, <2>2 DEF Unaware
<1>same. ASSUME UNCHANGED <<stream, listed, live, poll>>, worker' # "return",
                (\A i \in 1..Len(events) : events[i] # "completed")'
         PROVE  Unaware'
  BY <1>old, <1>same DEF Unaware, Innocent
<1>streams. ASSUME UNCHANGED <<worker, events, listed, live, poll>>, (\A s \in Streams : Innocent(stream[s]))'
            PROVE  Unaware'
  BY <1>old, <1>streams DEF Unaware
<1>3. ASSUME JobStep \/ Progress \/ CancelRead \/ CancelStep PROVE Unaware'
  <2>1. UNCHANGED <<stream, listed, live, poll>>
    BY <1>3 DEF JobStep, Take, Start, Complete, Returned, Stopped, FailWrite, RunFails, AttemptFails, Progress,
                CancelRead, CancelStep, CancelRemove, CancelUpdate, boardVars
  <2>2. ~Complete /\ ~Returned
    BY <1>2, <1>old, <1>row DEF Complete, Returned, Unaware, ToldOK, Active
  <2>3. worker' # "return"
    BY <1>3, <2>2, <1>old DEF JobStep, Take, Start, Stopped, FailWrite, RunFails, AttemptFails, Progress,
                CancelRead, CancelStep, CancelRemove, CancelUpdate, jobVars, Unaware
  <2>4. UNCHANGED events \/ \E e \in {"progress", "failed"} : events' = Append(events, e)
    BY <1>3, <2>2 DEF JobStep, Take, Start, Stopped, FailWrite, RunFails, AttemptFails, Emit, Progress,
                CancelRead, CancelStep, CancelRemove, CancelUpdate
  <2>5. (\A i \in 1..Len(events) : events[i] # "completed")'
    BY <2>4, <1>events, <1>old DEF Unaware
  <2>6. QED  BY <2>1, <2>3, <2>5, <1>same
<1>4. ASSUME NEW s \in Streams, StreamFind(s) PROVE Unaware'
  <2>1. PICK t : t = [stream[s] EXCEPT !.pc = "found", !.row = row]
    OBVIOUS
  <2>2. t.row = row /\ t.out = stream[s].out
    BY <1>one, <2>1 DEF Stream
  <2>3. Innocent(t)
    BY <2>2, <1>row, <1>old DEF Innocent, Unaware
  <2>4. stream' = [stream EXCEPT ![s] = t] /\ UNCHANGED <<worker, events, listed, live, poll>>
    BY <1>inv, <1>4, <2>1 DEF StreamFind, StreamsOK, jobVars, boardVars
  <2>5. QED  BY <1>inv, <1>old, <2>3, <2>4, OneInnocent, <1>streams DEF Unaware
<1>5. ASSUME NEW s \in Streams, StreamSubscribe(s) PROVE Unaware'
  <2>1. stream[s] \in Stream /\ stream[s].row \in State /\ Innocent(stream[s]) /\ stream[s].row \notin Ended
    BY <1>one, <1>inv, <1>5, <1>old DEF StreamSubscribe, StreamsOK, StreamOK, Unaware, Innocent
  <2>2. PICK p \in Seq(Out) : p = <<stream[s].row>> /\ \A i \in 1..Len(p) : p[i] \notin Told
    BY <2>1, InnocentWords DEF Out, Told
  <2>3. PICK u : u = Sent(stream[s], p)
    OBVIOUS
  <2>4. u \in Stream /\ Innocent(u)
    BY <2>1, <2>2, <2>3, SentInnocent
  <2>5. PICK t : t = [u EXCEPT !.pc = "open", !.row = None]
    OBVIOUS
  <2>6. t.row = None /\ t.out = u.out
    BY <2>4, <2>5 DEF Stream
  <2>7. Innocent(t)
    BY <2>4, <2>6, NoneIsNoEnd DEF Innocent
  <2>8. stream' = [stream EXCEPT ![s] = t] /\ UNCHANGED <<worker, events, listed, live, poll>>
    BY <1>5, <2>1, <2>2, <2>3, <2>5 DEF StreamSubscribe, jobVars, boardVars
  <2>9. QED  BY <1>inv, <1>old, <2>7, <2>8, OneInnocent, <1>streams DEF Unaware
<1>6. CASE HandleEvent
  <2>1. /\ events # <<>> /\ events' = Tail(events)
        /\ stream' = [s \in Streams |-> IF stream[s].pc = "open" THEN Heard(stream[s], Head(events)) ELSE stream[s]]
        /\ UNCHANGED <<worker, listed, live, poll>>
    BY <1>6 DEF HandleEvent, jobVars, boardVars
  <2>2. /\ Len(events) \in Nat /\ Len(events) > 0 /\ Head(events) = events[1]
        /\ Head(events) \in {"progress", "completed", "failed"}
        /\ Len(Tail(events)) = Len(events) - 1
        /\ \A i \in 1..Len(Tail(events)) : Tail(events)[i] = events[i + 1]
    BY <1>ev, <2>1, HeadTailProperties, EmptySeq, LenProperties
  <2>3. 1 \in 1..Len(events) /\ \A i \in 1..Len(Tail(events)) : i + 1 \in 1..Len(events)
    BY <2>2
  <2>4. Head(events) \in {"progress", "failed"}
    BY <1>old, <2>2, <2>3 DEF Unaware
  <2>5. (\A i \in 1..Len(events) : events[i] # "completed")'
    BY <1>old, <2>1, <2>2, <2>3 DEF Unaware
  <2>6. ASSUME NEW s \in Streams PROVE Innocent(stream'[s])
    <3>1. CASE stream[s].pc = "open"
      <4>1. stream'[s] = Heard(stream[s], Head(events))
        BY <2>1, <3>1
      <4>2. Innocent(Heard(stream[s], Head(events)))
        BY <1>one, <1>old, <2>4, HeardInnocent DEF Unaware
      <4>3. QED  BY <4>1, <4>2
    <3>2. CASE stream[s].pc # "open"
      <4>1. stream'[s] = stream[s]
        BY <2>1, <3>2
      <4>2. QED  BY <1>old, <4>1 DEF Unaware
    <3>3. QED  BY <3>1, <3>2
  <2>7. (\A s \in Streams : Innocent(stream[s]))'
    BY <2>6 DEF Innocent
  <2>8. QED  BY <1>old, <2>1, <2>5, <2>7 DEF Unaware
<1>7. ASSUME NEW s \in Streams, StreamCancelled(s) PROVE Unaware'
  <2>1. PICK u : u = [stream[s] EXCEPT !.cancelled = TRUE]
    OBVIOUS
  <2>2. u.row = stream[s].row /\ u.out = stream[s].out
    BY <1>one, <2>1 DEF Stream
  <2>3. Innocent(stream[s])
    BY <1>old DEF Unaware
  <2>4. Innocent(u) /\ Innocent(Closed(stream[s]))
    BY <1>one, <2>2, <2>3, ClosedInnocent DEF Innocent
  <2>5. stream' = [stream EXCEPT ![s] = Closed(stream[s])] \/ stream' = [stream EXCEPT ![s] = u]
    BY <1>inv, <1>7, <2>1 DEF StreamCancelled, StreamsOK
  <2>6. UNCHANGED <<worker, events, listed, live, poll>>
    BY <1>7 DEF StreamCancelled, jobVars, boardVars
  <2>7. QED  BY <1>inv, <1>old, <2>4, <2>5, <2>6, OneInnocent, <1>streams DEF Unaware
<1>8. ASSUME NEW q \in Polls, PollRead(q) \/ PollFails(q) PROVE Unaware'
  <2>1. UNCHANGED <<worker, events, stream, listed, live>>
    BY <1>8 DEF PollRead, PollFails, jobVars
  <2>2. poll' = [poll EXCEPT ![q] = row] \/ poll' = [poll EXCEPT ![q] = "idle"]
    BY <1>8 DEF PollRead, PollFails
  <2>3. \A p \in Polls : poll'[p] \notin Ended
    BY <1>inv, <1>old, <1>row, <2>2, States DEF BoardTyped, Unaware
  <2>4. QED  BY <1>old, <2>1, <2>3 DEF Unaware, Innocent
<1>9. ASSUME NEW q \in Polls, PollAnswer(q) PROVE Unaware'
  <2>1. /\ UNCHANGED <<worker, events, live>>
        /\ listed' = poll[q] /\ poll' = [poll EXCEPT ![q] = "idle"]
    BY <1>9 DEF PollAnswer, jobVars
  <2>2. PICK t : t = [NoStream EXCEPT !.pc = "read", !.attached = TRUE]
    OBVIOUS
  <2>3. UNCHANGED stream \/ \E s \in Streams : stream' = [stream EXCEPT ![s] = t]
    BY <1>9, <2>2 DEF PollAnswer
  <2>4. Innocent(t)
    <3>1. t.row = None /\ t.out = <<>>
      BY <2>2 DEF NoStream
    <3>2. QED  BY <3>1, NoneIsNoEnd DEF Innocent
  <2>5. (\A s \in Streams : Innocent(stream[s]))'
    <3>1. CASE UNCHANGED stream
      BY <1>old, <3>1 DEF Unaware, Innocent
    <3>2. CASE \E s \in Streams : stream' = [stream EXCEPT ![s] = t]
      BY <1>inv, <1>old, <2>4, <3>2, OneInnocent DEF Unaware
    <3>3. QED  BY <2>3, <3>1, <3>2
  <2>6. listed' \notin Ended /\ \A p \in Polls : poll'[p] \notin Ended
    BY <1>inv, <1>old, <2>1, States DEF BoardTyped, Unaware
  <2>7. QED  BY <1>old, <2>1, <2>5, <2>6 DEF Unaware
<1>10. ASSUME Message \/ Disconnect PROVE Unaware'
  <2>1. UNCHANGED <<worker, events, listed>> /\ source # None
    BY <1>10 DEF Message, Disconnect, jobVars
  <2>2. PICK s \in Streams : s = source
    BY <1>inv, <2>1 DEF BoardTyped
  <2>3. stream[s] \in Stream /\ Innocent(stream[s])
    BY <1>one, <1>old DEF Unaware
  <2>4. stream[s].out \in Seq(Out) /\ Len(stream[s].out) \in Nat
    BY <2>3, StreamFields
  <2>5. Innocent(Detached(stream[s]))
    <3>1. PICK t : t = [stream[s] EXCEPT !.attached = FALSE, !.out = <<>>]
      OBVIOUS
    <3>2. t.row = stream[s].row /\ t.out = <<>>
      BY <2>3, <3>1 DEF Stream
    <3>3. QED  BY <2>3, <3>1, <3>2 DEF Detached, Innocent
  <2>6. (\A r \in Streams : Innocent(stream[r]))'
    <3>1. CASE stream' = [stream EXCEPT ![s] = Detached(stream[s])]
      BY <1>inv, <1>old, <2>5, <3>1, OneInnocent DEF Unaware
    <3>2. CASE stream[s].out # <<>> /\ stream' = [stream EXCEPT ![s].out = Tail(stream[s].out)]
      <4>1. PICK rest : rest = Tail(stream[s].out) /\ \A i \in 1..Len(rest) : rest[i] \notin Told
        <5>1. /\ Len(Tail(stream[s].out)) = Len(stream[s].out) - 1
              /\ \A i \in 1..Len(Tail(stream[s].out)) : Tail(stream[s].out)[i] = stream[s].out[i + 1]
          BY <2>4, <3>2, HeadTailProperties
        <5>2. \A i \in 1..Len(Tail(stream[s].out)) : i + 1 \in 1..Len(stream[s].out)
          BY <2>4, <5>1
        <5>3. QED  BY <2>3, <5>1, <5>2 DEF Innocent
      <4>2. PICK t : t = [stream[s] EXCEPT !.out = rest]
        OBVIOUS
      <4>3. t.row = stream[s].row /\ t.out = rest
        BY <2>3, <4>2 DEF Stream
      <4>4. Innocent(t)
        BY <2>3, <4>1, <4>3 DEF Innocent
      <4>5. stream' = [stream EXCEPT ![s] = t]
        BY <1>inv, <3>2, <4>1, <4>2 DEF StreamsOK
      <4>6. QED  BY <1>inv, <1>old, <4>4, <4>5, OneInnocent DEF Unaware
    <3>3. QED  BY <1>10, <2>2, <3>1, <3>2 DEF Message, Disconnect
  <2>7. live' \notin Told
    <3>1. CASE Disconnect
      BY <3>1, <1>old DEF Disconnect, Unaware
    <3>2. CASE Message
      <4>1. stream[s].out # <<>> /\ live' = Head(stream[s].out)
        BY <2>2, <3>2 DEF Message
      <4>2. 1 \in 1..Len(stream[s].out) /\ Head(stream[s].out) = stream[s].out[1]
        BY <2>4, <4>1, HeadTailProperties, EmptySeq
      <4>3. QED  BY <2>3, <4>1, <4>2 DEF Innocent
    <3>3. QED  BY <1>10, <3>1, <3>2
  <2>8. \A p \in Polls : poll'[p] \notin Ended
    <3>1. UNCHANGED poll \/ \E q \in Polls : poll' = [poll EXCEPT ![q] = "asked"]
      BY <1>10 DEF Message, Disconnect, Ask
    <3>2. QED  BY <1>inv, <1>old, <3>1, States DEF BoardTyped, Unaware
  <2>9. QED  BY <1>old, <2>1, <2>6, <2>7, <2>8 DEF Unaware
<1>11. CASE UNCHANGED vars
  BY <1>11, <1>old DEF vars, Unaware, Innocent
<1>12. QED
  BY <1>3, <1>4, <1>5, <1>6, <1>7, <1>8, <1>9, <1>10, <1>11 DEF Next, StreamStep, PollStep

\* What a board takes for the end of a job is its end: no order of row writes, queue
\* events, streams and list answers shows COMPLETED or CANCELLED, or lists FAILED, while
\* the row may still be worked on (worker.ts:36-46, 83-91, service.ts:213-234).
THEOREM EndsLast == Spec => []EndLasts
<1>1. StreamInv /\ ToldOK => EndLasts
  BY States DEF StreamInv, JobTyped, ToldOK, Unaware, EndLasts, Told, State
<1>2. StreamInv /\ ToldOK /\ [Next]_vars => ToldOK'
  BY ToldStep
<1>3. QED  BY <1>1, <1>2, ToldInit, StreamInvariant, PTL DEF Spec

=============================================================================
