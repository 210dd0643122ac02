------------------------ MODULE WebhookDeliveryProofs ------------------------
(***************************************************************************)
(* The safety properties of WebhookDelivery, proved for any number of      *)
(* webhooks, events, calls and slots, any limits and any number of faults. *)
(* A slot holds a delivery while its lock is good; one that lost the lock  *)
(* works on behind BullMQ's back.  The bounds count the slots that may     *)
(* still post, or still be accepted, against the faults.  The last part    *)
(* maps the module to EventDelivery, what a webhook's owner is promised.   *)
(***************************************************************************)
EXTENDS WebhookDelivery, TLAPS, FiniteSetTheorems

Pcs == {"idle", "find", "send", "answer", "done", "fail"}

Holding(w, h, e) == WorksOn(w, h, e) /\ delivery[h][e].st = "active" /\ delivery[h][e].lock = w

RunOK == \A w \in Slots :
    /\ run[w].pc = "idle" => run[w] = IdleRun
    /\ run[w].pc # "idle" => run[w].hook \in Hooks /\ run[w].event \in Events /\ run[w].attempt \in 1..Attempts

PubOK == \A p \in Pubs : pub[p].pc # "idle" => pub[p].event \in Events

\* A delivery that is not over has an attempt left, and the slot that holds it
\* is at the attempt after those counted.
EntryOK == \A h \in Hooks, e \in Events :
    /\ delivery[h][e].st \in {"waiting", "delayed", "active"} => delivery[h][e].made < Attempts
    /\ delivery[h][e].st = "absent" => delivery[h][e].made = 0
    /\ delivery[h][e].st = "active" => delivery[h][e].lock \in Slots
    /\ \A w \in Slots : Holding(w, h, e) => run[w].attempt = delivery[h][e].made + 1

WellFormed == TypeOK /\ RunOK /\ PubOK /\ EntryOK

-----------------------------------------------------------------------------
(* Types *)

LEMMA Constants ==
    /\ Attempts \in Nat /\ Attempts > 0 /\ MaxStalled \in Nat
    /\ None \notin Hooks /\ None \notin Events /\ None \notin Slots
    /\ IdleRun \in Run /\ IdleRun.pc = "idle" /\ IdleRun.hook = None
    /\ IdlePub \in Pub /\ IdlePub.pc = "idle"
    /\ NoDelivery \in Delivery /\ NoDelivery.st = "absent"
BY WebhookAssumption DEF IdleRun, Run, IdlePub, Pub, NoDelivery, Delivery

LEMMA Fields ==
    /\ \A q \in Run : q.pc \in Pcs /\ q.hook \in Hooks \cup {None} /\ q.event \in Events \cup {None}
                      /\ q.attempt \in 0..Attempts /\ q.permanent \in BOOLEAN
    /\ \A d \in Delivery : d.st \in {"absent", "waiting", "delayed", "active", "completed", "failed"}
                      /\ d.made \in 0..Attempts /\ d.stalled \in 0..(MaxStalled + 1) /\ d.lock \in Slots \cup {None}
BY DEF Run, Delivery, Pcs

\* What is queued, and who works on it.
QueueTyped == delivery \in [Hooks -> [Events -> Delivery]] /\ run \in [Slots -> Run]
QueueOK    == QueueTyped /\ RunOK /\ EntryOK

RestTyped ==
    /\ hook \in [Hooks -> Hook]
    /\ called \in [Events -> Nat] /\ \A e \in Events : called[e] <= MaxCalls[e]
    /\ pub \in [Pubs -> Pub]
    /\ req \in [Reqs -> Hooks \cup {None}]
    /\ sent \in [Hooks -> [Events -> Nat]]
    /\ acked \in [Hooks -> [Events -> Nat]]
    /\ unheard \in [Hooks -> [Events -> Nat]]
    /\ late \in [Hooks -> Nat]
    /\ faults \in Nat

LEMMA Parts == WellFormed <=> QueueOK /\ RestTyped /\ PubOK
BY DEF WellFormed, QueueOK, QueueTyped, RestTyped, TypeOK

-----------------------------------------------------------------------------
(* What a step does to one delivery *)

\* One entry is written.
LEMMA EntryWritten ==
    ASSUME QueueTyped, NEW h \in Hooks, NEW e \in Events, NEW d \in Delivery,
           delivery' = [delivery EXCEPT ![h][e] = d]
    PROVE  /\ delivery' \in [Hooks -> [Events -> Delivery]]
           /\ delivery'[h][e] = d
           /\ \A g \in Hooks, f \in Events : g # h \/ f # e => delivery'[g][f] = delivery[g][f]
BY DEF QueueTyped

\* One counter is one up.
LEMMA Counted ==
    ASSUME NEW n \in [Hooks -> [Events -> Nat]], NEW h \in Hooks, NEW e \in Events
    PROVE  /\ [n EXCEPT ![h][e] = @ + 1] \in [Hooks -> [Events -> Nat]]
           /\ [n EXCEPT ![h][e] = @ + 1][h][e] = n[h][e] + 1
           /\ \A g \in Hooks, f \in Events : g # h \/ f # e => [n EXCEPT ![h][e] = @ + 1][g][f] = n[g][f]
OBVIOUS

\* One run is written.
LEMMA RunWritten ==
    ASSUME QueueTyped, NEW w \in Slots, NEW q \in Run, run' = [run EXCEPT ![w] = q]
    PROVE  run' \in [Slots -> Run] /\ run'[w] = q /\ \A u \in Slots \ {w} : run'[u] = run[u]
BY DEF QueueTyped

\* A run goes on to the next await.
Onward(w, pc, permanent) ==
    /\ run[w].pc # "idle" /\ pc \in Pcs \ {"idle"} /\ permanent \in BOOLEAN
    /\ run' = [run EXCEPT ![w] = [run[w] EXCEPT !.pc = pc, !.permanent = permanent]]
    /\ UNCHANGED delivery

LEMMA OnwardRun ==
    ASSUME QueueTyped, NEW w \in Slots, NEW pc, NEW permanent, Onward(w, pc, permanent)
    PROVE  /\ run' \in [Slots -> Run] /\ UNCHANGED delivery
           /\ \A u \in Slots \ {w} : run'[u] = run[u]
           /\ run'[w].pc = pc /\ run'[w].hook = run[w].hook /\ run'[w].event = run[w].event
           /\ run'[w].attempt = run[w].attempt
<1>1. PICK q \in Run : q = [run[w] EXCEPT !.pc = pc, !.permanent = permanent]
  BY DEF Onward, QueueTyped, Run, Pcs
<1>2. q.pc = pc /\ q.hook = run[w].hook /\ q.event = run[w].event /\ q.attempt = run[w].attempt
  BY <1>1 DEF QueueTyped, Run
<1>3. QED  BY <1>1, <1>2, RunWritten DEF Onward

LEMMA OnwardOK ==
    ASSUME QueueOK, NEW w \in Slots, NEW pc, NEW permanent, Onward(w, pc, permanent)
    PROVE  QueueOK'
<1>1. QueueTyped /\ RunOK /\ EntryOK
  BY DEF QueueOK
<1>2. /\ run' \in [Slots -> Run] /\ UNCHANGED delivery
      /\ \A u \in Slots \ {w} : run'[u] = run[u]
      /\ run'[w].pc = pc /\ run'[w].hook = run[w].hook /\ run'[w].event = run[w].event
      /\ run'[w].attempt = run[w].attempt
  BY <1>1, OnwardRun
<1>3. run[w].pc # "idle" /\ pc # "idle"
  BY DEF Onward
<1>4. QueueTyped' /\ RunOK'
  BY <1>1, <1>2, <1>3 DEF QueueTyped, RunOK
<1>5. \A u \in Slots, h \in Hooks, e \in Events : Holding(u, h, e)' => Holding(u, h, e) /\ run'[u].attempt = run[u].attempt
  BY <1>2 DEF Holding, WorksOn
<1>6. EntryOK'
  BY <1>1, <1>2, <1>5 DEF EntryOK
<1>7. QED  BY <1>4, <1>6 DEF QueueOK

\* Slots give up what they worked on.
LEMMA SlotsFreed ==
    ASSUME QueueOK, UNCHANGED delivery, \A w \in Slots : run'[w] = run[w] \/ run'[w] = IdleRun,
           run' \in [Slots -> Run]
    PROVE  QueueOK'
<1>1. QueueTyped' /\ RunOK'
  BY Constants DEF QueueOK, QueueTyped, RunOK
<1>2. \A u \in Slots, h \in Hooks, e \in Events : Holding(u, h, e)' => Holding(u, h, e) /\ run'[u] = run[u]
  BY Constants DEF Holding, WorksOn
<1>3. EntryOK'
  BY <1>2 DEF QueueOK, EntryOK
<1>4. QED  BY <1>1, <1>3 DEF QueueOK

\* An entry becomes one that no slot holds.
LEMMA EntryLetGo ==
    ASSUME QueueOK, NEW h \in Hooks, NEW e \in Events, NEW d \in Delivery,
           delivery' = [delivery EXCEPT ![h][e] = d], d.st # "active",
           d.st \in {"waiting", "delayed"} => d.made < Attempts, d.st # "absent",
           \A w \in Slots : run'[w] = run[w] \/ run'[w] = IdleRun, run' \in [Slots -> Run]
    PROVE  QueueOK'
<1>1. /\ delivery' \in [Hooks -> [Events -> Delivery]] /\ delivery'[h][e] = d
      /\ \A g \in Hooks, f \in Events : g # h \/ f # e => delivery'[g][f] = delivery[g][f]
  <2>1. delivery \in [Hooks -> [Events -> Delivery]]
    BY DEF QueueOK, QueueTyped
  <2>2. delivery' = [delivery EXCEPT ![h][e] = d]
    OBVIOUS
  <2>3. QED  BY <2>1, <2>2
<1>2. QueueTyped' /\ RunOK'
  BY <1>1, Constants DEF QueueOK, QueueTyped, RunOK
<1>3. \A u \in Slots, g \in Hooks, f \in Events :
          Holding(u, g, f)' => delivery'[g][f] = delivery[g][f] /\ Holding(u, g, f) /\ run'[u] = run[u]
  BY <1>1, Constants DEF Holding, WorksOn
<1>4. \A g \in Hooks, f \in Events : delivery'[g][f].st \in {"waiting", "delayed", "active"} => delivery'[g][f].made < Attempts
  BY <1>1 DEF QueueOK, EntryOK
<1>5. \A g \in Hooks, f \in Events :
          /\ delivery'[g][f].st = "absent" => delivery'[g][f].made = 0
          /\ delivery'[g][f].st = "active" => delivery'[g][f].lock \in Slots
  BY <1>1 DEF QueueOK, EntryOK
<1>6. EntryOK'
  BY <1>3, <1>4, <1>5 DEF QueueOK, EntryOK
<1>7. QED  BY <1>2, <1>6 DEF QueueOK

LEMMA RequeueOK ==
    ASSUME QueueTyped, NEW h \in Hooks, NEW e \in Events, Requeue(h, e)
    PROVE  \E d \in Delivery : /\ delivery' = [delivery EXCEPT ![h][e] = d]
                               /\ d.st = "waiting" /\ d.made = delivery[h][e].made
<1> DEFINE o == delivery[h][e]
           n == IF o.stalled > MaxStalled THEN o.stalled ELSE o.stalled + 1
           d == [o EXCEPT !.st = "waiting", !.lock = None, !.stalled = n]
<1>1. o \in Delivery /\ o.stalled \in 0..(MaxStalled + 1)
  BY Fields DEF QueueTyped
<1>2. n \in 0..(MaxStalled + 1)
  BY <1>1, Constants
<1>3. d \in Delivery /\ d.st = "waiting" /\ d.made = o.made
  BY <1>1, <1>2 DEF Delivery
<1>4. delivery' = [delivery EXCEPT ![h][e] = d]
  BY DEF Requeue
<1>5. QED  BY <1>3, <1>4

-----------------------------------------------------------------------------
(* Type correctness *)

LEMMA WellFormedInit == Init => WellFormed
<1> SUFFICES ASSUME Init PROVE WellFormed
  OBVIOUS
<1>1. RestTyped /\ PubOK
  BY Constants, WebhookAssumption DEF Init, RestTyped, PubOK, Hook
<1>2. QueueTyped /\ RunOK
  BY Constants DEF Init, QueueTyped, RunOK
<1>3. EntryOK
  BY Constants DEF Init, EntryOK, Holding, NoDelivery
<1>4. QED  BY <1>1, <1>2, <1>3, Parts DEF QueueOK

\* Steps of the processor up to its report.
LEMMA ProcessorSteps ==
    ASSUME QueueOK, RestTyped, NEW w \in Slots,
           FindHook(w) \/ Skip(w) \/ RefuseTarget(w) \/ Post(w) \/ NetworkError(w)
             \/ Accepted(w) \/ AcceptedUnheard(w)
           \/ \E permanent \in BOOLEAN : Rejected(w, permanent)
    PROVE  \E pc \in Pcs, permanent \in BOOLEAN :
               /\ Onward(w, pc, permanent)
               /\ \/ pc = "send" /\ run[w].pc = "find" /\ hook[run[w].hook].st = "active"
                  \/ pc = "answer" /\ run[w].pc = "send"
                  \/ pc \in {"done", "fail"} /\ run[w].pc \in {"find", "send", "answer"}
<1>1. run[w] \in Run /\ run[w].permanent \in BOOLEAN
  BY Fields DEF QueueOK, QueueTyped
<1>2. ASSUME NEW pc \in Pcs, pc # "idle", run[w].pc # "idle", RunTo(w, pc), UNCHANGED delivery
      PROVE  Onward(w, pc, run[w].permanent)
  <2>1. [run EXCEPT ![w].pc = pc] = [run EXCEPT ![w] = [run[w] EXCEPT !.pc = pc, !.permanent = run[w].permanent]]
    BY <1>1 DEF QueueOK, QueueTyped, Run
  <2>2. QED  BY <1>1, <1>2, <2>1 DEF Onward, RunTo
<1>3. ASSUME NEW permanent \in BOOLEAN, run[w].pc # "idle", Failing(w, permanent), UNCHANGED delivery
      PROVE  Onward(w, "fail", permanent)
  BY <1>3 DEF Onward, Failing, Pcs
<1>4. CASE FindHook(w)
  BY <1>1, <1>2, <1>4 DEF FindHook, MayDeliver, Pcs
<1>5. CASE Skip(w)
  BY <1>1, <1>2, <1>5 DEF Skip, Pcs
<1>6. CASE RefuseTarget(w)
  BY <1>3, <1>6 DEF RefuseTarget, Pcs
<1>7. CASE Post(w)
  BY <1>1, <1>2, <1>7 DEF Post, Pcs
<1>8. CASE NetworkError(w)
  BY <1>3, <1>8 DEF NetworkError, Pcs
<1>9. CASE Accepted(w)
  BY <1>1, <1>2, <1>9 DEF Accepted, Pcs
<1>13. CASE AcceptedUnheard(w)
  BY <1>3, <1>13 DEF AcceptedUnheard, Pcs
<1>10. ASSUME NEW permanent \in BOOLEAN, Rejected(w, permanent)
       PROVE  Onward(w, "fail", permanent) /\ run[w].pc = "answer"
  BY <1>3, <1>10 DEF Rejected
<1>11. CASE \E permanent \in BOOLEAN : Rejected(w, permanent)
  BY <1>10, <1>11 DEF Pcs
<1>12. QED  BY <1>4, <1>5, <1>6, <1>7, <1>8, <1>9, <1>11, <1>13

\* Reports of the slot that holds its delivery.
LEMMA ReportSteps ==
    ASSUME QueueOK, NEW w \in Slots, Finish(w) \/ FailAttempt(w)
    PROVE  \E h \in Hooks, e \in Events, d \in Delivery :
               /\ Holding(w, h, e) /\ delivery' = [delivery EXCEPT ![h][e] = d]
               /\ run' = [run EXCEPT ![w] = IdleRun]
               /\ d.st \in {"completed", "failed", "delayed"} /\ (d.st = "delayed" => d.made < Attempts)
               /\ d.made = delivery[h][e].made + 1
               /\ run[w].pc = "done" => d.st = "completed"
               /\ UNCHANGED <<hook, called, pub, req, receiverVars, faults>>
<1>1. run[w] \in Run /\ run[w].pc # "idle" /\ Holds(w)
  BY DEF QueueOK, QueueTyped, Finish, FailAttempt
<1>2. PICK h \in Hooks, e \in Events : h = run[w].hook /\ e = run[w].event
  BY <1>1 DEF QueueOK, RunOK
<1>3. Holding(w, h, e)
  BY <1>1, <1>2 DEF Holds, Holding, WorksOn
<1>4. delivery[h][e] \in Delivery /\ run[w].attempt = delivery[h][e].made + 1 /\ delivery[h][e].made < Attempts
      /\ delivery[h][e].made \in 0..Attempts
  BY <1>3, Fields DEF QueueOK, QueueTyped, EntryOK, Holding
<1>5. ASSUME NEW st \in {"completed", "failed", "delayed"}, NEW made, made = run[w].attempt,
             Report(w, st, made)
      PROVE  \E d \in Delivery :
               /\ delivery' = [delivery EXCEPT ![h][e] = d] /\ run' = [run EXCEPT ![w] = IdleRun]
               /\ d.st = st /\ d.made = delivery[h][e].made + 1
  <2>1. [delivery[h][e] EXCEPT !.st = st, !.made = made, !.lock = None] \in Delivery
    <3>1. made \in 0..Attempts
      BY <1>4, <1>5, Constants
    <3>2. QED  BY <1>4, <3>1 DEF Delivery
  <2>2. /\ delivery' = [delivery EXCEPT ![h][e] = [delivery[h][e] EXCEPT !.st = st, !.made = made, !.lock = None]]
        /\ run' = [run EXCEPT ![w] = IdleRun]
    BY <1>2, <1>5 DEF Report
  <2>3. /\ [delivery[h][e] EXCEPT !.st = st, !.made = made, !.lock = None].st = st
        /\ [delivery[h][e] EXCEPT !.st = st, !.made = made, !.lock = None].made = delivery[h][e].made + 1
    BY <1>4, <1>5 DEF Delivery
  <2>4. QED  BY <2>1, <2>2, <2>3
<1>6. UNCHANGED <<hook, called, pub, req, receiverVars, faults>>
  BY DEF Finish, FailAttempt, Report
<1>7. CASE Finish(w)
  <2>1. Report(w, "completed", run[w].attempt)
    BY <1>7 DEF Finish
  <2>2. PICK d \in Delivery :
          /\ delivery' = [delivery EXCEPT ![h][e] = d] /\ run' = [run EXCEPT ![w] = IdleRun]
          /\ d.st = "completed" /\ d.made = delivery[h][e].made + 1
    BY <2>1, <1>5
  <2>3. QED  BY <1>3, <1>6, <2>2
<1>8. CASE FailAttempt(w)
  <2>1. PICK st \in {"failed", "delayed"} :
          Report(w, st, AttemptsMade(w)) /\ (st = "delayed" => run[w].attempt < Attempts)
    BY <1>8 DEF FailAttempt, Retries
  <2>2. PICK d \in Delivery :
          /\ delivery' = [delivery EXCEPT ![h][e] = d] /\ run' = [run EXCEPT ![w] = IdleRun]
          /\ d.st = st /\ d.made = delivery[h][e].made + 1
    BY <2>1, <1>5 DEF AttemptsMade
  <2>3. run[w].pc = "fail"
    BY <1>8 DEF FailAttempt
  <2>4. QED  BY <1>3, <1>4, <1>6, <2>1, <2>2, <2>3
<1>9. QED  BY <1>7, <1>8

\* A waiting entry is given to an idle slot.
LEMMA TakeStep ==
    ASSUME QueueOK, NEW w \in Slots, NEW h \in Hooks, NEW e \in Events, Take(w, h, e)
    PROVE  /\ run[w].pc = "idle" /\ delivery[h][e].st = "waiting"
           /\ \E d \in Delivery, q \in Run :
                /\ delivery' = [delivery EXCEPT ![h][e] = d] /\ run' = [run EXCEPT ![w] = q]
                /\ d.st = "active" /\ d.lock = w /\ d.made = delivery[h][e].made
                /\ q.pc \in {"find", "fail"} /\ q.hook = h /\ q.event = e /\ q.attempt = d.made + 1
                /\ q.attempt \in 1..Attempts
<1>1. run[w].pc = "idle" /\ delivery[h][e].st = "waiting"
  BY DEF Take
<1>2. delivery[h][e] \in Delivery /\ delivery[h][e].made < Attempts /\ delivery[h][e].made \in 0..Attempts
  BY <1>1, Fields DEF QueueOK, QueueTyped, EntryOK
<1>3. PICK d \in Delivery : d = [delivery[h][e] EXCEPT !.st = "active", !.lock = w]
  BY <1>2 DEF Delivery
<1>4. d.st = "active" /\ d.lock = w /\ d.made = delivery[h][e].made
  BY <1>2, <1>3 DEF Delivery
<1>5. PICK dead \in BOOLEAN : dead = (delivery[h][e].stalled > MaxStalled)
  <2>1. (delivery[h][e].stalled > MaxStalled) \in BOOLEAN
    OBVIOUS
  <2>2. QED  BY <2>1, Zenon
<1>6. PICK pc \in {"find", "fail"} : pc = IF dead THEN "fail" ELSE "find"
  OBVIOUS
<1>7. PICK n \in 1..Attempts : n = delivery[h][e].made + 1
  BY <1>2, Constants
<1>8. PICK q \in Run : q = [pc |-> pc, hook |-> h, event |-> e, attempt |-> n, permanent |-> dead]
  <2>1. n \in 0..Attempts
    BY Constants
  <2>2. QED  BY <2>1 DEF Run
<1>9. q.pc = pc /\ q.hook = h /\ q.event = e /\ q.attempt = n
  BY <1>8
<1>10. delivery' = [delivery EXCEPT ![h][e] = d] /\ run' = [run EXCEPT ![w] = q]
  BY <1>3, <1>5, <1>6, <1>7, <1>8 DEF Take
<1>11. QED  BY <1>1, <1>4, <1>7, <1>9, <1>10

LEMMA AddStep ==
    ASSUME QueueOK, NEW p \in Pubs, PublishAdd(p)
    PROVE  /\ delivery' \in [Hooks -> [Events -> Delivery]] /\ UNCHANGED run
           /\ \A h \in Hooks, e \in Events :
                  \/ delivery'[h][e] = delivery[h][e]
                  \/ delivery[h][e].st = "absent" /\ delivery'[h][e].st = "waiting" /\ delivery'[h][e].made = 0
<1>1. delivery \in [Hooks -> [Events -> Delivery]]
  BY DEF QueueOK, QueueTyped
<1>2. PICK d \in Delivery : d = [NoDelivery EXCEPT !.st = "waiting"]
  BY Constants DEF Delivery
<1>0. d.st = "waiting" /\ d.made = 0
  BY <1>2, Constants DEF NoDelivery, Delivery
<1>3. \A h \in Hooks, e \in Events : Added(delivery[h][e]) = IF delivery[h][e].st = "absent" THEN d ELSE delivery[h][e]
  BY <1>2 DEF Added
<1>4. \A h \in Hooks, e \in Events : Added(delivery[h][e]) \in Delivery
  BY <1>1, <1>3
<1>5. /\ delivery' = [h \in Hooks |->
                       IF h \in pub[p].hooks
                       THEN [delivery[h] EXCEPT ![pub[p].event] = Added(delivery[h][pub[p].event])]
                       ELSE delivery[h]]
      /\ UNCHANGED run
  BY DEF PublishAdd
<1>6. \A h \in Hooks : delivery'[h] \in [Events -> Delivery]
  BY <1>1, <1>4, <1>5
<1>7. \A h \in Hooks, e \in Events : delivery'[h][e] \in {delivery[h][e], Added(delivery[h][e])}
  BY <1>1, <1>5
<1>8. QED  BY <1>0, <1>3, <1>5, <1>6, <1>7

LEMMA QueueStepOK == ASSUME WellFormed, [Next]_vars PROVE QueueOK'
<1>wf. QueueOK /\ QueueTyped /\ RunOK /\ EntryOK /\ RestTyped
  BY Parts DEF QueueOK
<1>run. run \in [Slots -> Run]
  BY <1>wf DEF QueueTyped
<1>same. ASSUME UNCHANGED <<delivery, run>> PROVE QueueOK'
  BY <1>wf, <1>same DEF QueueOK, QueueTyped, RunOK, EntryOK, Holding, WorksOn
<1>down. ASSUME JobsSvcDown PROVE QueueOK'
  BY <1>wf, <1>down, SlotsFreed, Constants DEF JobsSvcDown
<1>1. ASSUME NEW w \in Slots,
             FindHook(w) \/ Skip(w) \/ RefuseTarget(w) \/ Post(w) \/ NetworkError(w)
             \/ Accepted(w) \/ AcceptedUnheard(w)
             \/ \E permanent \in BOOLEAN : Rejected(w, permanent)
      PROVE  QueueOK'
  <2>1. PICK pc \in Pcs, permanent \in BOOLEAN : Onward(w, pc, permanent)
    BY <1>wf, <1>1, ProcessorSteps
  <2>2. QED  BY <1>wf, <2>1, OnwardOK
<1>2. ASSUME NEW w \in Slots, Finish(w) \/ FailAttempt(w) PROVE QueueOK'
  <2>1. PICK h \in Hooks, e \in Events, d \in Delivery :
          /\ delivery' = [delivery EXCEPT ![h][e] = d] /\ run' = [run EXCEPT ![w] = IdleRun]
          /\ d.st \in {"completed", "failed", "delayed"} /\ (d.st = "delayed" => d.made < Attempts)
    BY <1>wf, <1>2, ReportSteps
  <2>2. run' \in [Slots -> Run] /\ \A u \in Slots : run'[u] = run[u] \/ run'[u] = IdleRun
    BY <1>run, <2>1, Constants
  <2>3. d.st # "active" /\ d.st # "absent" /\ (d.st \in {"waiting", "delayed"} => d.made < Attempts)
    BY <2>1
  <2>4. QED  BY <1>wf, <2>1, <2>2, <2>3, EntryLetGo
<1>3. ASSUME NEW w \in Slots, LateReport(w) PROVE QueueOK'
  BY <1>wf, <1>run, <1>3, SlotsFreed, Constants DEF LateReport
<1>4. ASSUME NEW w \in Slots, NEW h \in Hooks, NEW e \in Events, Take(w, h, e) PROVE QueueOK'
  <2>1. PICK d \in Delivery, q \in Run :
          /\ delivery' = [delivery EXCEPT ![h][e] = d] /\ run' = [run EXCEPT ![w] = q]
          /\ d.st = "active" /\ d.lock = w /\ d.made = delivery[h][e].made
          /\ q.pc \in {"find", "fail"} /\ q.hook = h /\ q.event = e /\ q.attempt = d.made + 1
          /\ q.attempt \in 1..Attempts
    BY <1>wf, <1>4, TakeStep
  <2>0. QueueTyped /\ delivery' = [delivery EXCEPT ![h][e] = d]
    BY <1>wf, <2>1
  <2>2. /\ delivery' \in [Hooks -> [Events -> Delivery]] /\ delivery'[h][e] = d
        /\ \A g \in Hooks, f \in Events : g # h \/ f # e => delivery'[g][f] = delivery[g][f]
    BY <2>0, EntryWritten
  <2>3. run' \in [Slots -> Run] /\ run'[w] = q /\ \A u \in Slots \ {w} : run'[u] = run[u]
    BY <1>wf, <2>1, RunWritten
  <2>4. QueueTyped' /\ RunOK'
    BY <1>wf, <2>1, <2>2, <2>3 DEF QueueTyped, RunOK
  <2>5. \A g \in Hooks, f \in Events : delivery'[g][f].st \in {"waiting", "delayed", "active"} => delivery'[g][f].made < Attempts
    <3>1. delivery[h][e].made < Attempts
      BY <1>4, <1>wf DEF Take, EntryOK
    <3>2. QED  BY <1>wf, <2>1, <2>2, <3>1 DEF EntryOK
  <2>6. ASSUME NEW u \in Slots, NEW g \in Hooks, NEW f \in Events, Holding(u, g, f)'
        PROVE  run'[u].attempt = delivery'[g][f].made + 1
    <3>1. CASE g = h /\ f = e
      BY <2>1, <2>2, <2>3, <2>6, <3>1 DEF Holding
    <3>2. CASE g # h \/ f # e
      <4>1. u # w
        BY <2>1, <2>3, <2>6, <3>2 DEF Holding, WorksOn
      <4>2. QED  BY <1>wf, <2>2, <2>3, <2>6, <3>2, <4>1 DEF Holding, WorksOn, EntryOK
    <3>3. QED  BY <3>1, <3>2
  <2>7. \A g \in Hooks, f \in Events :
            /\ delivery'[g][f].st = "absent" => delivery'[g][f].made = 0
            /\ delivery'[g][f].st = "active" => delivery'[g][f].lock \in Slots
    BY <1>wf, <2>1, <2>2 DEF EntryOK
  <2>8. QED  BY <2>4, <2>5, <2>6, <2>7 DEF QueueOK, EntryOK
<1>5. ASSUME NEW h \in Hooks, NEW e \in Events, Promote(h, e) PROVE QueueOK'
  <2>1. delivery[h][e] \in Delivery /\ delivery[h][e].made < Attempts
    BY <1>wf, <1>5 DEF QueueTyped, EntryOK, Promote
  <2>2. PICK d \in Delivery : d = [delivery[h][e] EXCEPT !.st = "waiting"]
    BY <2>1 DEF Delivery
  <2>3. d.st = "waiting" /\ d.made = delivery[h][e].made
    BY <2>1, <2>2 DEF Delivery
  <2>4. delivery' = [delivery EXCEPT ![h][e] = d] /\ UNCHANGED run
    BY <1>wf, <1>5, <2>2 DEF Promote, QueueTyped
  <2>5. d.st # "active" /\ d.st # "absent" /\ (d.st \in {"waiting", "delayed"} => d.made < Attempts)
    BY <2>1, <2>3
  <2>6. QED  BY <1>wf, <1>run, <2>4, <2>5, EntryLetGo
<1>6. ASSUME NEW h \in Hooks, NEW e \in Events, Stalled(h, e) \/ LockLost(h, e) PROVE QueueOK'
  <2>1. Requeue(h, e) /\ UNCHANGED run /\ delivery[h][e].st = "active"
    BY <1>6 DEF Stalled, LockLost
  <2>2. PICK d \in Delivery : delivery' = [delivery EXCEPT ![h][e] = d] /\ d.st = "waiting" /\ d.made = delivery[h][e].made
    BY <1>wf, <2>1, RequeueOK
  <2>3. d.made < Attempts
    BY <1>wf, <2>1, <2>2 DEF EntryOK
  <2>4. QED  BY <1>wf, <1>run, <2>1, <2>2, <2>3, EntryLetGo
<1>7. ASSUME NEW p \in Pubs, PublishAdd(p) PROVE QueueOK'
  <2>1. /\ delivery' \in [Hooks -> [Events -> Delivery]] /\ UNCHANGED run
        /\ \A h \in Hooks, e \in Events :
               \/ delivery'[h][e] = delivery[h][e]
               \/ delivery[h][e].st = "absent" /\ delivery'[h][e].st = "waiting" /\ delivery'[h][e].made = 0
    BY <1>wf, <1>7, AddStep
  <2>2. QueueTyped' /\ RunOK'
    BY <1>wf, <2>1 DEF QueueTyped, RunOK
  <2>3. \A u \in Slots, h \in Hooks, e \in Events : Holding(u, h, e)' => Holding(u, h, e) /\ delivery'[h][e] = delivery[h][e]
    BY <2>1 DEF Holding, WorksOn
  <2>4. EntryOK'
    BY <1>wf, <2>1, <2>3, Constants DEF EntryOK
  <2>5. QED  BY <2>2, <2>4 DEF QueueOK
<1>8. ASSUME NEW h \in Hooks,
             (\E types \in SUBSET Choices : RegisterWebhook(h, types)) \/ \E q \in Reqs : DeleteRead(q, h)
      PROVE  QueueOK'
  BY <1>8, <1>same DEF RegisterWebhook, DeleteRead, queueVars
<1>9. ASSUME NEW q \in Reqs, DeleteRow(q) PROVE QueueOK'
  BY <1>9, <1>same DEF DeleteRow, queueVars
<1>10. ASSUME NEW q \in Reqs, DeleteRowGone(q) PROVE QueueOK'
  BY <1>10, <1>down DEF DeleteRowGone
<1>11. ASSUME NEW p \in Pubs, PublishFind(p) \/ PublishLost(p) \/ \E e \in Events : PublishCall(p, e) PROVE QueueOK'
  BY <1>11, <1>same DEF PublishFind, PublishLost, PublishCall, queueVars
<1>12. CASE JobsSvcCrash
  BY <1>12, <1>down DEF JobsSvcCrash
<1>13. CASE UNCHANGED vars
  BY <1>13, <1>same DEF vars
<1>14. QED
  BY <1>1, <1>2, <1>3, <1>4, <1>5, <1>6, <1>7, <1>8, <1>9, <1>10, <1>11, <1>12, <1>13
     DEF Next, QueueStep, PublishStep, DeliverStep

LEMMA RestStepOK == ASSUME WellFormed, [Next]_vars PROVE RestTyped' /\ PubOK'
<1>wf. RestTyped /\ PubOK /\ QueueTyped /\ RunOK
  BY Parts DEF QueueOK
<1>same. ASSUME UNCHANGED <<hook, called, pub, req, sent, acked, unheard, late>>, faults' \in Nat
         PROVE  RestTyped' /\ PubOK'
  BY <1>wf, <1>same DEF RestTyped, PubOK
<1>down. ASSUME JobsSvcDown PROVE RestTyped' /\ PubOK'
  BY <1>wf, <1>down DEF JobsSvcDown, receiverVars, RestTyped, PubOK
<1>1. ASSUME NEW h \in Hooks, NEW types \in SUBSET Choices, RegisterWebhook(h, types)
      PROVE  RestTyped' /\ PubOK'
  <2>1. [st |-> "active", events |-> types] \in Hook
    BY WebhookAssumption DEF Hook
  <2>2. QED  BY <1>wf, <1>1, <2>1 DEF RegisterWebhook, receiverVars, RestTyped, PubOK
<1>2. ASSUME NEW h \in Hooks, NEW q \in Reqs, DeleteRead(q, h) PROVE RestTyped' /\ PubOK'
  BY <1>wf, <1>2 DEF DeleteRead, receiverVars, RestTyped, PubOK
<1>3. ASSUME NEW q \in Reqs, DeleteRow(q) PROVE RestTyped' /\ PubOK'
  <2>1. PICK h \in Hooks : h = req[q]
    BY <1>wf, <1>3 DEF DeleteRow, RestTyped
  <2>2. [hook[h] EXCEPT !.st = "deleted"] \in Hook
    BY <1>wf DEF RestTyped, Hook
  <2>3. hook' = [hook EXCEPT ![h] = [hook[h] EXCEPT !.st = "deleted"]]
    BY <1>wf, <1>3, <2>1 DEF DeleteRow, RestTyped
  <2>4. QED  BY <1>wf, <1>3, <2>2, <2>3 DEF DeleteRow, receiverVars, RestTyped, PubOK
<1>4. ASSUME NEW q \in Reqs, DeleteRowGone(q) PROVE RestTyped' /\ PubOK'
  BY <1>4, <1>down DEF DeleteRowGone
<1>5. ASSUME NEW p \in Pubs, NEW k \in Pub, k.pc # "idle" => k.event \in Events, pub' = [pub EXCEPT ![p] = k],
             UNCHANGED <<hook, req, sent, acked, unheard, late>>,
             called' \in [Events -> Nat], \A e \in Events : called'[e] <= MaxCalls[e], faults' \in Nat
      PROVE  RestTyped' /\ PubOK'
  BY <1>wf, <1>5 DEF RestTyped, PubOK
<1>6. ASSUME NEW p \in Pubs, NEW e \in Events, PublishCall(p, e) PROVE RestTyped' /\ PubOK'
  <2>0. PICK k \in Pub : k = [IdlePub EXCEPT !.pc = "find", !.event = e]
    BY DEF IdlePub, Pub
  <2>1. k = [IdlePub EXCEPT !.pc = "find", !.event = e] /\ k.event = e
    BY <2>0, Constants DEF Pub
  <2>2. called' = [called EXCEPT ![e] = called[e] + 1] /\ called[e] < MaxCalls[e]
    BY <1>6 DEF PublishCall
  <2>3. called' \in [Events -> Nat] /\ \A f \in Events : called'[f] <= MaxCalls[f]
    <3>1. called \in [Events -> Nat] /\ (\A f \in Events : called[f] <= MaxCalls[f]) /\ MaxCalls[e] \in Nat
      BY <1>wf, WebhookAssumption DEF RestTyped
    <3>2. called' \in [Events -> Nat] /\ \A f \in Events : called'[f] = IF f = e THEN called[e] + 1 ELSE called[f]
      BY <2>2, <3>1
    <3>3. called[e] + 1 <= MaxCalls[e]
      BY <2>2, <3>1
    <3>4. QED  BY <3>1, <3>2, <3>3
  <2>4. QED  BY <1>wf, <1>6, <2>1, <2>3, <1>5 DEF PublishCall, receiverVars, RestTyped
<1>7. ASSUME NEW p \in Pubs, PublishFind(p) PROVE RestTyped' /\ PubOK'
  <2>1. pub[p] \in Pub /\ pub[p].pc = "find" /\ pub[p].event \in Events
    BY <1>wf, <1>7 DEF RestTyped, PubOK, PublishFind
  <2>2. PICK hs \in SUBSET Hooks : hs = Subscribed(pub[p].event)
    BY DEF Subscribed
  <2>0. PICK k \in Pub : k = [pub[p] EXCEPT !.pc = "add", !.hooks = hs]
    BY <2>1 DEF Pub
  <2>3. k = [pub[p] EXCEPT !.pc = "add", !.hooks = hs] /\ k.event = pub[p].event
    BY <2>0, <2>1 DEF Pub
  <2>4. pub' = [pub EXCEPT ![p] = IdlePub] \/ pub' = [pub EXCEPT ![p] = k]
    BY <1>wf, <1>7, <2>2, <2>3 DEF PublishFind, RestTyped
  <2>5. UNCHANGED <<hook, called, req, sent, acked, unheard, late, faults>>
    BY <1>7 DEF PublishFind, receiverVars
  <2>6. called' \in [Events -> Nat] /\ (\A e \in Events : called'[e] <= MaxCalls[e]) /\ faults' \in Nat
    BY <1>wf, <2>5 DEF RestTyped
  <2>7. CASE pub' = [pub EXCEPT ![p] = IdlePub]
    BY <2>5, <2>6, <2>7, <1>5, Constants
  <2>8. CASE pub' = [pub EXCEPT ![p] = k]
    BY <2>1, <2>3, <2>5, <2>6, <2>8, <1>5
  <2>9. QED  BY <2>4, <2>7, <2>8
<1>8. ASSUME NEW p \in Pubs, PublishAdd(p) \/ PublishLost(p) PROVE RestTyped' /\ PubOK'
  <2>1. /\ pub' = [pub EXCEPT ![p] = IdlePub] /\ UNCHANGED <<hook, called, req, sent, acked, unheard, late>>
        /\ faults' \in {faults, faults + 1}
    BY <1>8 DEF PublishAdd, PublishLost, receiverVars
  <2>2. called' \in [Events -> Nat] /\ (\A e \in Events : called'[e] <= MaxCalls[e]) /\ faults' \in Nat
    BY <1>wf, <2>1 DEF RestTyped
  <2>3. QED  BY <2>1, <2>2, <1>5, Constants
<1>9. ASSUME NEW h \in Hooks, NEW e \in Events, QueueStep(h, e) \/ LockLost(h, e) PROVE RestTyped' /\ PubOK'
  <2>0. ASSUME QueueStep(h, e) PROVE UNCHANGED <<hook, called, pub, req, sent, acked, unheard, late, faults>>
    <3>1. ASSUME Promote(h, e) \/ Stalled(h, e)
          PROVE  UNCHANGED <<hook, called, pub, req, sent, acked, unheard, late, faults>>
      BY <3>1 DEF Promote, Stalled, receiverVars
    <3>3. ASSUME NEW w \in Slots, Take(w, h, e)
          PROVE  UNCHANGED <<hook, called, pub, req, sent, acked, unheard, late, faults>>
      BY <3>3 DEF Take, receiverVars
    <3>4. UNCHANGED <<hook, called, pub, req, sent, acked, unheard, late, faults>>
      BY <2>0, <3>1, <3>3 DEF QueueStep
    <3>5. QED  BY <3>4
  <2>1. faults' \in Nat
    BY <1>wf, <1>9, <2>0 DEF RestTyped, LockLost
  <2>2. UNCHANGED <<hook, called, pub, req, sent, acked, unheard, late>>
    BY <1>9, <2>0 DEF LockLost, receiverVars
  <2>3. QED  BY <2>1, <2>2, <1>same
<1>10. ASSUME NEW w \in Slots,
              FindHook(w) \/ Skip(w) \/ RefuseTarget(w) \/ NetworkError(w)
              \/ (\E permanent \in BOOLEAN : Rejected(w, permanent))
       PROVE  RestTyped' /\ PubOK'
  <2>1. UNCHANGED <<hook, called, pub, req, sent, acked, unheard, late, faults>>
    BY <1>10 DEF FindHook, Skip, RefuseTarget, NetworkError, Rejected, receiverVars
  <2>2. QED  BY <1>wf, <2>1, <1>same DEF RestTyped
<1>11. ASSUME NEW w \in Slots, Finish(w) \/ FailAttempt(w) \/ LateReport(w) PROVE RestTyped' /\ PubOK'
  <2>1. UNCHANGED <<hook, called, pub, req, sent, acked, unheard, late, faults>>
    BY <1>11 DEF Finish, FailAttempt, LateReport, Report, receiverVars
  <2>2. QED  BY <1>wf, <2>1, <1>same DEF RestTyped
<1>12. ASSUME NEW w \in Slots, Post(w) \/ Accepted(w) \/ AcceptedUnheard(w) PROVE RestTyped' /\ PubOK'
  <2>1. PICK h \in Hooks, e \in Events : h = run[w].hook /\ e = run[w].event
    BY <1>wf, <1>12 DEF RunOK, Post, Accepted, AcceptedUnheard
  <2>0. /\ sent \in [Hooks -> [Events -> Nat]] /\ acked \in [Hooks -> [Events -> Nat]]
        /\ unheard \in [Hooks -> [Events -> Nat]] /\ late \in [Hooks -> Nat]
    BY <1>wf DEF RestTyped
  <2>2. /\ sent' = sent \/ sent' = [sent EXCEPT ![h][e] = @ + 1]
        /\ acked' = acked \/ acked' = [acked EXCEPT ![h][e] = @ + 1]
        /\ unheard' = unheard \/ unheard' = [unheard EXCEPT ![h][e] = @ + 1]
        /\ late' = late \/ late' = [late EXCEPT ![h] = @ + 1]
        /\ UNCHANGED <<hook, called, pub, req, faults>>
    BY <1>12, <2>1 DEF Post, Accepted, AcceptedUnheard
  <2>3. sent' \in [Hooks -> [Events -> Nat]]
    <3>1. sent \in [Hooks -> [Events -> Nat]]
      BY <2>0
    <3>2. [sent EXCEPT ![h][e] = @ + 1] \in [Hooks -> [Events -> Nat]]
      BY <3>1
    <3>3. sent' = sent \/ sent' = [sent EXCEPT ![h][e] = @ + 1]
      BY <2>2
    <3>4. QED  BY <3>1, <3>2, <3>3
  <2>5. acked' \in [Hooks -> [Events -> Nat]]
    <3>1. acked \in [Hooks -> [Events -> Nat]]
      BY <2>0
    <3>2. [acked EXCEPT ![h][e] = @ + 1] \in [Hooks -> [Events -> Nat]]
      BY <3>1
    <3>3. acked' = acked \/ acked' = [acked EXCEPT ![h][e] = @ + 1]
      BY <2>2
    <3>4. QED  BY <3>1, <3>2, <3>3
  <2>7. unheard' \in [Hooks -> [Events -> Nat]]
    <3>1. unheard \in [Hooks -> [Events -> Nat]]
      BY <2>0
    <3>2. [unheard EXCEPT ![h][e] = @ + 1] \in [Hooks -> [Events -> Nat]]
      BY <3>1
    <3>3. unheard' = unheard \/ unheard' = [unheard EXCEPT ![h][e] = @ + 1]
      BY <2>2
    <3>4. QED  BY <3>1, <3>2, <3>3
  <2>6. late' \in [Hooks -> Nat]
    BY <2>0, <2>2
  <2>4. QED  BY <1>wf, <2>2, <2>3, <2>5, <2>6, <2>7 DEF RestTyped, PubOK
<1>13. CASE JobsSvcCrash
  BY <1>13, <1>down DEF JobsSvcCrash
<1>14. CASE UNCHANGED vars
  BY <1>wf, <1>14, <1>same DEF vars, RestTyped
<1>15. QED
  BY <1>1, <1>2, <1>3, <1>4, <1>6, <1>7, <1>8, <1>9, <1>10, <1>11, <1>12, <1>13, <1>14
     DEF Next, PublishStep, DeliverStep

LEMMA WellFormedStep == ASSUME WellFormed, [Next]_vars PROVE WellFormed'
<1>1. QueueOK' /\ RestTyped' /\ PubOK'
  BY QueueStepOK, RestStepOK
<1>2. QED  BY <1>1 DEF WellFormed, QueueOK, QueueTyped, RestTyped, TypeOK

\* A delivery that is not over has an attempt left, and whoever holds it is at the next one.
THEOREM DeliveryWellFormed == Spec => []WellFormed
<1>1. QED  BY WellFormedInit, WellFormedStep, PTL DEF Spec

\* Type correctness: no delivery is taken more often than Attempts.
THEOREM DeliveryTypeCorrect == Spec => []TypeOK
<1>1. WellFormed => TypeOK
  BY DEF WellFormed
<1>2. QED  BY <1>1, DeliveryWellFormed, PTL

-----------------------------------------------------------------------------
(* Slots that work behind BullMQ's back *)

Behind(w, h, e) == WorksOn(w, h, e) /\ ~Holding(w, h, e)

\* Those that may still post, and those that may still be accepted.
Unposted(h, e)   == {w \in Slots : Behind(w, h, e) /\ run[w].pc \in {"find", "send"}}
Unaccepted(h, e) == {w \in Slots : Behind(w, h, e) /\ run[w].pc \in {"find", "send", "answer"}}

\* What the rightful slot has done: it may have posted, or been accepted for good.
Posted(h, e) == delivery[h][e].made +
    IF \E w \in Slots : Holding(w, h, e) /\ run[w].pc \notin {"find", "send"} THEN 1 ELSE 0
Over(h, e) ==
    IF \/ delivery[h][e].st = "completed"
       \/ \E w \in Slots : Holding(w, h, e) /\ run[w].pc = "done"
    THEN 1 ELSE 0

SentOK == \A h \in Hooks, e \in Events :
    sent[h][e] + Cardinality(Unposted(h, e)) <= faults + Posted(h, e)
AckedOK == \A h \in Hooks, e \in Events :
    acked[h][e] + Cardinality(Unaccepted(h, e)) <= faults + unheard[h][e] + Over(h, e)

LEMMA Finite ==
    /\ \A S \in SUBSET Slots : IsFiniteSet(S) /\ Cardinality(S) \in Nat
    /\ \A S, T \in SUBSET Slots : S \subseteq T => Cardinality(S) <= Cardinality(T)
    /\ \A S, T \in SUBSET Slots : \A w \in T : S \subseteq T \ {w} => Cardinality(S) + 1 <= Cardinality(T)
    /\ \A S, T \in SUBSET Slots : \A w : S \subseteq T \cup {w} => Cardinality(S) <= Cardinality(T) + 1
<1>1. \A S \in SUBSET Slots : IsFiniteSet(S) /\ Cardinality(S) \in Nat
  BY WebhookAssumption, FS_Subset, FS_CardinalityType
<1>2. ASSUME NEW T \in SUBSET Slots, NEW S, S \subseteq T PROVE Cardinality(S) <= Cardinality(T)
  BY <1>1, <1>2, FS_Subset
<1>3. ASSUME NEW S \in SUBSET Slots, NEW T \in SUBSET Slots, NEW w \in T, S \subseteq T \ {w}
      PROVE  Cardinality(S) + 1 <= Cardinality(T)
  <2>1. IsFiniteSet(T) /\ Cardinality(T) \in Nat /\ Cardinality(S) \in Nat
    BY <1>1
  <2>2. Cardinality(T \ {w}) = Cardinality(T) - 1
    BY <2>1, FS_RemoveElement
  <2>3. T \ {w} \in SUBSET Slots
    OBVIOUS
  <2>4. Cardinality(S) <= Cardinality(T \ {w})
    BY <1>2, <1>3, <2>3
  <2>5. QED  BY <2>1, <2>2, <2>4
<1>4. ASSUME NEW S \in SUBSET Slots, NEW T \in SUBSET Slots, NEW w, S \subseteq T \cup {w}
      PROVE  Cardinality(S) <= Cardinality(T) + 1
  <2>1. IsFiniteSet(T) /\ Cardinality(T) \in Nat /\ Cardinality(S) \in Nat
    BY <1>1
  <2>2. IsFiniteSet(T \cup {w}) /\ Cardinality(T \cup {w}) <= Cardinality(T) + 1 /\ Cardinality(T \cup {w}) \in Nat
    BY <2>1, FS_AddElement
  <2>3. Cardinality(S) <= Cardinality(T \cup {w})
    BY <1>4, <2>2, FS_Subset
  <2>4. QED  BY <2>1, <2>2, <2>3
<1>5. QED  BY <1>1, <1>2, <1>3, <1>4

LEMMA Sizes ==
    ASSUME QueueTyped, NEW h \in Hooks, NEW e \in Events
    PROVE  /\ Unposted(h, e) \in SUBSET Slots /\ Unaccepted(h, e) \in SUBSET Slots
           /\ Over(h, e) \in 0..1 /\ Posted(h, e) \in Nat
           /\ Cardinality(Unposted(h, e)) \in Nat /\ Cardinality(Unaccepted(h, e)) \in Nat
<1>1. Unposted(h, e) \in SUBSET Slots /\ Unaccepted(h, e) \in SUBSET Slots
  BY DEF Unposted, Unaccepted
<1>2. Over(h, e) \in 0..1
  BY DEF Over
<1>3. Posted(h, e) \in Nat
  <2>1. delivery[h][e].made \in Nat
    BY Fields, Constants DEF QueueTyped
  <2>2. QED  BY <2>1 DEF Posted
<1>4. QED  BY <1>1, <1>2, <1>3, Finite

\* A delivery where nobody starts to work behind BullMQ's back, and nothing
\* that the rightful slot did is forgotten.
Advances(h, e) ==
    /\ Unposted(h, e)' \subseteq Unposted(h, e) /\ Unaccepted(h, e)' \subseteq Unaccepted(h, e)
    /\ Posted(h, e) <= Posted(h, e)' /\ Over(h, e) <= Over(h, e)'

\* A delivery and the slots that work on it are as they were.
LEMMA Untouched ==
    ASSUME QueueTyped, NEW h \in Hooks, NEW e \in Events, delivery'[h][e] = delivery[h][e],
           \A w \in Slots : run'[w] = run[w] \/ (~WorksOn(w, h, e) /\ ~WorksOn(w, h, e)')
    PROVE  Advances(h, e)
<1>1. \A w \in Slots : /\ WorksOn(w, h, e)' <=> WorksOn(w, h, e)
                       /\ WorksOn(w, h, e) => run'[w] = run[w]
  BY DEF WorksOn
<1>2. \A w \in Slots : Holding(w, h, e)' <=> Holding(w, h, e)
  BY <1>1 DEF Holding
<1>3. Unposted(h, e)' = Unposted(h, e) /\ Unaccepted(h, e)' = Unaccepted(h, e)
  BY <1>1, <1>2 DEF Unposted, Unaccepted, Behind
<1>4. Posted(h, e)' = Posted(h, e)
  BY <1>1, <1>2 DEF Posted, Holding
<1>5. Over(h, e)' = Over(h, e)
  BY <1>1, <1>2 DEF Over, Holding
<1>6. Over(h, e) \in 0..1 /\ Posted(h, e) \in Nat
  BY Sizes
<1>7. QED  BY <1>3, <1>4, <1>5, <1>6 DEF Advances

LEMMA OnwardAdvances ==
    ASSUME QueueOK, NEW w \in Slots, NEW pc \in Pcs, NEW permanent \in BOOLEAN, Onward(w, pc, permanent),
           \/ pc = "send" /\ run[w].pc = "find"
           \/ pc = "answer" /\ run[w].pc = "send"
           \/ pc \in {"done", "fail"} /\ run[w].pc \in {"find", "send", "answer"},
           NEW h \in Hooks, NEW e \in Events
    PROVE  /\ Advances(h, e)
           /\ Behind(w, h, e) /\ run[w].pc = "send" => Unposted(h, e)' \subseteq Unposted(h, e) \ {w}
           /\ Behind(w, h, e) /\ run[w].pc = "answer" => Unaccepted(h, e)' \subseteq Unaccepted(h, e) \ {w}
           /\ Holding(w, h, e)' = Holding(w, h, e)
<1>0. QueueTyped
  BY DEF QueueOK
<1>1. /\ run' \in [Slots -> Run] /\ UNCHANGED delivery
      /\ \A u \in Slots \ {w} : run'[u] = run[u]
      /\ run'[w].pc = pc /\ run'[w].hook = run[w].hook /\ run'[w].event = run[w].event
      /\ run'[w].attempt = run[w].attempt
  BY <1>0, OnwardRun
<1>2. \A u \in Slots : (WorksOn(u, h, e)' <=> WorksOn(u, h, e)) /\ (Holding(u, h, e)' <=> Holding(u, h, e))
  BY <1>1 DEF Holding, WorksOn
<1>3. \A u \in Slots : run'[u].pc = run[u].pc \/ (u = w /\ run'[u].pc = pc)
  BY <1>1
<1>4. \A u \in Slots : Behind(u, h, e)' <=> Behind(u, h, e)
  BY <1>2 DEF Behind
<1>5. /\ Unposted(h, e)' \subseteq Unposted(h, e)
      /\ Behind(w, h, e) /\ run[w].pc = "send" => Unposted(h, e)' \subseteq Unposted(h, e) \ {w}
  BY <1>1, <1>3, <1>4 DEF Unposted
<1>6. /\ Unaccepted(h, e)' \subseteq Unaccepted(h, e)
      /\ Behind(w, h, e) /\ run[w].pc = "answer" => Unaccepted(h, e)' \subseteq Unaccepted(h, e) \ {w}
  BY <1>1, <1>3, <1>4 DEF Unaccepted
<1>7. Posted(h, e) <= Posted(h, e)'
  <2>1. (\E u \in Slots : Holding(u, h, e) /\ run[u].pc \notin {"find", "send"}) =>
        (\E u \in Slots : Holding(u, h, e)' /\ run'[u].pc \notin {"find", "send"})
    BY <1>2, <1>3
  <2>2. delivery[h][e].made \in Nat /\ delivery' = delivery
    BY <1>0, <1>1, Fields DEF QueueTyped
  <2>3. QED  BY <2>1, <2>2 DEF Posted
<1>8. Over(h, e) <= Over(h, e)'
  <2>1. (\E u \in Slots : Holding(u, h, e) /\ run[u].pc = "done") =>
        (\E u \in Slots : Holding(u, h, e)' /\ run'[u].pc = "done")
    BY <1>2, <1>3
  <2>2. QED  BY <1>1, <2>1 DEF Over
<1>9. Holding(w, h, e)' = Holding(w, h, e)
  BY <1>1 DEF Holding, WorksOn
<1>10. QED  BY <1>5, <1>6, <1>7, <1>8, <1>9 DEF Advances

LEMMA ReportAdvances ==
    ASSUME WellFormed, NEW w \in Slots, Finish(w) \/ FailAttempt(w), NEW g \in Hooks, NEW f \in Events
    PROVE  Advances(g, f)
<1>0. QueueOK /\ QueueTyped /\ RunOK
  BY Parts DEF QueueOK
<1>1. PICK h \in Hooks, e \in Events, d \in Delivery :
        /\ Holding(w, h, e) /\ delivery' = [delivery EXCEPT ![h][e] = d]
        /\ run' = [run EXCEPT ![w] = IdleRun]
        /\ d.st \in {"completed", "failed", "delayed"} /\ d.made = delivery[h][e].made + 1
        /\ run[w].pc = "done" => d.st = "completed"
  BY <1>0, ReportSteps
<1>3. /\ delivery'[h][e] = d
      /\ \A i \in Hooks, j \in Events : i # h \/ j # e => delivery'[i][j] = delivery[i][j]
  <2>1. delivery \in [Hooks -> [Events -> Delivery]]
    BY <1>0 DEF QueueTyped
  <2>2. delivery' = [delivery EXCEPT ![h][e] = d]
    BY <1>1
  <2>3. QED  BY <2>1, <2>2
<1>4. run'[w] = IdleRun /\ \A u \in Slots \ {w} : run'[u] = run[u]
  BY <1>0, <1>1 DEF QueueTyped
<1>5. CASE g # h \/ f # e
  <2>1. \A u \in Slots : run'[u] = run[u] \/ (~WorksOn(u, g, f) /\ ~WorksOn(u, g, f)')
    BY <1>1, <1>4, <1>5, Constants DEF Holding, WorksOn
  <2>2. delivery'[g][f] = delivery[g][f]
    BY <1>3, <1>5
  <2>3. QED  BY <1>0, <2>1, <2>2, Untouched
<1>6. CASE g = h /\ f = e
  <2>1. \A u \in Slots : ~Holding(u, h, e)'
    BY <1>1, <1>3 DEF Holding
  <2>2. \A u \in Slots : Holding(u, h, e) => u = w
    BY <1>1 DEF Holding
  <2>3. \A u \in Slots : WorksOn(u, h, e)' => u # w /\ WorksOn(u, h, e) /\ run'[u] = run[u]
    BY <1>4, Constants DEF WorksOn
  <2>4. Unposted(h, e)' \subseteq Unposted(h, e) /\ Unaccepted(h, e)' \subseteq Unaccepted(h, e)
    BY <2>2, <2>3 DEF Unposted, Unaccepted, Behind
  <2>5. delivery[h][e].made \in Nat /\ delivery[h][e].st = "active"
    BY <1>0, <1>1, Fields, Constants DEF QueueTyped, Holding
  <2>6. Posted(h, e) <= Posted(h, e)'
    BY <1>1, <1>3, <2>1, <2>5 DEF Posted
  <2>7. Over(h, e) <= Over(h, e)'
    BY <1>1, <1>3, <2>2, <2>5 DEF Over
  <2>8. QED  BY <1>6, <2>4, <2>6, <2>7 DEF Advances
<1>7. QED  BY <1>5, <1>6

LEMMA LateAdvances ==
    ASSUME WellFormed, NEW w \in Slots, LateReport(w), NEW h \in Hooks, NEW e \in Events
    PROVE  Advances(h, e)
<1>0. QueueTyped
  BY Parts DEF QueueOK
<1>1. /\ run[w].pc \in {"done", "fail"} /\ ~Holds(w) /\ delivery' = delivery
      /\ run'[w] = IdleRun /\ \A u \in Slots \ {w} : run'[u] = run[u]
  BY <1>0 DEF LateReport, QueueTyped
<1>2. ~Holding(w, h, e)
  BY <1>1 DEF Holds, Holding, WorksOn
<1>3. ~WorksOn(w, h, e)'
  BY <1>1, Constants DEF WorksOn
<1>4. \A u \in Slots : /\ Holding(u, h, e)' <=> Holding(u, h, e)
                       /\ WorksOn(u, h, e)' => WorksOn(u, h, e) /\ u # w
                       /\ Holding(u, h, e) => u # w
  BY <1>1, <1>2, <1>3 DEF Holding, WorksOn
<1>5. Unposted(h, e)' \subseteq Unposted(h, e) /\ Unaccepted(h, e)' \subseteq Unaccepted(h, e)
  BY <1>1, <1>4 DEF Unposted, Unaccepted, Behind
<1>6. delivery[h][e].made \in Nat
  BY <1>0, Fields, Constants DEF QueueTyped
<1>7. Posted(h, e)' = Posted(h, e)
  BY <1>1, <1>4 DEF Posted
<1>8. Over(h, e)' = Over(h, e)
  BY <1>1, <1>4 DEF Over
<1>9. Over(h, e) \in 0..1 /\ Posted(h, e) \in Nat
  BY <1>0, Sizes
<1>10. QED  BY <1>5, <1>7, <1>8, <1>9 DEF Advances

LEMMA TakeAdvances ==
    ASSUME WellFormed, NEW w \in Slots, NEW h \in Hooks, NEW e \in Events, Take(w, h, e),
           NEW g \in Hooks, NEW f \in Events
    PROVE  Advances(g, f)
<1>0. QueueOK /\ QueueTyped /\ RunOK
  BY Parts DEF QueueOK
<1>1. PICK d \in Delivery, q \in Run :
        /\ delivery' = [delivery EXCEPT ![h][e] = d] /\ run' = [run EXCEPT ![w] = q]
        /\ d.st = "active" /\ d.lock = w /\ d.made = delivery[h][e].made
        /\ q.hook = h /\ q.event = e
  BY <1>0, TakeStep
<1>3. /\ delivery'[h][e] = d
      /\ \A i \in Hooks, j \in Events : i # h \/ j # e => delivery'[i][j] = delivery[i][j]
  <2>1. delivery \in [Hooks -> [Events -> Delivery]]
    BY <1>0 DEF QueueTyped
  <2>2. delivery' = [delivery EXCEPT ![h][e] = d]
    BY <1>1
  <2>3. QED  BY <2>1, <2>2
<1>4. run'[w] = q /\ \A u \in Slots \ {w} : run'[u] = run[u]
  BY <1>0, <1>1 DEF QueueTyped
<1>5. run[w].pc = "idle" /\ delivery[h][e].st = "waiting"
  BY <1>0, TakeStep
<1>6. \A i \in Hooks, j \in Events : ~WorksOn(w, i, j)
  BY <1>0, <1>5, Constants DEF RunOK, WorksOn
<1>7. CASE g # h \/ f # e
  <2>1. \A u \in Slots : run'[u] = run[u] \/ (~WorksOn(u, g, f) /\ ~WorksOn(u, g, f)')
    BY <1>1, <1>4, <1>6, <1>7 DEF WorksOn
  <2>2. delivery'[g][f] = delivery[g][f]
    BY <1>3, <1>7
  <2>3. QED  BY <1>0, <2>1, <2>2, Untouched
<1>8. CASE g = h /\ f = e
  <2>1. \A u \in Slots : ~Holding(u, h, e)
    BY <1>5 DEF Holding
  <2>2. Holding(w, h, e)'
    BY <1>1, <1>3, <1>4 DEF Holding, WorksOn
  <2>3. \A u \in Slots : Behind(u, h, e)' => Behind(u, h, e) /\ run'[u] = run[u]
    BY <1>4, <2>1, <2>2 DEF Behind, WorksOn
  <2>4. Unposted(h, e)' \subseteq Unposted(h, e) /\ Unaccepted(h, e)' \subseteq Unaccepted(h, e)
    BY <2>3 DEF Unposted, Unaccepted
  <2>5. delivery[h][e].made \in Nat
    BY <1>0, Fields, Constants DEF QueueTyped
  <2>6. Posted(h, e) <= Posted(h, e)'
    BY <1>1, <1>3, <2>1, <2>5 DEF Posted
  <2>7. Over(h, e) <= Over(h, e)'
    BY <1>5, <2>1 DEF Over
  <2>8. QED  BY <1>8, <2>4, <2>6, <2>7 DEF Advances
<1>9. QED  BY <1>7, <1>8

\* An entry that no slot holds, neither before nor after.
LEMMA UnheldAdvances ==
    ASSUME QueueTyped, NEW h \in Hooks, NEW e \in Events, UNCHANGED run,
           \A u \in Slots : ~Holding(u, h, e) /\ ~Holding(u, h, e)',
           delivery'[h][e].made = delivery[h][e].made,
           delivery[h][e].st = "completed" => delivery'[h][e].st = "completed"
    PROVE  Advances(h, e)
<1>1. Unposted(h, e)' = Unposted(h, e) /\ Unaccepted(h, e)' = Unaccepted(h, e)
  BY DEF Unposted, Unaccepted, Behind, WorksOn
<1>2. delivery[h][e].made \in Nat
  BY Fields, Constants DEF QueueTyped
<1>3. Posted(h, e) <= Posted(h, e)'
  BY <1>2 DEF Posted
<1>4. Over(h, e) <= Over(h, e)'
  BY DEF Over
<1>5. QED  BY <1>1, <1>3, <1>4 DEF Advances

LEMMA NextSizes ==
    ASSUME QueueTyped', NEW h \in Hooks, NEW e \in Events
    PROVE  /\ Unposted(h, e)' \in SUBSET Slots /\ Unaccepted(h, e)' \in SUBSET Slots
           /\ Over(h, e)' \in 0..1 /\ Posted(h, e)' \in Nat
           /\ Cardinality(Unposted(h, e)') \in Nat /\ Cardinality(Unaccepted(h, e)') \in Nat
<1>1. Unposted(h, e)' \in SUBSET Slots /\ Unaccepted(h, e)' \in SUBSET Slots
  BY DEF Unposted, Unaccepted
<1>2. Over(h, e)' \in 0..1
  BY DEF Over
<1>3. Posted(h, e)' \in Nat
  <2>1. delivery'[h][e].made \in Nat
    BY Fields, Constants DEF QueueTyped
  <2>2. QED  BY <2>1 DEF Posted
<1>4. QED  BY <1>1, <1>2, <1>3, Finite

\* What may still be posted or accepted grows by the faults at most.
Balanced(h, e) ==
    /\ Cardinality(Unposted(h, e)') + Posted(h, e) + faults
         <= Cardinality(Unposted(h, e)) + Posted(h, e)' + faults'
    /\ Cardinality(Unaccepted(h, e)') + Over(h, e) + faults
         <= Cardinality(Unaccepted(h, e)) + Over(h, e)' + faults'

LEMMA AdvancesBalanced ==
    ASSUME QueueTyped, QueueTyped', NEW h \in Hooks, NEW e \in Events, Advances(h, e),
           faults \in Nat, faults' \in {faults, faults + 1}
    PROVE  Balanced(h, e)
<1>1. /\ Unposted(h, e) \in SUBSET Slots /\ Unaccepted(h, e) \in SUBSET Slots
      /\ Over(h, e) \in 0..1 /\ Posted(h, e) \in Nat
      /\ Cardinality(Unposted(h, e)) \in Nat /\ Cardinality(Unaccepted(h, e)) \in Nat
  BY Sizes
<1>2. /\ Unposted(h, e)' \in SUBSET Slots /\ Unaccepted(h, e)' \in SUBSET Slots
      /\ Over(h, e)' \in 0..1 /\ Posted(h, e)' \in Nat
      /\ Cardinality(Unposted(h, e)') \in Nat /\ Cardinality(Unaccepted(h, e)') \in Nat
  BY NextSizes
<1>3. /\ Unposted(h, e)' \subseteq Unposted(h, e) /\ Unaccepted(h, e)' \subseteq Unaccepted(h, e)
      /\ Posted(h, e) <= Posted(h, e)' /\ Over(h, e) <= Over(h, e)'
  BY DEF Advances
<1>4. /\ Cardinality(Unposted(h, e)') <= Cardinality(Unposted(h, e))
      /\ Cardinality(Unaccepted(h, e)') <= Cardinality(Unaccepted(h, e))
  BY <1>1, <1>2, <1>3, Finite
<1>5. QED  BY <1>1, <1>2, <1>3, <1>4 DEF Balanced

\* A crash frees every slot: what the rightful ones did is forgotten once.
LEMMA DownBalanced ==
    ASSUME QueueTyped, QueueTyped', NEW h \in Hooks, NEW e \in Events, JobsSvcDown, faults \in Nat
    PROVE  Balanced(h, e)
<1>1. /\ Cardinality(Unposted(h, e)) \in Nat /\ Cardinality(Unaccepted(h, e)) \in Nat
      /\ Over(h, e) \in 0..1 /\ Over(h, e)' \in 0..1
  BY Sizes, NextSizes
<1>2. \A u \in Slots : ~WorksOn(u, h, e)'
  BY Constants DEF JobsSvcDown, WorksOn
<1>3. Unposted(h, e)' = {} /\ Unaccepted(h, e)' = {}
  BY <1>2 DEF Unposted, Unaccepted, Behind
<1>4. Cardinality(Unposted(h, e)') = 0 /\ Cardinality(Unaccepted(h, e)') = 0
  BY <1>3, FS_EmptySet
<1>5. Posted(h, e) \in Nat /\ Posted(h, e)' \in Nat /\ Posted(h, e) <= Posted(h, e)' + 1
  <2>1. delivery[h][e].made \in Nat /\ delivery' = delivery
    BY Fields, Constants DEF QueueTyped, JobsSvcDown
  <2>2. QED  BY <2>1 DEF Posted
<1>6. faults' = faults + 1
  BY DEF JobsSvcDown
<1>7. QED  BY <1>1, <1>4, <1>5, <1>6 DEF Balanced

\* A lost lock leaves its slot working behind BullMQ's back.
LEMMA LockLostBalanced ==
    ASSUME WellFormed, WellFormed', NEW h \in Hooks, NEW e \in Events, LockLost(h, e),
           NEW g \in Hooks, NEW f \in Events
    PROVE  Balanced(g, f)
<1>0. QueueTyped /\ QueueTyped' /\ EntryOK /\ faults \in Nat
  BY DEF WellFormed, TypeOK, QueueTyped
<1>1. faults' = faults + 1 /\ UNCHANGED run /\ delivery[h][e].st = "active" /\ Requeue(h, e)
  BY DEF LockLost
<1>2. PICK w \in Slots : w = delivery[h][e].lock
  BY <1>0, <1>1 DEF EntryOK
<1>3. Holding(w, h, e)
  BY <1>1, <1>2 DEF LockLost, Holding
<1>4. PICK d \in Delivery :
        delivery' = [delivery EXCEPT ![h][e] = d] /\ d.st = "waiting" /\ d.made = delivery[h][e].made
  BY <1>0, <1>1, RequeueOK
<1>5. /\ delivery'[h][e] = d
      /\ \A i \in Hooks, j \in Events : i # h \/ j # e => delivery'[i][j] = delivery[i][j]
  <2>1. delivery \in [Hooks -> [Events -> Delivery]]
    BY <1>0 DEF QueueTyped
  <2>2. delivery' = [delivery EXCEPT ![h][e] = d]
    BY <1>4
  <2>3. QED  BY <2>1, <2>2
<1>6. CASE g # h \/ f # e
  <2>1. delivery'[g][f] = delivery[g][f]
    BY <1>5, <1>6
  <2>2. Advances(g, f)
    BY <1>0, <1>1, <2>1, Untouched
  <2>3. QED  BY <1>0, <1>1, <2>2, AdvancesBalanced
<1>7. CASE g = h /\ f = e
  <2>1. \A u \in Slots : ~Holding(u, h, e)' /\ (WorksOn(u, h, e)' <=> WorksOn(u, h, e))
    BY <1>1, <1>4, <1>5 DEF Holding, WorksOn
  <2>2. \A u \in Slots : Holding(u, h, e) <=> u = w
    BY <1>2, <1>3 DEF Holding
  <2>3. delivery[h][e].made \in Nat /\ delivery'[h][e].made = delivery[h][e].made /\ delivery'[h][e].st = "waiting"
    BY <1>0, <1>4, <1>5, Fields, Constants DEF QueueTyped
  <2>4. Posted(h, e)' = delivery[h][e].made
    BY <2>1, <2>3 DEF Posted
  <2>5. Posted(h, e) = delivery[h][e].made + IF run[w].pc \notin {"find", "send"} THEN 1 ELSE 0
    BY <2>2 DEF Posted
  <2>6. Over(h, e)' = 0
    BY <2>1, <2>3 DEF Over
  <2>7. Over(h, e) = IF run[w].pc = "done" THEN 1 ELSE 0
    BY <1>1, <2>2 DEF Over
  <2>8. /\ Unposted(h, e)' = {u \in Slots : WorksOn(u, h, e) /\ run[u].pc \in {"find", "send"}}
        /\ Unaccepted(h, e)' = {u \in Slots : WorksOn(u, h, e) /\ run[u].pc \in {"find", "send", "answer"}}
    BY <1>1, <2>1 DEF Unposted, Unaccepted, Behind
  <2>9. /\ Unposted(h, e)' \subseteq Unposted(h, e) \cup {w}
        /\ run[w].pc \notin {"find", "send"} => Unposted(h, e)' \subseteq Unposted(h, e)
    BY <2>2, <2>8 DEF Unposted, Behind
  <2>10. /\ Unaccepted(h, e)' \subseteq Unaccepted(h, e) \cup {w}
         /\ run[w].pc \notin {"find", "send", "answer"} => Unaccepted(h, e)' \subseteq Unaccepted(h, e)
    BY <2>2, <2>8 DEF Unaccepted, Behind
  <2>11. /\ Unposted(h, e) \in SUBSET Slots /\ Unaccepted(h, e) \in SUBSET Slots
         /\ Unposted(h, e)' \in SUBSET Slots /\ Unaccepted(h, e)' \in SUBSET Slots
         /\ Cardinality(Unposted(h, e)) \in Nat /\ Cardinality(Unaccepted(h, e)) \in Nat
         /\ Cardinality(Unposted(h, e)') \in Nat /\ Cardinality(Unaccepted(h, e)') \in Nat
    BY <1>0, Sizes, NextSizes
  <2>12. /\ Cardinality(Unposted(h, e)') <= Cardinality(Unposted(h, e)) + 1
         /\ run[w].pc \notin {"find", "send"} => Cardinality(Unposted(h, e)') <= Cardinality(Unposted(h, e))
    BY <2>9, <2>11, Finite
  <2>13. /\ Cardinality(Unaccepted(h, e)') <= Cardinality(Unaccepted(h, e)) + 1
         /\ run[w].pc \notin {"find", "send", "answer"} => Cardinality(Unaccepted(h, e)') <= Cardinality(Unaccepted(h, e))
    BY <2>10, <2>11, Finite
  <2>14. Cardinality(Unposted(h, e)') + Posted(h, e) + faults <= Cardinality(Unposted(h, e)) + Posted(h, e)' + faults'
    BY <1>0, <1>1, <2>3, <2>4, <2>5, <2>11, <2>12
  <2>15. Cardinality(Unaccepted(h, e)') + Over(h, e) + faults <= Cardinality(Unaccepted(h, e)) + Over(h, e)' + faults'
    BY <1>0, <1>1, <2>6, <2>7, <2>11, <2>13
  <2>16. QED  BY <1>7, <2>14, <2>15 DEF Balanced
<1>8. QED  BY <1>6, <1>7

LEMMA BalancedStep ==
    ASSUME WellFormed, WellFormed', [Next]_vars, NEW g \in Hooks, NEW f \in Events
    PROVE  Balanced(g, f)
<1>wf. QueueOK /\ QueueTyped /\ QueueTyped' /\ RestTyped /\ EntryOK /\ faults \in Nat
  BY Parts DEF QueueOK, WellFormed, TypeOK, QueueTyped
<1>adv. ASSUME Advances(g, f), faults' \in {faults, faults + 1} PROVE Balanced(g, f)
  BY <1>wf, <1>adv, AdvancesBalanced
<1>same. ASSUME UNCHANGED <<delivery, run>>, faults' \in {faults, faults + 1} PROVE Balanced(g, f)
  <2>1. Advances(g, f)
    BY <1>wf, <1>same, Untouched
  <2>2. QED  BY <1>same, <1>adv, <2>1
<1>down. ASSUME JobsSvcDown PROVE Balanced(g, f)
  BY <1>wf, <1>down, DownBalanced
<1>1. ASSUME NEW w \in Slots,
             FindHook(w) \/ Skip(w) \/ RefuseTarget(w) \/ Post(w) \/ NetworkError(w)
             \/ Accepted(w) \/ AcceptedUnheard(w)
             \/ \E permanent \in BOOLEAN : Rejected(w, permanent)
      PROVE  Balanced(g, f)
  <2>1. PICK pc \in Pcs, permanent \in BOOLEAN :
               /\ Onward(w, pc, permanent)
               /\ \/ pc = "send" /\ run[w].pc = "find"
                  \/ pc = "answer" /\ run[w].pc = "send"
                  \/ pc \in {"done", "fail"} /\ run[w].pc \in {"find", "send", "answer"}
    BY <1>wf, <1>1, ProcessorSteps
  <2>2. Advances(g, f)
    BY <1>wf, <2>1, OnwardAdvances
  <2>3. faults' = faults
    BY <1>1 DEF FindHook, Skip, RefuseTarget, Post, NetworkError, Accepted, AcceptedUnheard, Rejected
  <2>4. QED  BY <1>adv, <2>2, <2>3
<1>2. ASSUME NEW w \in Slots, Finish(w) \/ FailAttempt(w) PROVE Balanced(g, f)
  <2>1. faults' = faults
    BY <1>2 DEF Finish, FailAttempt, Report
  <2>2. QED  BY <1>2, <2>1, <1>adv, ReportAdvances
<1>3. ASSUME NEW w \in Slots, LateReport(w) PROVE Balanced(g, f)
  <2>1. faults' = faults
    BY <1>3 DEF LateReport
  <2>2. QED  BY <1>3, <2>1, <1>adv, LateAdvances
<1>4. ASSUME NEW w \in Slots, NEW h \in Hooks, NEW e \in Events, Take(w, h, e) PROVE Balanced(g, f)
  <2>1. faults' = faults
    BY <1>4 DEF Take
  <2>2. QED  BY <1>4, <2>1, <1>adv, TakeAdvances
<1>5. ASSUME NEW h \in Hooks, NEW e \in Events, Promote(h, e) \/ Stalled(h, e) PROVE Balanced(g, f)
  <2>1. UNCHANGED run /\ faults' = faults
    BY <1>5 DEF Promote, Stalled
  <2>2. PICK d \in Delivery :
          delivery' = [delivery EXCEPT ![h][e] = d] /\ d.st = "waiting" /\ d.made = delivery[h][e].made
    <3>1. CASE Promote(h, e)
      <4>1. delivery[h][e] \in Delivery
        BY <1>wf DEF QueueTyped
      <4>2. PICK d \in Delivery : d = [delivery[h][e] EXCEPT !.st = "waiting"]
        BY <4>1 DEF Delivery
      <4>3. d.st = "waiting" /\ d.made = delivery[h][e].made
        BY <4>1, <4>2 DEF Delivery
      <4>4. delivery' = [delivery EXCEPT ![h][e] = d]
        BY <1>wf, <3>1, <4>2 DEF Promote, QueueTyped
      <4>5. QED  BY <4>3, <4>4
    <3>2. CASE Stalled(h, e)
      BY <1>wf, <3>2, RequeueOK DEF Stalled
    <3>3. QED  BY <1>5, <3>1, <3>2
  <2>3. /\ delivery'[h][e] = d
        /\ \A i \in Hooks, j \in Events : i # h \/ j # e => delivery'[i][j] = delivery[i][j]
    <3>1. delivery \in [Hooks -> [Events -> Delivery]]
      BY <1>wf DEF QueueTyped
    <3>2. delivery' = [delivery EXCEPT ![h][e] = d]
      BY <2>2
    <3>3. QED  BY <3>1, <3>2
  <2>4. CASE g # h \/ f # e
    <3>1. delivery'[g][f] = delivery[g][f]
      BY <2>3, <2>4
    <3>2. Advances(g, f)
      BY <1>wf, <2>1, <3>1, Untouched
    <3>3. QED  BY <1>adv, <2>1, <3>2
  <2>5. CASE g = h /\ f = e
    <3>1. \A u \in Slots : ~Holding(u, h, e)
      BY <1>5 DEF Promote, Stalled, Holding
    <3>2. \A u \in Slots : ~Holding(u, h, e)'
      BY <2>2, <2>3 DEF Holding
    <3>3. delivery[h][e].st # "completed"
      BY <1>5 DEF Promote, Stalled
    <3>4. Advances(h, e)
      BY <1>wf, <2>1, <2>2, <2>3, <3>1, <3>2, <3>3, UnheldAdvances
    <3>5. QED  BY <1>adv, <2>1, <2>5, <3>4
  <2>6. QED  BY <2>4, <2>5
<1>6. ASSUME NEW h \in Hooks, NEW e \in Events, LockLost(h, e) PROVE Balanced(g, f)
  BY <1>6, LockLostBalanced
<1>7. ASSUME NEW p \in Pubs, PublishAdd(p) PROVE Balanced(g, f)
  <2>1. /\ UNCHANGED run
        /\ \/ delivery'[g][f] = delivery[g][f]
           \/ delivery[g][f].st = "absent" /\ delivery'[g][f].st = "waiting" /\ delivery'[g][f].made = 0
    BY <1>wf, <1>7, AddStep
  <2>2. faults' = faults
    BY <1>7 DEF PublishAdd
  <2>3. CASE delivery'[g][f] = delivery[g][f]
    <3>1. Advances(g, f)
      BY <1>wf, <2>1, <2>3, Untouched
    <3>2. QED  BY <1>adv, <2>2, <3>1
  <2>4. CASE delivery[g][f].st = "absent" /\ delivery'[g][f].st = "waiting" /\ delivery'[g][f].made = 0
    <3>1. delivery[g][f].made = 0
      BY <1>wf, <2>4 DEF EntryOK
    <3>2. \A u \in Slots : ~Holding(u, g, f) /\ ~Holding(u, g, f)'
      BY <2>4 DEF Holding
    <3>3. Advances(g, f)
      BY <1>wf, <2>1, <2>4, <3>1, <3>2, UnheldAdvances
    <3>4. QED  BY <1>adv, <2>2, <3>3
  <2>5. QED  BY <2>1, <2>3, <2>4
<1>8. ASSUME NEW h \in Hooks,
             (\E types \in SUBSET Choices : RegisterWebhook(h, types)) \/ \E q \in Reqs : DeleteRead(q, h)
      PROVE  Balanced(g, f)
  BY <1>8, <1>same DEF RegisterWebhook, DeleteRead, queueVars
<1>9. ASSUME NEW q \in Reqs, DeleteRow(q) PROVE Balanced(g, f)
  BY <1>9, <1>same DEF DeleteRow, queueVars
<1>10. ASSUME NEW q \in Reqs, DeleteRowGone(q) PROVE Balanced(g, f)
  BY <1>10, <1>down DEF DeleteRowGone
<1>11. ASSUME NEW p \in Pubs, PublishFind(p) \/ PublishLost(p) \/ \E e \in Events : PublishCall(p, e) PROVE Balanced(g, f)
  BY <1>11, <1>same DEF PublishFind, PublishLost, PublishCall, queueVars
<1>12. CASE JobsSvcCrash
  BY <1>12, <1>down DEF JobsSvcCrash
<1>13. CASE UNCHANGED vars
  BY <1>13, <1>same DEF vars
<1>14. QED
  BY <1>1, <1>2, <1>3, <1>4, <1>5, <1>6, <1>7, <1>8, <1>9, <1>10, <1>11, <1>12, <1>13
     DEF Next, QueueStep, PublishStep, DeliverStep

-----------------------------------------------------------------------------
(* POSTs and acceptances *)

LEMMA PostCounts ==
    ASSUME WellFormed, WellFormed', NEW w \in Slots, Post(w), NEW h \in Hooks, NEW e \in Events, WorksOn(w, h, e)
    PROVE  Cardinality(Unposted(h, e)') + Posted(h, e) + 1 <= Cardinality(Unposted(h, e)) + Posted(h, e)'
<1>0. QueueOK /\ QueueTyped /\ QueueTyped' /\ RestTyped
  BY Parts DEF QueueOK, WellFormed, TypeOK, QueueTyped
<1>1. run[w].pc = "send"
  BY DEF Post
<1>2. PICK pc \in Pcs, permanent \in BOOLEAN :
        /\ Onward(w, pc, permanent)
        /\ pc = "answer" \/ pc \in {"done", "fail"}
  BY <1>0, <1>1, ProcessorSteps
<1>3. pc \in {"answer", "done", "fail"}
  BY <1>2
<1>4. /\ Advances(h, e)
      /\ Behind(w, h, e) => Unposted(h, e)' \subseteq Unposted(h, e) \ {w}
      /\ Holding(w, h, e)' = Holding(w, h, e)
  BY <1>0, <1>1, <1>2, <1>3, OnwardAdvances
<1>5. /\ UNCHANGED delivery /\ run'[w].pc = pc
  BY <1>0, <1>2, OnwardRun
<1>6. /\ Unposted(h, e) \in SUBSET Slots /\ Unposted(h, e)' \in SUBSET Slots
      /\ Posted(h, e) \in Nat /\ Posted(h, e)' \in Nat
      /\ Cardinality(Unposted(h, e)) \in Nat /\ Cardinality(Unposted(h, e)') \in Nat
  BY <1>0, Sizes, NextSizes
<1>7. Unposted(h, e)' \subseteq Unposted(h, e) /\ Posted(h, e) <= Posted(h, e)'
  BY <1>4 DEF Advances
<1>8. CASE Behind(w, h, e)
  <2>1. w \in Unposted(h, e)
    BY <1>1, <1>8 DEF Unposted
  <2>2. Cardinality(Unposted(h, e)') + 1 <= Cardinality(Unposted(h, e))
    BY <1>4, <1>6, <1>8, <2>1, Finite
  <2>3. QED  BY <1>6, <1>7, <2>2
<1>9. CASE Holding(w, h, e)
  <2>1. \A u \in Slots : Holding(u, h, e) => u = w
    BY <1>9 DEF Holding
  <2>2. ~\E u \in Slots : Holding(u, h, e) /\ run[u].pc \notin {"find", "send"}
    BY <1>1, <2>1
  <2>3. Holding(w, h, e)' /\ run'[w].pc \notin {"find", "send"}
    BY <1>3, <1>4, <1>5, <1>9
  <2>4. Posted(h, e) = delivery[h][e].made + 0 /\ Posted(h, e)' = delivery'[h][e].made + 1
    BY <2>2, <2>3 DEF Posted
  <2>5. delivery[h][e].made \in Nat /\ delivery'[h][e].made = delivery[h][e].made
    BY <1>0, <1>5, Fields, Constants DEF QueueTyped
  <2>6. Cardinality(Unposted(h, e)') <= Cardinality(Unposted(h, e))
    BY <1>6, <1>7, Finite
  <2>7. QED  BY <1>6, <2>4, <2>5, <2>6
<1>10. QED  BY <1>8, <1>9 DEF Behind

LEMMA AcceptedCounts ==
    ASSUME WellFormed, WellFormed', NEW w \in Slots, Accepted(w), NEW h \in Hooks, NEW e \in Events, WorksOn(w, h, e)
    PROVE  Cardinality(Unaccepted(h, e)') + Over(h, e) + 1 <= Cardinality(Unaccepted(h, e)) + Over(h, e)'
<1>0. QueueOK /\ QueueTyped /\ QueueTyped' /\ RestTyped
  BY Parts DEF QueueOK, WellFormed, TypeOK, QueueTyped
<1>1. run[w].pc = "answer" /\ RunTo(w, "done") /\ UNCHANGED delivery
  BY DEF Accepted
<1>2. PICK pc \in Pcs, permanent \in BOOLEAN :
        /\ Onward(w, pc, permanent)
        /\ \/ pc = "send" /\ run[w].pc = "find"
           \/ pc = "answer" /\ run[w].pc = "send"
           \/ pc \in {"done", "fail"} /\ run[w].pc \in {"find", "send", "answer"}
  BY <1>0, ProcessorSteps
<1>3. run'[w].pc = "done"
  <2>1. run[w] \in Run /\ run \in [Slots -> Run]
    BY <1>0 DEF QueueTyped
  <2>2. run'[w] = [run[w] EXCEPT !.pc = "done"]
    BY <1>1, <2>1 DEF RunTo
  <2>3. QED  BY <2>1, <2>2 DEF Run
<1>4. /\ Advances(h, e)
      /\ Behind(w, h, e) => Unaccepted(h, e)' \subseteq Unaccepted(h, e) \ {w}
      /\ Holding(w, h, e)' = Holding(w, h, e)
  BY <1>0, <1>1, <1>2, OnwardAdvances
<1>6. /\ Unaccepted(h, e) \in SUBSET Slots /\ Unaccepted(h, e)' \in SUBSET Slots
      /\ Over(h, e) \in 0..1 /\ Over(h, e)' \in 0..1
      /\ Cardinality(Unaccepted(h, e)) \in Nat /\ Cardinality(Unaccepted(h, e)') \in Nat
  BY <1>0, Sizes, NextSizes
<1>7. Unaccepted(h, e)' \subseteq Unaccepted(h, e) /\ Over(h, e) <= Over(h, e)'
  BY <1>4 DEF Advances
<1>8. CASE Behind(w, h, e)
  <2>1. w \in Unaccepted(h, e)
    BY <1>1, <1>8 DEF Unaccepted
  <2>2. Cardinality(Unaccepted(h, e)') + 1 <= Cardinality(Unaccepted(h, e))
    BY <1>4, <1>6, <1>8, <2>1, Finite
  <2>3. QED  BY <1>6, <1>7, <2>2
<1>9. CASE Holding(w, h, e)
  <2>1. \A u \in Slots : Holding(u, h, e) => u = w
    BY <1>9 DEF Holding
  <2>2. Over(h, e) = 0
    BY <1>1, <1>9, <2>1 DEF Over, Holding
  <2>3. Over(h, e)' = 1
    BY <1>3, <1>4, <1>9 DEF Over
  <2>4. Cardinality(Unaccepted(h, e)') <= Cardinality(Unaccepted(h, e))
    BY <1>6, <1>7, Finite
  <2>5. QED  BY <1>6, <2>2, <2>3, <2>4
<1>10. QED  BY <1>8, <1>9 DEF Behind

\* Only a POST and its acceptance are counted.
LEMMA ReceiverSteps ==
    ASSUME [Next]_vars
    PROVE  /\ (sent' = sent /\ late' = late) \/ \E w \in Slots : Post(w)
           /\ (acked' = acked /\ unheard' = unheard) \/ \E w \in Slots : Accepted(w) \/ AcceptedUnheard(w)
<1>1. ASSUME NEW h \in Hooks, NEW e \in Events, QueueStep(h, e) \/ LockLost(h, e)
      PROVE  UNCHANGED receiverVars
  BY <1>1 DEF QueueStep, Promote, Stalled, Take, LockLost
<1>2. ASSUME NEW h \in Hooks,
             (\E types \in SUBSET Choices : RegisterWebhook(h, types)) \/ \E q \in Reqs : DeleteRead(q, h)
      PROVE  UNCHANGED receiverVars
  BY <1>2 DEF RegisterWebhook, DeleteRead
<1>3. ASSUME NEW q \in Reqs, DeleteRow(q) \/ DeleteRowGone(q) PROVE UNCHANGED receiverVars
  BY <1>3 DEF DeleteRow, DeleteRowGone, JobsSvcDown
<1>4. ASSUME NEW p \in Pubs, PublishStep(p) \/ PublishLost(p) \/ \E e \in Events : PublishCall(p, e)
      PROVE  UNCHANGED receiverVars
  BY <1>4 DEF PublishStep, PublishFind, PublishAdd, PublishLost, PublishCall
<1>5. ASSUME NEW w \in Slots, DeliverStep(w)
      PROVE  /\ (sent' = sent /\ late' = late) \/ Post(w)
             /\ (acked' = acked /\ unheard' = unheard) \/ Accepted(w) \/ AcceptedUnheard(w)
  BY <1>5 DEF DeliverStep, FindHook, Skip, RefuseTarget, NetworkError, Rejected, Finish, FailAttempt, Report,
              LateReport, Post, Accepted, AcceptedUnheard, receiverVars
<1>6. CASE JobsSvcCrash
  BY <1>6 DEF JobsSvcCrash, JobsSvcDown, receiverVars
<1>7. CASE UNCHANGED vars
  BY <1>7 DEF vars
<1>8. QED
  BY <1>1, <1>2, <1>3, <1>4, <1>5, <1>6, <1>7 DEF Next, receiverVars

LEMMA CountsInit == Init => SentOK /\ AckedOK
<1> SUFFICES ASSUME Init, NEW h \in Hooks, NEW e \in Events
             PROVE  /\ sent[h][e] + Cardinality(Unposted(h, e)) <= faults + Posted(h, e)
                    /\ acked[h][e] + Cardinality(Unaccepted(h, e)) <= faults + unheard[h][e] + Over(h, e)
  BY DEF SentOK, AckedOK
<1>1. \A u \in Slots : ~WorksOn(u, h, e)
  BY Constants DEF Init, WorksOn
<1>2. Unposted(h, e) = {} /\ Unaccepted(h, e) = {}
  BY <1>1 DEF Unposted, Unaccepted, Behind
<1>3. Cardinality(Unposted(h, e)) = 0 /\ Cardinality(Unaccepted(h, e)) = 0
  BY <1>2, FS_EmptySet
<1>4. sent[h][e] = 0 /\ acked[h][e] = 0 /\ unheard[h][e] = 0 /\ faults = 0
  BY DEF Init
<1>5. QueueTyped
  BY Constants DEF Init, QueueTyped
<1>6. Over(h, e) \in 0..1 /\ Posted(h, e) \in Nat
  BY <1>5, Sizes
<1>7. QED  BY <1>3, <1>4, <1>6

LEMMA SentStep ==
    ASSUME WellFormed, WellFormed', SentOK, [Next]_vars, NEW h \in Hooks, NEW e \in Events
    PROVE  sent'[h][e] + Cardinality(Unposted(h, e)') <= faults' + Posted(h, e)'
<1>0. QueueTyped /\ QueueTyped' /\ RunOK /\ sent \in [Hooks -> [Events -> Nat]] /\ faults \in Nat /\ faults' \in Nat
  BY DEF WellFormed, TypeOK, QueueTyped
<1>1. /\ Posted(h, e) \in Nat /\ Posted(h, e)' \in Nat
      /\ Cardinality(Unposted(h, e)) \in Nat /\ Cardinality(Unposted(h, e)') \in Nat
  BY <1>0, Sizes, NextSizes
<1>2. sent[h][e] + Cardinality(Unposted(h, e)) <= faults + Posted(h, e) /\ sent[h][e] \in Nat
  BY <1>0 DEF SentOK
<1>3. CASE sent'[h][e] = sent[h][e]
  BY <1>0, <1>1, <1>2, <1>3, BalancedStep DEF Balanced
<1>4. CASE sent'[h][e] # sent[h][e]
  <2>1. PICK w \in Slots : Post(w)
    BY <1>4, ReceiverSteps
  <2>2. PICK g \in Hooks, f \in Events : g = run[w].hook /\ f = run[w].event
    BY <1>0, <2>1 DEF RunOK, Post
  <2>3. sent' = [sent EXCEPT ![g][f] = @ + 1] /\ faults' = faults
    BY <2>1, <2>2 DEF Post
  <2>4. /\ sent'[g][f] = sent[g][f] + 1
        /\ \A i \in Hooks, j \in Events : i # g \/ j # f => sent'[i][j] = sent[i][j]
    <3>1. sent \in [Hooks -> [Events -> Nat]]
      BY <1>0
    <3>2. QED  BY <2>3, <3>1
  <2>5. g = h /\ f = e
    BY <1>4, <2>4
  <2>6. Cardinality(Unposted(h, e)') + Posted(h, e) + 1 <= Cardinality(Unposted(h, e)) + Posted(h, e)'
    BY <2>1, <2>2, <2>5, PostCounts DEF WorksOn
  <2>7. sent'[h][e] = sent[h][e] + 1 /\ faults' = faults
    BY <2>3, <2>4, <2>5
  <2>8. QED  BY <1>0, <1>1, <1>2, <2>6, <2>7
<1>5. QED  BY <1>3, <1>4

LEMMA AckedStep ==
    ASSUME WellFormed, WellFormed', AckedOK, [Next]_vars, NEW h \in Hooks, NEW e \in Events
    PROVE  acked'[h][e] + Cardinality(Unaccepted(h, e)') <= faults' + unheard'[h][e] + Over(h, e)'
<1>0. /\ QueueTyped /\ QueueTyped' /\ RunOK /\ acked \in [Hooks -> [Events -> Nat]]
      /\ unheard \in [Hooks -> [Events -> Nat]] /\ faults \in Nat /\ faults' \in Nat
  BY DEF WellFormed, TypeOK, QueueTyped
<1>1. /\ Over(h, e) \in 0..1 /\ Over(h, e)' \in 0..1
      /\ Cardinality(Unaccepted(h, e)) \in Nat /\ Cardinality(Unaccepted(h, e)') \in Nat
  BY <1>0, Sizes, NextSizes
<1>2. /\ acked[h][e] + Cardinality(Unaccepted(h, e)) <= faults + unheard[h][e] + Over(h, e)
      /\ acked[h][e] \in Nat /\ unheard[h][e] \in Nat
  BY <1>0 DEF AckedOK
<1>3. CASE acked'[h][e] = acked[h][e] /\ unheard'[h][e] = unheard[h][e]
  BY <1>0, <1>1, <1>2, <1>3, BalancedStep DEF Balanced
<1>4. CASE ~(acked'[h][e] = acked[h][e] /\ unheard'[h][e] = unheard[h][e])
  <2>1. PICK w \in Slots : Accepted(w) \/ AcceptedUnheard(w)
    BY <1>4, ReceiverSteps
  <2>2. PICK g \in Hooks, f \in Events : g = run[w].hook /\ f = run[w].event
    BY <1>0, <2>1 DEF RunOK, Accepted, AcceptedUnheard
  <2>3. /\ acked' = [acked EXCEPT ![g][f] = @ + 1] /\ faults' = faults
        /\ unheard' = unheard \/ unheard' = [unheard EXCEPT ![g][f] = @ + 1]
    <3>1. CASE Accepted(w)
      BY <2>2, <3>1 DEF Accepted
    <3>2. CASE AcceptedUnheard(w)
      BY <2>2, <3>2 DEF AcceptedUnheard
    <3>3. QED  BY <2>1, <3>1, <3>2
  <2>4. /\ acked'[g][f] = acked[g][f] + 1
        /\ \A i \in Hooks, j \in Events : i # g \/ j # f => acked'[i][j] = acked[i][j]
    <3>1. acked \in [Hooks -> [Events -> Nat]]
      BY <1>0
    <3>2. QED  BY <2>3, <3>1
  <2>5. \A i \in Hooks, j \in Events : i # g \/ j # f => unheard'[i][j] = unheard[i][j]
    <3>1. unheard \in [Hooks -> [Events -> Nat]]
      BY <1>0
    <3>2. QED  BY <2>3, <3>1
  <2>6. g = h /\ f = e
    BY <1>4, <2>4, <2>5
  <2>7. CASE Accepted(w)
    <3>1. Cardinality(Unaccepted(h, e)') + Over(h, e) + 1 <= Cardinality(Unaccepted(h, e)) + Over(h, e)'
      BY <2>2, <2>6, <2>7, AcceptedCounts DEF WorksOn
    <3>2. unheard' = unheard
      BY <2>7 DEF Accepted
    <3>3. acked'[h][e] = acked[h][e] + 1 /\ faults' = faults /\ unheard'[h][e] = unheard[h][e]
      BY <2>3, <2>4, <2>6, <3>2
    <3>4. QED  BY <1>0, <1>1, <1>2, <3>1, <3>3
  <2>8. CASE AcceptedUnheard(w)
    <3>1. unheard' = [unheard EXCEPT ![h][e] = @ + 1]
      BY <2>2, <2>6, <2>8 DEF AcceptedUnheard
    <3>2. unheard'[h][e] = unheard[h][e] + 1
      <4>1. unheard \in [Hooks -> [Events -> Nat]]
        BY <1>0
      <4>2. QED  BY <3>1, <4>1
    <3>3. acked'[h][e] = acked[h][e] + 1 /\ faults' = faults
      BY <2>3, <2>4, <2>6
    <3>4. QED  BY <1>0, <1>1, <1>2, <3>2, <3>3, BalancedStep DEF Balanced
  <2>9. QED  BY <2>1, <2>7, <2>8
<1>5. QED  BY <1>3, <1>4

LEMMA CountsStep == ASSUME WellFormed, WellFormed', SentOK, AckedOK, [Next]_vars PROVE SentOK' /\ AckedOK'
BY SentStep, AckedStep DEF SentOK, AckedOK

LEMMA CountsHold == Spec => [](WellFormed /\ SentOK /\ AckedOK)
<1>1. WellFormed /\ WellFormed' /\ SentOK /\ AckedOK /\ [Next]_vars => SentOK' /\ AckedOK'
  BY CountsStep
<1>2. QED  BY <1>1, DeliveryWellFormed, CountsInit, PTL DEF Spec

\* A receiver that accepted an event accepts it again only when its answer never
\* reached the sender, or a crash or a lost lock hid the acceptance (BullMQ's custom
\* job id in publish.ts, the worker's lock, the answer deliver.ts waits for).
THEOREM OneAcceptance == Spec => []AcceptedOnce
<1>1. WellFormed /\ AckedOK => AcceptedOnce
  <2> SUFFICES ASSUME WellFormed, AckedOK, NEW h \in Hooks, NEW e \in Events PROVE acked[h][e] <= 1 + unheard[h][e] + faults
    BY DEF AcceptedOnce
  <2>1. QueueTyped /\ acked[h][e] \in Nat /\ unheard[h][e] \in Nat /\ faults \in Nat
    BY DEF WellFormed, TypeOK, QueueTyped
  <2>2. Over(h, e) \in 0..1 /\ Cardinality(Unaccepted(h, e)) \in Nat
    BY <2>1, Sizes
  <2>3. acked[h][e] + Cardinality(Unaccepted(h, e)) <= faults + unheard[h][e] + Over(h, e)
    BY DEF AckedOK
  <2>4. QED  BY <2>1, <2>2, <2>3
<1>2. QED  BY <1>1, CountsHold, PTL

\* A webhook is posted Attempts times, and once more for each report lost to a fault.
THEOREM AttemptsBounded == Spec => []SentWithinAttempts
<1>1. WellFormed /\ SentOK => SentWithinAttempts
  <2> SUFFICES ASSUME WellFormed, SentOK, NEW h \in Hooks, NEW e \in Events PROVE sent[h][e] <= Attempts + faults
    BY DEF SentWithinAttempts
  <2>1. QueueTyped /\ EntryOK /\ sent[h][e] \in Nat /\ faults \in Nat
    BY DEF WellFormed, TypeOK, QueueTyped
  <2>2. Posted(h, e) \in Nat /\ Cardinality(Unposted(h, e)) \in Nat
    BY <2>1, Sizes
  <2>3. delivery[h][e].made \in 0..Attempts /\ Attempts \in Nat
    BY <2>1, Fields, Constants DEF QueueTyped
  <2>4. (\E w \in Slots : Holding(w, h, e)) => delivery[h][e].made < Attempts
    BY <2>1 DEF EntryOK, Holding
  <2>5. Posted(h, e) <= Attempts
    BY <2>3, <2>4 DEF Posted
  <2>6. sent[h][e] + Cardinality(Unposted(h, e)) <= faults + Posted(h, e)
    BY DEF SentOK
  <2>7. QED  BY <2>1, <2>2, <2>3, <2>5, <2>6
<1>2. QED  BY <1>1, CountsHold, PTL

-----------------------------------------------------------------------------
(* After a deletion *)

\* The slots whose POST to a webhook is under way: the row was read before.
Sending(h) == {w \in Slots : run[w].pc = "send" /\ run[w].hook = h}

LateOK == \A h \in Hooks :
    IF hook[h].st = "deleted" THEN late[h] + Cardinality(Sending(h)) <= Cardinality(Slots) ELSE late[h] = 0

\* A slot comes to send only by reading an active row.
LEMMA SendingStep ==
    ASSUME WellFormed, [Next]_vars, NEW u \in Slots, run'[u].pc = "send"
    PROVE  /\ run'[u].hook = run[u].hook
           /\ run[u].pc = "send" \/ hook[run[u].hook].st = "active"
<1>wf. QueueOK /\ QueueTyped /\ RestTyped
  BY Parts DEF QueueOK
<1> DEFINE Goal == run'[u].hook = run[u].hook /\ (run[u].pc = "send" \/ hook[run[u].hook].st = "active")
<1>same. ASSUME run'[u] = run[u] PROVE Goal
  BY <1>same
<1>down. ASSUME JobsSvcDown PROVE Goal
  BY <1>down, Constants DEF JobsSvcDown
<1>1. ASSUME NEW w \in Slots,
             FindHook(w) \/ Skip(w) \/ RefuseTarget(w) \/ Post(w) \/ NetworkError(w)
             \/ Accepted(w) \/ AcceptedUnheard(w)
             \/ \E permanent \in BOOLEAN : Rejected(w, permanent)
      PROVE  Goal
  <2>1. PICK pc \in Pcs, permanent \in BOOLEAN :
               /\ Onward(w, pc, permanent)
               /\ pc = "send" => hook[run[w].hook].st = "active"
    BY <1>wf, <1>1, ProcessorSteps
  <2>2. /\ \A v \in Slots \ {w} : run'[v] = run[v]
        /\ run'[w].pc = pc /\ run'[w].hook = run[w].hook
    BY <1>wf, <2>1, OnwardRun
  <2>3. QED  BY <2>1, <2>2
<1>2. ASSUME NEW w \in Slots, Finish(w) \/ FailAttempt(w) \/ LateReport(w) PROVE Goal
  <2>1. run' = [run EXCEPT ![w] = IdleRun]
    BY <1>2 DEF Finish, FailAttempt, Report, LateReport
  <2>2. run'[u] = run[u] \/ run'[u] = IdleRun
    BY <1>wf, <2>1 DEF QueueTyped
  <2>3. QED  BY <2>2, Constants
<1>3. ASSUME NEW w \in Slots, NEW h \in Hooks, NEW e \in Events, Take(w, h, e) PROVE Goal
  <2>1. PICK q \in Run : run' = [run EXCEPT ![w] = q] /\ q.pc \in {"find", "fail"}
    BY <1>wf, <1>3, TakeStep
  <2>2. run'[u] = run[u] \/ run'[u] = q
    BY <1>wf, <2>1 DEF QueueTyped
  <2>3. QED  BY <2>1, <2>2
<1>4. ASSUME NEW h \in Hooks, NEW e \in Events, Promote(h, e) \/ Stalled(h, e) \/ LockLost(h, e) PROVE Goal
  BY <1>4, <1>same DEF Promote, Stalled, LockLost
<1>5. ASSUME NEW h \in Hooks,
             (\E types \in SUBSET Choices : RegisterWebhook(h, types)) \/ \E q \in Reqs : DeleteRead(q, h)
      PROVE  Goal
  BY <1>5, <1>same DEF RegisterWebhook, DeleteRead, queueVars
<1>6. ASSUME NEW q \in Reqs, DeleteRow(q) PROVE Goal
  BY <1>6, <1>same DEF DeleteRow, queueVars
<1>7. ASSUME NEW q \in Reqs, DeleteRowGone(q) PROVE Goal
  BY <1>7, <1>down DEF DeleteRowGone
<1>8. ASSUME NEW p \in Pubs, PublishStep(p) \/ PublishLost(p) \/ \E e \in Events : PublishCall(p, e) PROVE Goal
  BY <1>8, <1>same DEF PublishStep, PublishFind, PublishAdd, PublishLost, PublishCall, queueVars
<1>9. CASE JobsSvcCrash
  BY <1>9, <1>down DEF JobsSvcCrash
<1>10. CASE UNCHANGED vars
  BY <1>10, <1>same DEF vars
<1>11. QED
  BY <1>1, <1>2, <1>3, <1>4, <1>5, <1>6, <1>7, <1>8, <1>9, <1>10 DEF Next, QueueStep, DeliverStep

\* A webhook that is deleted stays so, and one is deleted only while active.
LEMMA HookStep ==
    ASSUME WellFormed, [Next]_vars, NEW h \in Hooks
    PROVE  hook[h].st = "deleted" => hook'[h].st = "deleted"
<1>0. hook \in [Hooks -> Hook] /\ req \in [Reqs -> Hooks \cup {None}]
  BY DEF WellFormed, TypeOK
<1>same. ASSUME UNCHANGED hook PROVE hook[h].st = "deleted" => hook'[h].st = "deleted"
  BY <1>same
<1>1. ASSUME NEW g \in Hooks, NEW types, RegisterWebhook(g, types)
      PROVE  hook[h].st = "deleted" => hook'[h].st = "deleted"
  BY <1>0, <1>1 DEF RegisterWebhook
<1>2. ASSUME NEW q \in Reqs, DeleteRow(q) PROVE hook[h].st = "deleted" => hook'[h].st = "deleted"
  BY <1>0, <1>2 DEF DeleteRow, Hook
<1>3. ASSUME NEW g \in Hooks, NEW e \in Events, QueueStep(g, e) \/ LockLost(g, e) PROVE UNCHANGED hook
  BY <1>3 DEF QueueStep, Promote, Stalled, Take, LockLost
<1>4. ASSUME NEW g \in Hooks, NEW q \in Reqs, DeleteRead(q, g) PROVE UNCHANGED hook
  BY <1>4 DEF DeleteRead
<1>5. ASSUME NEW q \in Reqs, DeleteRowGone(q) PROVE UNCHANGED hook
  BY <1>5 DEF DeleteRowGone, JobsSvcDown
<1>6. ASSUME NEW p \in Pubs, PublishStep(p) \/ PublishLost(p) \/ \E e \in Events : PublishCall(p, e)
      PROVE  UNCHANGED hook
  BY <1>6 DEF PublishStep, PublishFind, PublishAdd, PublishLost, PublishCall
<1>7. ASSUME NEW w \in Slots, DeliverStep(w) PROVE UNCHANGED hook
  BY <1>7 DEF DeliverStep, FindHook, Skip, RefuseTarget, NetworkError, Rejected, Finish, FailAttempt, Report,
              LateReport, Post, Accepted, AcceptedUnheard
<1>8. CASE JobsSvcCrash
  BY <1>8, <1>same DEF JobsSvcCrash, JobsSvcDown
<1>9. CASE UNCHANGED vars
  BY <1>9, <1>same DEF vars
<1>10. QED
  BY <1>same, <1>1, <1>2, <1>3, <1>4, <1>5, <1>6, <1>7, <1>8, <1>9 DEF Next

LEMMA LateInit == Init => LateOK
BY DEF Init, LateOK

LEMMA LateStep ==
    ASSUME WellFormed, WellFormed', LateOK, [Next]_vars
    PROVE  LateOK'
<1> SUFFICES ASSUME NEW h \in Hooks
             PROVE  IF hook'[h].st = "deleted" THEN late'[h] + Cardinality(Sending(h)') <= Cardinality(Slots)
                    ELSE late'[h] = 0
  BY DEF LateOK
<1>0. RunOK /\ run \in [Slots -> Run] /\ run' \in [Slots -> Run] /\ late \in [Hooks -> Nat] /\ late' \in [Hooks -> Nat]
  BY DEF WellFormed, TypeOK
<1>1. Sending(h) \in SUBSET Slots /\ Sending(h)' \in SUBSET Slots /\ Slots \in SUBSET Slots
  BY DEF Sending
<1>2. /\ Cardinality(Sending(h)) \in Nat /\ Cardinality(Sending(h)') \in Nat /\ Cardinality(Slots) \in Nat
      /\ Cardinality(Sending(h)') <= Cardinality(Slots)
  BY <1>1, Finite
<1>3. late[h] \in Nat /\ late'[h] \in Nat
  BY <1>0
<1>4. hook[h].st = "deleted" => Sending(h)' \subseteq Sending(h)
  BY SendingStep DEF Sending
<1>5. CASE late'[h] = late[h]
  <2>1. CASE hook[h].st = "deleted"
    <3>1. Cardinality(Sending(h)') <= Cardinality(Sending(h))
      BY <1>1, <1>4, <2>1, Finite
    <3>2. late[h] + Cardinality(Sending(h)) <= Cardinality(Slots) /\ hook'[h].st = "deleted"
      BY <2>1, HookStep DEF LateOK
    <3>3. QED  BY <1>2, <1>3, <1>5, <3>1, <3>2
  <2>2. CASE hook[h].st # "deleted"
    <3>1. late[h] = 0
      BY <2>2 DEF LateOK
    <3>2. QED  BY <1>2, <1>5, <3>1
  <2>3. QED  BY <2>1, <2>2
<1>6. CASE late'[h] # late[h]
  <2>1. PICK w \in Slots : Post(w)
    BY <1>6, ReceiverSteps
  <2>2. PICK g \in Hooks : g = run[w].hook
    BY <1>0, <2>1 DEF RunOK, Post
  <2>3. /\ hook[g].st = "deleted" /\ late' = [late EXCEPT ![g] = @ + 1] /\ hook' = hook
        /\ run[w].pc = "send" /\ RunTo(w, "answer")
    BY <1>6, <2>1, <2>2 DEF Post
  <2>4. g = h /\ late'[h] = late[h] + 1
    BY <1>0, <1>6, <2>3
  <2>5. w \in Sending(h)
    BY <2>2, <2>3, <2>4 DEF Sending
  <2>6. w \notin Sending(h)'
    <3>1. run'[w] = [run[w] EXCEPT !.pc = "answer"] /\ run[w] \in Run
      BY <1>0, <2>3 DEF RunTo
    <3>2. run'[w].pc = "answer"
      BY <3>1 DEF Run
    <3>3. QED  BY <3>2 DEF Sending
  <2>7. Cardinality(Sending(h)') + 1 <= Cardinality(Sending(h))
    BY <1>1, <1>4, <2>3, <2>4, <2>5, <2>6, Finite
  <2>8. late[h] + Cardinality(Sending(h)) <= Cardinality(Slots) /\ hook'[h].st = "deleted"
    BY <2>3, <2>4 DEF LateOK
  <2>9. QED  BY <1>2, <1>3, <2>4, <2>7, <2>8
<1>7. QED  BY <1>5, <1>6

\* After deleteWebhook has answered, only POSTs that were under way reach the
\* receiver, however much is still queued (deliver.ts reads the row before it posts).
THEOREM DeletionStopsDelivery == Spec => []StopsAfterInFlight
<1>1. WellFormed /\ LateOK => StopsAfterInFlight
  <2> SUFFICES ASSUME WellFormed, LateOK, NEW h \in Hooks PROVE late[h] <= Cardinality(Slots)
    BY DEF StopsAfterInFlight
  <2>1. Sending(h) \in SUBSET Slots /\ Slots \in SUBSET Slots /\ late[h] \in Nat
    BY DEF Sending, WellFormed, TypeOK
  <2>2. Cardinality(Sending(h)) \in Nat /\ Cardinality(Slots) \in Nat
    BY <2>1, Finite
  <2>3. late[h] + Cardinality(Sending(h)) <= Cardinality(Slots) \/ late[h] = 0
    BY DEF LateOK
  <2>4. QED  BY <2>1, <2>2, <2>3
<1>2. WellFormed /\ WellFormed' /\ LateOK /\ [Next]_vars => LateOK'
  BY LateStep
<1>3. QED  BY <1>1, <1>2, DeliveryWellFormed, LateInit, PTL DEF Spec

-----------------------------------------------------------------------------
(* What the promise rests on *)

\* A row that was registered asks for something, and keeps asking for it.
HookOK == \A h \in Hooks : hook[h].st = "none" <=> hook[h].events = {}

\* An event is added, queued and worked on only for webhooks that ask for its type.
AddressOK ==
    /\ \A p \in Pubs : pub[p].pc = "add" => \A h \in pub[p].hooks : TypeOf[pub[p].event] \in hook[h].events
    /\ \A h \in Hooks, e \in Events : delivery[h][e].st # "absent" => TypeOf[e] \in hook[h].events

\* A slot is done when the receiver accepted, or the webhook was deleted.
WorkOK == \A w \in Slots, h \in Hooks, e \in Events : WorksOn(w, h, e) =>
    /\ delivery[h][e].st # "absent"
    /\ run[w].pc = "done" => acked[h][e] > 0 \/ hook[h].st = "deleted"

PromiseOK == HookOK /\ AddressOK /\ WorkOK

LEMMA PromiseOKInit == Init => PromiseOK
BY Constants DEF Init, PromiseOK, HookOK, AddressOK, WorkOK, WorksOn, IdlePub, IdleRun, NoDelivery

\* The rows that a step leaves alone.
LEMMA HookWrites ==
    ASSUME [Next]_vars
    PROVE  \/ UNCHANGED hook
           \/ \E h \in Hooks : \E types \in SUBSET Choices : RegisterWebhook(h, types)
           \/ \E q \in Reqs : DeleteRow(q)
<1>1. ASSUME NEW g \in Hooks, NEW e \in Events, QueueStep(g, e) \/ LockLost(g, e) PROVE UNCHANGED hook
  BY <1>1 DEF QueueStep, Promote, Stalled, Take, LockLost
<1>2. ASSUME NEW g \in Hooks, NEW q \in Reqs, DeleteRead(q, g) PROVE UNCHANGED hook
  BY <1>2 DEF DeleteRead
<1>3. ASSUME NEW q \in Reqs, DeleteRowGone(q) PROVE UNCHANGED hook
  BY <1>3 DEF DeleteRowGone, JobsSvcDown
<1>4. ASSUME NEW p \in Pubs, PublishStep(p) \/ PublishLost(p) \/ \E e \in Events : PublishCall(p, e)
      PROVE  UNCHANGED hook
  BY <1>4 DEF PublishStep, PublishFind, PublishAdd, PublishLost, PublishCall
<1>5. ASSUME NEW w \in Slots, DeliverStep(w) PROVE UNCHANGED hook
  BY <1>5 DEF DeliverStep, FindHook, Skip, RefuseTarget, NetworkError, Rejected, Finish, FailAttempt, Report,
              LateReport, Post, Accepted, AcceptedUnheard
<1>6. CASE JobsSvcCrash
  BY <1>6 DEF JobsSvcCrash, JobsSvcDown
<1>7. CASE UNCHANGED vars
  BY <1>7 DEF vars
<1>8. QED
  BY <1>1, <1>2, <1>3, <1>4, <1>5, <1>6, <1>7 DEF Next

LEMMA RegisterStep ==
    ASSUME WellFormed, HookOK, NEW h \in Hooks, NEW types \in SUBSET Choices, RegisterWebhook(h, types)
    PROVE  /\ hook[h].events = {} /\ hook[h].st = "none" /\ types # {}
           /\ hook'[h].events = types /\ hook'[h].st = "active"
           /\ \A g \in Hooks \ {h} : hook'[g] = hook[g]
BY DEF RegisterWebhook, HookOK, WellFormed, TypeOK

LEMMA DeleteStep ==
    ASSUME WellFormed, NEW q \in Reqs, DeleteRow(q)
    PROVE  \E h \in Hooks : /\ hook[h].st = "active" /\ hook'[h].st = "deleted"
                            /\ hook'[h].events = hook[h].events
                            /\ \A g \in Hooks \ {h} : hook'[g] = hook[g]
<1>1. hook \in [Hooks -> Hook] /\ req[q] \in Hooks
  BY DEF WellFormed, TypeOK, DeleteRow
<1>2. hook[req[q]].st = "active" /\ hook' = [hook EXCEPT ![req[q]].st = "deleted"]
  BY DEF DeleteRow
<1>3. hook[req[q]] \in Hook /\ hook'[req[q]] = [hook[req[q]] EXCEPT !.st = "deleted"]
      /\ \A g \in Hooks \ {req[q]} : hook'[g] = hook[g]
  BY <1>1, <1>2
<1>4. hook'[req[q]].st = "deleted" /\ hook'[req[q]].events = hook[req[q]].events
  BY <1>3 DEF Hook
<1>5. QED  BY <1>1, <1>2, <1>3, <1>4

\* Nobody stops asking.
LEMMA HookKept ==
    ASSUME WellFormed, HookOK, [Next]_vars
    PROVE  /\ HookOK'
           /\ \A h \in Hooks : \A t : t \in hook[h].events => t \in hook'[h].events
<1>1. CASE UNCHANGED hook
  BY <1>1 DEF HookOK
<1>2. ASSUME NEW h \in Hooks, NEW types \in SUBSET Choices, RegisterWebhook(h, types)
      PROVE  HookOK' /\ \A g \in Hooks : \A t : t \in hook[g].events => t \in hook'[g].events
  BY <1>2, RegisterStep DEF HookOK
<1>3. ASSUME NEW q \in Reqs, DeleteRow(q)
      PROVE  HookOK' /\ \A g \in Hooks : \A t : t \in hook[g].events => t \in hook'[g].events
  BY <1>3, DeleteStep DEF HookOK
<1>4. QED  BY <1>1, <1>2, <1>3, HookWrites

\* A publish call has just found the webhooks it will add the event for, or
\* adds it for those it found before.
LEMMA PubWrites ==
    ASSUME WellFormed, [Next]_vars, NEW p \in Pubs, pub'[p].pc = "add"
    PROVE  /\ pub'[p].event = pub[p].event
           /\ \/ pub'[p].hooks = pub[p].hooks /\ pub[p].pc = "add"
              \/ UNCHANGED hook /\ pub'[p].hooks = Subscribed(pub[p].event)
<1> DEFINE Goal == /\ pub'[p].event = pub[p].event
                   /\ \/ pub'[p].hooks = pub[p].hooks /\ pub[p].pc = "add"
                      \/ UNCHANGED hook /\ pub'[p].hooks = Subscribed(pub[p].event)
<1>0. pub \in [Pubs -> Pub]
  BY DEF WellFormed, TypeOK
<1>same. ASSUME UNCHANGED pub PROVE Goal
  BY <1>same
<1>1. ASSUME NEW r \in Pubs, PublishFind(r) PROVE Goal
  <2>1. CASE r = p
    <3>1. pub'[p] = IdlePub \/ pub'[p] = [pub[p] EXCEPT !.pc = "add", !.hooks = Subscribed(pub[p].event)]
      BY <1>0, <1>1, <2>1 DEF PublishFind
    <3>2. pub'[p] = [pub[p] EXCEPT !.pc = "add", !.hooks = Subscribed(pub[p].event)]
      BY <3>1, Constants
    <3>3. pub[p] \in Pub
      BY <1>0
    <3>4. pub'[p].event = pub[p].event /\ pub'[p].hooks = Subscribed(pub[p].event)
      BY <3>2, <3>3 DEF Pub
    <3>5. QED  BY <3>4, <1>1 DEF PublishFind
  <2>2. CASE r # p
    BY <1>0, <1>1, <2>2 DEF PublishFind
  <2>3. QED  BY <2>1, <2>2
<1>2. ASSUME NEW r \in Pubs, PublishAdd(r) \/ PublishLost(r) PROVE Goal
  <2>1. pub' = [pub EXCEPT ![r] = IdlePub]
    BY <1>2 DEF PublishAdd, PublishLost
  <2>2. pub'[p] = pub[p]
    BY <1>0, <2>1, Constants
  <2>3. QED  BY <2>2
<1>3. ASSUME NEW r \in Pubs, NEW e \in Events, PublishCall(r, e) PROVE Goal
  <2>1. pub' = [pub EXCEPT ![r] = [IdlePub EXCEPT !.pc = "find", !.event = e]]
    BY <1>3 DEF PublishCall
  <2>2. pub'[p] = pub[p]
    BY <1>0, <2>1 DEF IdlePub
  <2>3. QED  BY <2>2
<1>4. ASSUME NEW g \in Hooks, NEW e \in Events, QueueStep(g, e) \/ LockLost(g, e) PROVE Goal
  BY <1>4, <1>same DEF QueueStep, Promote, Stalled, Take, LockLost
<1>5. ASSUME NEW g \in Hooks,
             (\E types \in SUBSET Choices : RegisterWebhook(g, types)) \/ \E q \in Reqs : DeleteRead(q, g)
      PROVE  Goal
  BY <1>5, <1>same DEF RegisterWebhook, DeleteRead
<1>6. ASSUME NEW q \in Reqs, DeleteRow(q) \/ DeleteRowGone(q) PROVE Goal
  BY <1>6, <1>same DEF DeleteRow, DeleteRowGone, JobsSvcDown
<1>7. ASSUME NEW w \in Slots, DeliverStep(w) PROVE Goal
  BY <1>7, <1>same DEF DeliverStep, FindHook, Skip, RefuseTarget, NetworkError, Rejected, Finish, FailAttempt,
                       Report, LateReport, Post, Accepted, AcceptedUnheard
<1>8. CASE JobsSvcCrash
  BY <1>8, <1>same DEF JobsSvcCrash, JobsSvcDown
<1>9. CASE UNCHANGED vars
  BY <1>9, <1>same DEF vars
<1>10. QED
  BY <1>1, <1>2, <1>3, <1>4, <1>5, <1>6, <1>7, <1>8, <1>9 DEF Next, PublishStep

\* Nothing leaves the queue, and only the publisher adds to it.
LEMMA QueueWrites ==
    ASSUME WellFormed, [Next]_vars, NEW h \in Hooks, NEW e \in Events
    PROVE  /\ delivery[h][e].st # "absent" => delivery'[h][e].st # "absent"
           /\ delivery'[h][e].st # delivery[h][e].st /\ delivery[h][e].st = "absent" =>
                \E p \in Pubs : /\ pub[p].pc = "add" /\ pub[p].event = e /\ h \in pub[p].hooks
                                /\ UNCHANGED <<hook, run>>
<1> DEFINE Goal == /\ delivery[h][e].st # "absent" => delivery'[h][e].st # "absent"
                   /\ delivery'[h][e].st # delivery[h][e].st /\ delivery[h][e].st = "absent" =>
                        \E p \in Pubs : /\ pub[p].pc = "add" /\ pub[p].event = e /\ h \in pub[p].hooks
                                        /\ UNCHANGED <<hook, run>>
<1>wf. QueueOK /\ QueueTyped /\ RestTyped /\ RunOK
  BY Parts DEF QueueOK
<1>same. ASSUME delivery'[h][e].st = delivery[h][e].st PROVE Goal
  BY <1>same
<1>set. ASSUME NEW g \in Hooks, NEW f \in Events, NEW d \in Delivery, delivery' = [delivery EXCEPT ![g][f] = d],
               d.st # "absent", delivery[g][f].st # "absent"
        PROVE  Goal
  BY <1>wf, <1>set, EntryWritten
<1>1. ASSUME NEW p \in Pubs, PublishAdd(p) PROVE Goal
  <2>1. CASE h \in pub[p].hooks /\ pub[p].event = e
    <3>1. pub[p].pc = "add" /\ UNCHANGED <<hook, run>>
      BY <1>1 DEF PublishAdd
    <3>2. delivery[h][e].st # "absent" => delivery'[h][e] = delivery[h][e]
      BY <1>wf, <1>1, AddStep
    <3>3. QED  BY <2>1, <3>1, <3>2
  <2>2. CASE h \notin pub[p].hooks \/ pub[p].event # e
    <3>1. delivery'[h][e] = delivery[h][e]
      BY <1>wf, <1>1, <2>2 DEF PublishAdd, QueueTyped
    <3>2. QED  BY <3>1, <1>same
  <2>3. QED  BY <2>1, <2>2
<1>2. ASSUME NEW w \in Slots, Finish(w) \/ FailAttempt(w) PROVE Goal
  <2>1. PICK g \in Hooks, f \in Events, d \in Delivery :
               /\ Holding(w, g, f) /\ delivery' = [delivery EXCEPT ![g][f] = d]
               /\ d.st \in {"completed", "failed", "delayed"}
    BY <1>wf, <1>2, ReportSteps
  <2>2. d.st # "absent" /\ delivery[g][f].st # "absent"
    BY <2>1 DEF Holding
  <2>3. QED  BY <2>1, <2>2, <1>set
<1>3. ASSUME NEW w \in Slots, NEW g \in Hooks, NEW f \in Events, Take(w, g, f) PROVE Goal
  <2>1. PICK d \in Delivery : delivery' = [delivery EXCEPT ![g][f] = d] /\ d.st = "active"
    BY <1>wf, <1>3, TakeStep
  <2>2. d.st # "absent" /\ delivery[g][f].st # "absent"
    BY <2>1, <1>3 DEF Take
  <2>3. QED  BY <2>1, <2>2, <1>set
<1>4. ASSUME NEW g \in Hooks, NEW f \in Events, Promote(g, f) PROVE Goal
  <2>1. delivery[g][f] \in Delivery /\ delivery[g][f].st = "delayed"
    BY <1>wf, <1>4 DEF QueueTyped, Promote
  <2>2. PICK d \in Delivery : d = [delivery[g][f] EXCEPT !.st = "waiting"]
    BY <2>1 DEF Delivery
  <2>3. d.st = "waiting"
    BY <2>1, <2>2 DEF Delivery
  <2>4. delivery' = [delivery EXCEPT ![g][f] = d]
    BY <1>wf, <1>4, <2>2 DEF Promote, QueueTyped
  <2>5. QED  BY <2>1, <2>3, <2>4, <1>set
<1>5. ASSUME NEW g \in Hooks, NEW f \in Events, Stalled(g, f) \/ LockLost(g, f) PROVE Goal
  <2>1. Requeue(g, f) /\ delivery[g][f].st = "active"
    BY <1>5 DEF Stalled, LockLost
  <2>2. PICK d \in Delivery : delivery' = [delivery EXCEPT ![g][f] = d] /\ d.st = "waiting"
    BY <1>wf, <2>1, RequeueOK
  <2>3. QED  BY <2>1, <2>2, <1>set
<1>6. ASSUME NEW w \in Slots,
             FindHook(w) \/ Skip(w) \/ RefuseTarget(w) \/ Post(w) \/ NetworkError(w)
             \/ Accepted(w) \/ AcceptedUnheard(w)
             \/ (\E permanent \in BOOLEAN : Rejected(w, permanent)) \/ LateReport(w)
      PROVE  Goal
  BY <1>6, <1>same DEF FindHook, Skip, RefuseTarget, Post, NetworkError, Accepted, AcceptedUnheard, Rejected, LateReport
<1>7. ASSUME NEW g \in Hooks,
             (\E types \in SUBSET Choices : RegisterWebhook(g, types)) \/ \E q \in Reqs : DeleteRead(q, g)
      PROVE  Goal
  BY <1>7, <1>same DEF RegisterWebhook, DeleteRead, queueVars
<1>8. ASSUME NEW q \in Reqs, DeleteRow(q) \/ DeleteRowGone(q) PROVE Goal
  BY <1>8, <1>same DEF DeleteRow, DeleteRowGone, JobsSvcDown, queueVars
<1>9. ASSUME NEW p \in Pubs, PublishFind(p) \/ PublishLost(p) \/ \E f \in Events : PublishCall(p, f) PROVE Goal
  BY <1>9, <1>same DEF PublishFind, PublishLost, PublishCall, queueVars
<1>10. CASE JobsSvcCrash
  BY <1>10, <1>same DEF JobsSvcCrash, JobsSvcDown
<1>11. CASE UNCHANGED vars
  BY <1>11, <1>same DEF vars
<1>12. QED
  BY <1>1, <1>2, <1>3, <1>4, <1>5, <1>6, <1>7, <1>8, <1>9, <1>10, <1>11
     DEF Next, QueueStep, PublishStep, DeliverStep

\* A slot that works on a delivery took it just now, or did before; it comes to
\* be done because the webhook is no longer active or the receiver accepted.
LEMMA RunWrites ==
    ASSUME WellFormed, [Next]_vars, NEW w \in Slots, NEW h \in Hooks, NEW e \in Events, WorksOn(w, h, e)'
    PROVE  \/ run'[w].pc # "done" /\ delivery[h][e].st = "waiting"
           \/ /\ WorksOn(w, h, e)
              /\ \/ run'[w].pc = "done" => run[w].pc = "done"
                 \/ Accepted(w)
                 \/ hook[h].st # "active"
<1> DEFINE Goal == \/ run'[w].pc # "done" /\ delivery[h][e].st = "waiting"
                   \/ /\ WorksOn(w, h, e)
                      /\ \/ run'[w].pc = "done" => run[w].pc = "done"
                         \/ Accepted(w)
                         \/ hook[h].st # "active"
<1>wf. QueueOK /\ QueueTyped /\ RestTyped
  BY Parts DEF QueueOK
<1>0. run'[w].hook = h /\ run'[w].event = e
  BY DEF WorksOn
<1>same. ASSUME run'[w] = run[w] PROVE Goal
  BY <1>0, <1>same DEF WorksOn
<1>idle. run'[w] # IdleRun
  BY <1>0, Constants
<1>1. ASSUME NEW u \in Slots,
             FindHook(u) \/ Skip(u) \/ RefuseTarget(u) \/ Post(u) \/ NetworkError(u)
             \/ Accepted(u) \/ AcceptedUnheard(u)
             \/ \E permanent \in BOOLEAN : Rejected(u, permanent)
      PROVE  Goal
  <2>1. PICK pc \in Pcs, permanent \in BOOLEAN : Onward(u, pc, permanent)
    BY <1>wf, <1>1, ProcessorSteps
  <2>2. /\ \A v \in Slots \ {u} : run'[v] = run[v]
        /\ run'[u].hook = run[u].hook /\ run'[u].event = run[u].event
    BY <1>wf, <2>1, OnwardRun
  <2>3. CASE u # w
    BY <2>2, <2>3, <1>same
  <2>4. CASE u = w
    <3>1. WorksOn(w, h, e) /\ run[w].hook = h
      BY <1>0, <2>2, <2>4 DEF WorksOn
    <3>2. run[w] \in Run
      BY <1>wf DEF QueueTyped
    <3>3. CASE FindHook(w) \/ Post(w)
      <4>1. run'[w] = [run[w] EXCEPT !.pc = "send"] \/ run'[w] = [run[w] EXCEPT !.pc = "answer"]
        BY <1>wf, <3>3 DEF FindHook, Post, RunTo, QueueTyped
      <4>2. run'[w].pc # "done"
        BY <3>2, <4>1 DEF Run
      <4>3. QED  BY <3>1, <4>2
    <3>4. CASE RefuseTarget(w) \/ NetworkError(w) \/ AcceptedUnheard(w) \/ \E perm \in BOOLEAN : Rejected(w, perm)
      <4>1. PICK perm \in BOOLEAN : run' = [run EXCEPT ![w] = [run[w] EXCEPT !.pc = "fail", !.permanent = perm]]
        BY <3>4 DEF RefuseTarget, NetworkError, AcceptedUnheard, Rejected, Failing
      <4>2. run'[w] = [run[w] EXCEPT !.pc = "fail", !.permanent = perm]
        BY <1>wf, <4>1 DEF QueueTyped
      <4>3. run'[w].pc # "done"
        BY <3>2, <4>2 DEF Run
      <4>4. QED  BY <3>1, <4>3
    <3>5. CASE Skip(w)
      BY <3>1, <3>5 DEF Skip, MayDeliver
    <3>6. CASE Accepted(w)
      BY <3>1, <3>6
    <3>7. QED  BY <1>1, <2>4, <3>3, <3>4, <3>5, <3>6
  <2>5. QED  BY <2>3, <2>4
<1>2. ASSUME NEW u \in Slots, Finish(u) \/ FailAttempt(u) \/ LateReport(u) PROVE Goal
  <2>1. run' = [run EXCEPT ![u] = IdleRun]
    BY <1>2 DEF Finish, FailAttempt, Report, LateReport
  <2>2. run'[w] = run[w] \/ run'[w] = IdleRun
    BY <1>wf, <2>1 DEF QueueTyped
  <2>3. QED  BY <2>2, <1>idle, <1>same
<1>3. ASSUME NEW u \in Slots, NEW g \in Hooks, NEW f \in Events, Take(u, g, f) PROVE Goal
  <2>1. PICK q \in Run :
          /\ run' = [run EXCEPT ![u] = q] /\ q.pc \in {"find", "fail"} /\ q.hook = g /\ q.event = f
          /\ delivery[g][f].st = "waiting"
    BY <1>wf, <1>3, TakeStep
  <2>2. run'[w] = run[w] \/ run'[w] = q
    BY <1>wf, <2>1 DEF QueueTyped
  <2>3. CASE run'[w] = q
    <3>1. g = h /\ f = e /\ run'[w].pc # "done"
      BY <1>0, <2>1, <2>3
    <3>2. QED  BY <2>1, <3>1
  <2>4. QED  BY <2>2, <2>3, <1>same
<1>4. ASSUME NEW g \in Hooks, NEW f \in Events, Promote(g, f) \/ Stalled(g, f) \/ LockLost(g, f) PROVE Goal
  BY <1>4, <1>same DEF Promote, Stalled, LockLost
<1>down. ASSUME JobsSvcDown PROVE Goal
  <2>1. run'[w] = IdleRun
    BY <1>down DEF JobsSvcDown
  <2>2. QED  BY <2>1, <1>idle
<1>5. ASSUME NEW g \in Hooks,
             (\E types \in SUBSET Choices : RegisterWebhook(g, types)) \/ \E q \in Reqs : DeleteRead(q, g)
      PROVE  Goal
  BY <1>5, <1>same DEF RegisterWebhook, DeleteRead, queueVars
<1>6. ASSUME NEW q \in Reqs, DeleteRow(q) PROVE Goal
  BY <1>6, <1>same DEF DeleteRow, queueVars
<1>7. ASSUME NEW q \in Reqs, DeleteRowGone(q) PROVE Goal
  BY <1>7, <1>down DEF DeleteRowGone
<1>8. ASSUME NEW p \in Pubs, PublishStep(p) \/ PublishLost(p) \/ \E f \in Events : PublishCall(p, f) PROVE Goal
  BY <1>8, <1>same DEF PublishStep, PublishFind, PublishAdd, PublishLost, PublishCall, queueVars
<1>9. CASE JobsSvcCrash
  BY <1>9, <1>down DEF JobsSvcCrash
<1>10. CASE UNCHANGED vars
  BY <1>10, <1>same DEF vars
<1>11. QED
  BY <1>1, <1>2, <1>3, <1>4, <1>5, <1>6, <1>7, <1>8, <1>9, <1>10 DEF Next, QueueStep, DeliverStep

\* What a receiver accepted stays accepted.
LEMMA AckedKept ==
    ASSUME WellFormed, [Next]_vars, NEW h \in Hooks, NEW e \in Events
    PROVE  /\ acked[h][e] > 0 => acked'[h][e] > 0
           /\ \A w \in Slots : (Accepted(w) \/ AcceptedUnheard(w)) /\ WorksOn(w, h, e) => acked'[h][e] > 0
<1>0. acked \in [Hooks -> [Events -> Nat]] /\ RunOK
  BY DEF WellFormed, TypeOK
<1>1. ASSUME NEW w \in Slots, Accepted(w) \/ AcceptedUnheard(w)
      PROVE  /\ acked[h][e] > 0 => acked'[h][e] > 0
             /\ WorksOn(w, h, e) => acked'[h][e] > 0
  <2>1. PICK g \in Hooks, f \in Events : g = run[w].hook /\ f = run[w].event
    BY <1>0, <1>1 DEF Accepted, AcceptedUnheard, RunOK
  <2>2. acked' = [acked EXCEPT ![g][f] = @ + 1]
    BY <1>1, <2>1 DEF Accepted, AcceptedUnheard
  <2>3. acked'[g][f] = acked[g][f] + 1 /\ (g # h \/ f # e => acked'[h][e] = acked[h][e])
    BY <1>0, <2>2
  <2>4. acked[h][e] \in Nat
    BY <1>0
  <2>5. CASE g = h /\ f = e
    BY <2>3, <2>4, <2>5
  <2>6. CASE g # h \/ f # e
    BY <2>1, <2>3, <2>6 DEF WorksOn
  <2>7. QED  BY <2>5, <2>6
<1>2. QED  BY <1>1, ReceiverSteps

LEMMA PromiseOKStep ==
    ASSUME WellFormed, PromiseOK, [Next]_vars
    PROVE  PromiseOK'
<1>0. HookOK /\ AddressOK /\ WorkOK /\ PubOK
  BY DEF PromiseOK, WellFormed
<1>1. HookOK' /\ \A h \in Hooks : \A t : t \in hook[h].events => t \in hook'[h].events
  BY <1>0, HookKept
<1>2. ASSUME NEW p \in Pubs, pub'[p].pc = "add", NEW h \in pub'[p].hooks, h \in Hooks
      PROVE  TypeOf[pub'[p].event] \in hook'[h].events
  <2>1. CASE pub'[p].hooks = pub[p].hooks /\ pub[p].pc = "add"
    <3>1. TypeOf[pub[p].event] \in hook[h].events
      BY <1>0, <1>2, <2>1 DEF AddressOK
    <3>2. QED  BY <1>1, <1>2, <3>1, PubWrites
  <2>2. CASE UNCHANGED hook /\ pub'[p].hooks = Subscribed(pub[p].event)
    <3>1. TypeOf[pub[p].event] \in hook[h].events
      BY <1>2, <2>2 DEF Subscribed
    <3>2. QED  BY <1>1, <1>2, <3>1, PubWrites
  <2>3. QED  BY <1>2, <2>1, <2>2, PubWrites
<1>3. ASSUME NEW h \in Hooks, NEW e \in Events, delivery'[h][e].st # "absent"
      PROVE  TypeOf[e] \in hook'[h].events
  <2>1. CASE delivery[h][e].st # "absent"
    BY <1>0, <1>1, <2>1 DEF AddressOK
  <2>2. CASE delivery[h][e].st = "absent"
    <3>1. PICK p \in Pubs : pub[p].pc = "add" /\ pub[p].event = e /\ h \in pub[p].hooks
      BY <1>3, <2>2, QueueWrites
    <3>2. QED  BY <1>0, <1>1, <3>1 DEF AddressOK
  <2>3. QED  BY <2>1, <2>2
<1>4. AddressOK'
  <2>1. \A p \in Pubs : pub'[p].hooks \subseteq Hooks
    <3>1. WellFormed'
      BY WellFormedStep
    <3>2. pub' \in [Pubs -> Pub]
      BY <3>1 DEF WellFormed, TypeOK
    <3>3. QED  BY <3>2 DEF Pub
  <2>2. QED  BY <1>2, <1>3, <2>1 DEF AddressOK
<1>5. ASSUME NEW w \in Slots, NEW h \in Hooks, NEW e \in Events, WorksOn(w, h, e)'
      PROVE  /\ delivery'[h][e].st # "absent"
             /\ run'[w].pc = "done" => acked'[h][e] > 0 \/ hook'[h].st = "deleted"
  <2>1. CASE run'[w].pc # "done" /\ delivery[h][e].st = "waiting"
    BY <2>1, QueueWrites
  <2>2. CASE WorksOn(w, h, e)
    <3>1. delivery[h][e].st # "absent" /\ delivery'[h][e].st # "absent"
      BY <1>0, <2>2, QueueWrites DEF WorkOK
    <3>2. CASE run'[w].pc = "done" => run[w].pc = "done"
      <4>1. run'[w].pc = "done" => acked[h][e] > 0 \/ hook[h].st = "deleted"
        BY <1>0, <2>2, <3>2 DEF WorkOK
      <4>2. QED  BY <3>1, <4>1, AckedKept, HookStep
    <3>3. CASE Accepted(w)
      BY <2>2, <3>1, <3>3, AckedKept
    <3>4. CASE hook[h].st # "active"
      <4>1. hook[h].st # "none"
        BY <1>0, <3>1 DEF AddressOK, HookOK
      <4>2. hook[h] \in Hook
        BY DEF WellFormed, TypeOK
      <4>3. hook[h].st = "deleted"
        BY <3>4, <4>1, <4>2 DEF Hook
      <4>4. QED  BY <3>1, <4>3, HookStep
    <3>5. QED  BY <1>5, <2>1, <3>2, <3>3, <3>4, RunWrites
  <2>3. QED  BY <1>5, <2>1, <2>2, RunWrites
<1>6. QED  BY <1>1, <1>4, <1>5 DEF PromiseOK, WorkOK

LEMMA PromiseHolds == Spec => [](WellFormed /\ PromiseOK)
<1>1. WellFormed /\ PromiseOK /\ [Next]_vars => WellFormed' /\ PromiseOK'
  BY WellFormedStep, PromiseOKStep
<1>2. QED  BY <1>1, WellFormedInit, PromiseOKInit, PTL DEF Spec

-----------------------------------------------------------------------------
(* The delivery of events refines EventDelivery *)

\* The mapping, by webhook and event.
Refuses(w, h, e) == run[w].pc = "fail" /\ run[w].permanent /\ WorksOn(w, h, e)

LEMMA RefusingIs ==
    /\ Refusing \subseteq Hooks \X Events
    /\ \A h \in Hooks, e \in Events : <<h, e>> \in Refusing <=> \E w \in Slots : Refuses(w, h, e)
<1>1. Refusing \subseteq Hooks \X Events
  BY DEF Refusing
<1>2. ASSUME NEW h \in Hooks, NEW e \in Events
      PROVE  <<h, e>> \in Refusing <=> \E w \in Slots : Refuses(w, h, e)
  BY DEF Refusing, Refuses
<1>3. QED  BY <1>1, <1>2

\* So is Refusing in the next state.
LEMMA RefusingNext ==
    /\ Refusing' \subseteq Hooks \X Events
    /\ \A h \in Hooks, e \in Events : <<h, e>> \in Refusing' <=> \E w \in Slots : Refuses(w, h, e)'
<1>1. Refusing' \subseteq Hooks \X Events
  BY DEF Refusing
<1>2. ASSUME NEW h \in Hooks, NEW e \in Events
      PROVE  <<h, e>> \in Refusing' <=> \E w \in Slots : Refuses(w, h, e)'
  BY DEF Refusing, Refuses
<1>3. QED  BY <1>1, <1>2

LEMMA HeardIs ==
    /\ Heard \subseteq Hooks \X Events /\ Heard' \subseteq Hooks \X Events
    /\ \A h \in Hooks, e \in Events : /\ <<h, e>> \in Heard <=> acked[h][e] > 0
                                      /\ <<h, e>> \in Heard' <=> acked'[h][e] > 0
BY DEF Heard

\* One slot's run is written: what is refused shrinks, stays or gets that delivery.
LEMMA RefusingMoves ==
    ASSUME NEW w \in Slots, \A u \in Slots \ {w} : run'[u] = run[u]
    PROVE  /\ ~(run'[w].pc = "fail" /\ run'[w].permanent) => Refusing' \subseteq Refusing
           /\ /\ ~(run[w].pc = "fail" /\ run[w].permanent)
              /\ ~(run'[w].pc = "fail" /\ run'[w].permanent)
              => Refusing' = Refusing
           /\ \A h \in Hooks, e \in Events :
                /\ ~(run[w].pc = "fail" /\ run[w].permanent)
                /\ run'[w].pc = "fail" /\ run'[w].permanent /\ WorksOn(w, h, e)'
                => Refusing' = Refusing \cup {<<h, e>>}
<1>1. \A u \in Slots \ {w}, h \in Hooks, e \in Events : Refuses(u, h, e)' <=> Refuses(u, h, e)
  BY DEF Refuses, WorksOn
<1>2. ASSUME ~(run'[w].pc = "fail" /\ run'[w].permanent) PROVE Refusing' \subseteq Refusing
  <2>1. \A h \in Hooks, e \in Events : ~Refuses(w, h, e)'
    BY <1>2 DEF Refuses
  <2>2. \A h \in Hooks, e \in Events : <<h, e>> \in Refusing' => <<h, e>> \in Refusing
    BY <1>1, <2>1, RefusingIs, RefusingNext
  <2>3. QED  BY <2>2, RefusingNext
<1>3. ASSUME ~(run[w].pc = "fail" /\ run[w].permanent) PROVE Refusing \subseteq Refusing'
  <2>1. \A h \in Hooks, e \in Events : ~Refuses(w, h, e)
    BY <1>3 DEF Refuses
  <2>2. \A h \in Hooks, e \in Events : <<h, e>> \in Refusing => <<h, e>> \in Refusing'
    BY <1>1, <2>1, RefusingIs, RefusingNext
  <2>3. QED  BY <2>2, RefusingIs
<1>4. ASSUME NEW h \in Hooks, NEW e \in Events, ~(run[w].pc = "fail" /\ run[w].permanent),
             run'[w].pc = "fail", run'[w].permanent, WorksOn(w, h, e)'
      PROVE  Refusing' = Refusing \cup {<<h, e>>}
  <2>1. Refuses(w, h, e)'
    BY <1>4 DEF Refuses
  <2>2. \A g \in Hooks, f \in Events : Refuses(w, g, f)' => g = h /\ f = e
    BY <1>4 DEF Refuses, WorksOn
  <2>3. <<h, e>> \in Refusing'
    BY <2>1, RefusingNext
  <2>4. \A g \in Hooks, f \in Events : <<g, f>> \in Refusing' => <<g, f>> \in Refusing \cup {<<h, e>>}
    BY <1>1, <2>2, RefusingIs, RefusingNext
  <2>5. Refusing' \subseteq Refusing \cup {<<h, e>>}
    BY <2>4, RefusingNext
  <2>6. QED  BY <1>3, <1>4, <2>3, <2>5
<1>5. QED  BY <1>2, <1>3, <1>4

\* One entry of the queue is written.
Written(h, e, d) == delivery' = [delivery EXCEPT ![h][e] = d]

LEMMA FatesMove ==
    ASSUME QueueTyped, NEW h \in Hooks, NEW e \in Events, NEW d \in Delivery, Written(h, e, d)
    PROVE  /\ Fates' = [Fates EXCEPT ![h][e] = Fate(d)] /\ Tries' = [Tries EXCEPT ![h][e] = d.made]
           /\ Fates[h][e] = Fate(delivery[h][e]) /\ Tries[h][e] = delivery[h][e].made
           /\ Fate(d) = Fate(delivery[h][e]) => Fates' = Fates
           /\ d.made = delivery[h][e].made => Tries' = Tries
<1>1. /\ delivery' \in [Hooks -> [Events -> Delivery]] /\ delivery'[h][e] = d
      /\ \A g \in Hooks, f \in Events : g # h \/ f # e => delivery'[g][f] = delivery[g][f]
  <2>1. delivery \in [Hooks -> [Events -> Delivery]]
    BY DEF QueueTyped
  <2>2. QED  BY <2>1 DEF Written
<1>2. Fates' = [Fates EXCEPT ![h][e] = Fate(d)]
  BY <1>1 DEF Fates, Written
<1>3. Tries' = [Tries EXCEPT ![h][e] = d.made]
  BY <1>1 DEF Tries, Written
<1>4. Fates[h][e] = Fate(delivery[h][e]) /\ Tries[h][e] = delivery[h][e].made
  BY DEF Fates, Tries
<1>5. Fate(d) = Fate(delivery[h][e]) => Fates' = Fates
  BY <1>1 DEF Fates, Written
<1>6. d.made = delivery[h][e].made => Tries' = Tries
  BY <1>1 DEF Tries, Written
<1>7. QED  BY <1>2, <1>3, <1>4, <1>5, <1>6

LEMMA FateIs ==
    \A d \in Delivery : /\ d.st = "absent" <=> Fate(d) = "none"
                        /\ d.st \in {"waiting", "delayed", "active"} <=> Fate(d) = "queued"
                        /\ d.st = "completed" => Fate(d) = "completed"
                        /\ d.st = "failed" => Fate(d) = "failed"
BY DEF Fate, Delivery

PromiseStep ==
    \/ Promise!Forgets
    \/ \E e \in Events : Promise!Queued(e)
    \/ \E h \in Hooks : Promise!Registers(h) \/ Promise!Deletes(h)
    \/ \E h \in Hooks, e \in Events : \/ Promise!Accepts(h, e) \/ Promise!Refuses(h, e)
                                      \/ Promise!Retries(h, e) \/ Promise!Completes(h, e) \/ Promise!GivesUp(h, e)
    \/ UNCHANGED <<Asked, Gone, Fates, Tries, Heard, Refusing>>

LEMMA SameParts ==
    /\ hook' = hook => Asked' = Asked /\ Gone' = Gone
    /\ delivery' = delivery => Fates' = Fates /\ Tries' = Tries
    /\ acked' = acked => Heard' = Heard
    /\ run' = run => Refusing' = Refusing
BY DEF Asked, Gone, Fates, Tries, Heard, Refusing, WorksOn

LEMMA RowSteps ==
    ASSUME WellFormed, PromiseOK
    PROVE  /\ \A h \in Hooks, types \in SUBSET Choices : RegisterWebhook(h, types) => PromiseStep
           /\ \A q \in Reqs : DeleteRow(q) => PromiseStep
<1>0. HookOK /\ hook \in [Hooks -> Hook]
  BY DEF PromiseOK, WellFormed, TypeOK
<1>1. ASSUME NEW h \in Hooks, NEW types \in SUBSET Choices, RegisterWebhook(h, types) PROVE PromiseStep
  <2>1. /\ hook[h].events = {} /\ hook[h].st = "none" /\ types # {}
        /\ hook'[h].events = types /\ hook'[h].st = "active"
        /\ \A g \in Hooks \ {h} : hook'[g] = hook[g]
    BY <1>0, <1>1, RegisterStep
  <2>2. Asked[h] = {} /\ Asked' = [Asked EXCEPT ![h] = types]
    BY <2>1 DEF Asked
  <2>3. Gone' = Gone
    BY <2>1 DEF Gone
  <2>4. Fates' = Fates /\ Tries' = Tries /\ Heard' = Heard /\ Refusing' = Refusing
    BY <1>1, SameParts DEF RegisterWebhook, queueVars, receiverVars
  <2>5. Promise!Registers(h)
    BY <2>1, <2>2, <2>3, <2>4 DEF Promise!Registers
  <2>6. QED  BY <2>5 DEF PromiseStep
<1>2. ASSUME NEW q \in Reqs, DeleteRow(q) PROVE PromiseStep
  <2>1. PICK h \in Hooks : /\ hook[h].st = "active" /\ hook'[h].st = "deleted"
                           /\ hook'[h].events = hook[h].events
                           /\ \A g \in Hooks \ {h} : hook'[g] = hook[g]
    BY <1>2, DeleteStep
  <2>2. Asked' = Asked /\ Asked[h] # {}
    BY <1>0, <2>1 DEF Asked, HookOK
  <2>3. Gone' = Gone \cup {h}
    BY <2>1 DEF Gone
  <2>4. Fates' = Fates /\ Tries' = Tries /\ Heard' = Heard /\ Refusing' = Refusing
    BY <1>2, SameParts DEF DeleteRow, queueVars, receiverVars
  <2>5. Promise!Deletes(h)
    BY <2>2, <2>3, <2>4 DEF Promise!Deletes
  <2>6. QED  BY <2>5 DEF PromiseStep
<1>3. QED  BY <1>1, <1>2

\* The publisher queues an event.
LEMMA AddKeepsPromise ==
    ASSUME WellFormed, PromiseOK, NEW p \in Pubs, PublishAdd(p)
    PROVE  PromiseStep
<1>0. QueueOK /\ QueueTyped /\ AddressOK /\ delivery \in [Hooks -> [Events -> Delivery]]
  BY Parts DEF QueueOK, PromiseOK, QueueTyped
<1>1. PICK e \in Events : e = pub[p].event
  BY DEF WellFormed, PubOK, PublishAdd
<1>2. pub[p].pc = "add" /\ pub[p].hooks \subseteq Hooks
  BY DEF PublishAdd, WellFormed, TypeOK, Pub
<1> DEFINE hs == {h \in pub[p].hooks : delivery[h][e].st = "absent"}
<1>3. hs \in SUBSET {h \in Hooks : TypeOf[e] \in Asked[h] /\ Fates[h][e] = "none"}
  <2>1. \A h \in hs : h \in Hooks /\ TypeOf[e] \in hook[h].events /\ delivery[h][e].st = "absent"
    BY <1>0, <1>1, <1>2 DEF AddressOK
  <2>2. \A h \in Hooks : Asked[h] = hook[h].events /\ Fates[h][e] = Fate(delivery[h][e])
    BY DEF Asked, Fates
  <2>3. QED  BY <1>0, <2>1, <2>2, FateIs
<1>4. \A h \in Hooks, f \in Events :
          /\ h \in hs /\ f = e => delivery'[h][f].st = "waiting" /\ delivery'[h][f].made = 0 /\ delivery[h][f].made = 0
          /\ h \notin hs \/ f # e => delivery'[h][f] = delivery[h][f]
  <2>1. ASSUME NEW h \in Hooks, NEW f \in Events, h \notin pub[p].hooks \/ f # e
        PROVE  delivery'[h][f] = delivery[h][f]
    BY <1>0, <1>1, <2>1 DEF PublishAdd
  <2>2. ASSUME NEW h \in Hooks, h \in pub[p].hooks PROVE delivery'[h][e] = Added(delivery[h][e])
    BY <1>0, <1>1, <2>2 DEF PublishAdd
  <2>3. ASSUME NEW h \in Hooks, h \in pub[p].hooks, delivery[h][e].st # "absent" PROVE delivery'[h][e] = delivery[h][e]
    BY <2>2, <2>3 DEF Added
  <2>4. ASSUME NEW h \in hs
        PROVE  delivery'[h][e].st = "waiting" /\ delivery'[h][e].made = 0 /\ delivery[h][e].made = 0
    <3>1. h \in Hooks /\ h \in pub[p].hooks /\ delivery[h][e].st = "absent"
      BY <1>2
    <3>2. delivery'[h][e] = [NoDelivery EXCEPT !.st = "waiting"]
      BY <2>2, <3>1 DEF Added
    <3>3. delivery[h][e].made = 0
      BY <1>0, <3>1 DEF QueueOK, EntryOK
    <3>4. QED  BY <3>2, <3>3 DEF NoDelivery
  <2>5. QED  BY <2>1, <2>3, <2>4
<1>5. \A h \in Hooks, f \in Events : delivery'[h][f] \in Delivery
  BY <1>0, AddStep
<1>6. Fates' = [h \in Hooks |-> IF h \in hs THEN [Fates[h] EXCEPT ![e] = "queued"] ELSE Fates[h]]
  <2>1. \A h \in Hooks, f \in Events : Fate(delivery'[h][f]) = IF h \in hs /\ f = e THEN "queued" ELSE Fate(delivery[h][f])
    <3>1. ASSUME NEW h \in Hooks, NEW f \in Events, h \in hs, f = e PROVE Fate(delivery'[h][f]) = "queued"
      <4>1. delivery'[h][f].st = "waiting" /\ delivery'[h][f] \in Delivery
        BY <1>4, <1>5, <3>1
      <4>2. QED  BY <4>1, FateIs
    <3>2. QED  BY <1>4, <3>1
  <2>2. QED  BY <2>1 DEF Fates
<1>7. Tries' = Tries
  BY <1>4 DEF Tries
<1>8. Asked' = Asked /\ Gone' = Gone /\ Heard' = Heard /\ Refusing' = Refusing
  BY SameParts DEF PublishAdd, receiverVars
<1>9. Promise!Queued(e)
  BY <1>3, <1>6, <1>7, <1>8 DEF Promise!Queued
<1>10. QED  BY <1>9 DEF PromiseStep

\* BullMQ moves an entry of the queue.
LEMMA QueueKeepsPromise ==
    ASSUME WellFormed, NEW h \in Hooks, NEW e \in Events,
           Promote(h, e) \/ Stalled(h, e) \/ LockLost(h, e) \/ \E w \in Slots : Take(w, h, e)
    PROVE  PromiseStep
<1>0. QueueOK /\ QueueTyped
  BY Parts DEF QueueOK
<1>old. delivery[h][e] \in Delivery
  BY <1>0 DEF QueueTyped
<1>1. UNCHANGED <<hook, acked>>
  BY DEF Promote, Stalled, LockLost, Take, receiverVars
<1>2. Asked' = Asked /\ Gone' = Gone /\ Heard' = Heard
  BY <1>1, SameParts
<1>set. ASSUME NEW d \in Delivery, delivery' = [delivery EXCEPT ![h][e] = d], d.made = delivery[h][e].made,
               d.st \in {"waiting", "active"}, delivery[h][e].st \in {"waiting", "delayed", "active"}
        PROVE  Fates' = Fates /\ Tries' = Tries /\ Fates[h][e] = "queued"
  <2>1. Fate(d) = "queued" /\ Fate(delivery[h][e]) = "queued"
    BY <1>old, <1>set, FateIs
  <2>2. /\ Fates[h][e] = Fate(delivery[h][e])
        /\ Fate(d) = Fate(delivery[h][e]) => Fates' = Fates
        /\ d.made = delivery[h][e].made => Tries' = Tries
    <3>1. QueueTyped /\ Written(h, e, d) /\ d \in Delivery
      BY <1>0, <1>set DEF Written
    <3>2. QED  BY <3>1, FatesMove
  <2>3. QED  BY <1>set, <2>1, <2>2
<1>3. CASE Promote(h, e)
  <2>1. delivery[h][e].st = "delayed" /\ UNCHANGED run
    BY <1>3 DEF Promote
  <2>2. PICK d \in Delivery : d = [delivery[h][e] EXCEPT !.st = "waiting"]
    BY <1>old DEF Delivery
  <2>3. d.st = "waiting" /\ d.made = delivery[h][e].made
    BY <1>old, <2>2 DEF Delivery
  <2>4. delivery' = [delivery EXCEPT ![h][e] = d]
    BY <1>0, <1>3, <2>2 DEF Promote, QueueTyped
  <2>5. QED  BY <1>2, <1>set, <2>1, <2>3, <2>4, SameParts DEF PromiseStep
<1>4. CASE Stalled(h, e) \/ LockLost(h, e)
  <2>1. Requeue(h, e) /\ delivery[h][e].st = "active" /\ UNCHANGED run
    BY <1>4 DEF Stalled, LockLost
  <2>2. PICK d \in Delivery : /\ delivery' = [delivery EXCEPT ![h][e] = d]
                              /\ d.st = "waiting" /\ d.made = delivery[h][e].made
    BY <1>0, <2>1, RequeueOK
  <2>3. QED  BY <1>2, <1>set, <2>1, <2>2, SameParts DEF PromiseStep
<1>5. ASSUME NEW w \in Slots, Take(w, h, e) PROVE PromiseStep
  <2>1. run[w].pc = "idle" /\ delivery[h][e].st = "waiting"
    BY <1>0, <1>5, TakeStep
  <2>2. PICK d \in Delivery, q \in Run :
                /\ delivery' = [delivery EXCEPT ![h][e] = d] /\ run' = [run EXCEPT ![w] = q]
                /\ d.st = "active" /\ d.made = delivery[h][e].made
                /\ q.hook = h /\ q.event = e
    BY <1>0, <1>5, TakeStep
  <2>3. Fates' = Fates /\ Tries' = Tries /\ Fates[h][e] = "queued"
    BY <1>set, <2>1, <2>2
  <2>4. run'[w] = q /\ \A u \in Slots \ {w} : run'[u] = run[u]
    BY <1>0, <2>2, RunWritten
  <2>5. WorksOn(w, h, e)'
    BY <2>2, <2>4 DEF WorksOn
  <2>6. CASE q.pc = "fail" /\ q.permanent
    <3>1. Refusing' = Refusing \cup {<<h, e>>}
      BY <2>1, <2>4, <2>5, <2>6, RefusingMoves
    <3>2. Promise!Refuses(h, e)
      BY <1>2, <2>3, <3>1 DEF Promise!Refuses
    <3>3. QED  BY <3>2 DEF PromiseStep
  <2>7. CASE ~(q.pc = "fail" /\ q.permanent)
    <3>1. Refusing' = Refusing
      BY <2>1, <2>4, <2>7, RefusingMoves
    <3>2. QED  BY <1>2, <2>3, <3>1 DEF PromiseStep
  <2>8. QED  BY <2>6, <2>7
<1>6. QED  BY <1>3, <1>4, <1>5

\* A slot goes on, or what it works on is lost with its process.
LEMMA WorkKeepsPromise ==
    ASSUME WellFormed, PromiseOK, NEW w \in Slots,
           FindHook(w) \/ Skip(w) \/ RefuseTarget(w) \/ Post(w) \/ NetworkError(w)
             \/ Accepted(w) \/ AcceptedUnheard(w)
           \/ (\E permanent \in BOOLEAN : Rejected(w, permanent)) \/ LateReport(w)
    PROVE  PromiseStep
<1>0. QueueOK /\ QueueTyped /\ RunOK /\ WorkOK /\ run[w] \in Run /\ run \in [Slots -> Run]
  BY Parts DEF QueueOK, PromiseOK, QueueTyped
<1>1. UNCHANGED <<hook, delivery>>
  BY DEF FindHook, Skip, RefuseTarget, Post, NetworkError, Accepted, AcceptedUnheard, Rejected, LateReport
<1>2. Asked' = Asked /\ Gone' = Gone /\ Fates' = Fates /\ Tries' = Tries
  BY <1>1, SameParts
<1>pc. run[w].pc # "idle"
  BY DEF FindHook, Skip, RefuseTarget, Post, NetworkError, Accepted, AcceptedUnheard, Rejected, LateReport
<1>3. PICK h \in Hooks, e \in Events : WorksOn(w, h, e)
  BY <1>0, <1>pc DEF RunOK, WorksOn
<1>4. Fates[h][e] # "none"
  <2>1. delivery[h][e].st # "absent" /\ delivery[h][e] \in Delivery
    BY <1>0, <1>3 DEF WorkOK, QueueTyped
  <2>2. QED  BY <2>1, FateIs DEF Fates
<1>5. CASE FindHook(w) \/ Skip(w) \/ Post(w)
  <2>1. PICK pc \in {"send", "done", "answer"} : RunTo(w, pc)
    BY <1>5 DEF FindHook, Skip, Post
  <2>2. run'[w] = [run[w] EXCEPT !.pc = pc] /\ \A u \in Slots \ {w} : run'[u] = run[u]
    BY <1>0, <2>1 DEF RunTo
  <2>3. run'[w].pc # "fail" /\ run[w].pc # "fail"
    BY <1>0, <1>5, <2>2 DEF Run, FindHook, Skip, Post
  <2>4. Refusing' = Refusing
    BY <2>2, <2>3, RefusingMoves
  <2>5. Heard' = Heard
    BY <1>5, SameParts DEF FindHook, Skip, Post, receiverVars
  <2>6. QED  BY <1>2, <2>4, <2>5 DEF PromiseStep
<1>acc. ASSUME Accepted(w) \/ AcceptedUnheard(w), Refusing' = Refusing PROVE PromiseStep
  <2>1. acked' = [acked EXCEPT ![h][e] = @ + 1] /\ acked \in [Hooks -> [Events -> Nat]]
    BY <1>3, <1>acc DEF Accepted, AcceptedUnheard, WorksOn, WellFormed, TypeOK
  <2>2. acked'[h][e] > 0 /\ \A g \in Hooks, f \in Events : g # h \/ f # e => acked'[g][f] = acked[g][f]
    BY <2>1
  <2>3. \A g \in Hooks, f \in Events : <<g, f>> \in Heard' <=> <<g, f>> \in Heard \cup {<<h, e>>}
    BY <2>2, HeardIs
  <2>4. Heard' = Heard \cup {<<h, e>>}
    BY <2>3, HeardIs
  <2>5. Promise!Accepts(h, e)
    BY <1>2, <1>4, <1>acc, <2>4 DEF Promise!Accepts
  <2>6. QED  BY <2>5 DEF PromiseStep
<1>6. CASE Accepted(w)
  <2>1. run'[w] = [run[w] EXCEPT !.pc = "done"] /\ \A u \in Slots \ {w} : run'[u] = run[u]
    BY <1>0, <1>6 DEF Accepted, RunTo
  <2>2. run'[w].pc # "fail" /\ run[w].pc # "fail"
    BY <1>0, <1>6, <2>1 DEF Run, Accepted
  <2>3. Refusing' = Refusing
    BY <2>1, <2>2, RefusingMoves
  <2>4. QED  BY <1>6, <1>acc, <2>3
<1>10. CASE AcceptedUnheard(w)
  <2>1. run'[w] = [run[w] EXCEPT !.pc = "fail", !.permanent = FALSE] /\ \A u \in Slots \ {w} : run'[u] = run[u]
    BY <1>0, <1>10 DEF AcceptedUnheard, Failing
  <2>2. ~run'[w].permanent /\ run[w].pc # "fail"
    BY <1>0, <1>10, <2>1 DEF Run, AcceptedUnheard
  <2>3. Refusing' = Refusing
    BY <2>1, <2>2, RefusingMoves
  <2>4. QED  BY <1>10, <1>acc, <2>3
<1>7. CASE RefuseTarget(w) \/ NetworkError(w) \/ \E permanent \in BOOLEAN : Rejected(w, permanent)
  <2>1. PICK permanent \in BOOLEAN : Failing(w, permanent)
    BY <1>7 DEF RefuseTarget, NetworkError, Rejected
  <2>2. run'[w] = [run[w] EXCEPT !.pc = "fail", !.permanent = permanent] /\ \A u \in Slots \ {w} : run'[u] = run[u]
    BY <1>0, <2>1 DEF Failing
  <2>3. run'[w].pc = "fail" /\ run'[w].permanent = permanent /\ run[w].pc # "fail"
        /\ run'[w].hook = run[w].hook /\ run'[w].event = run[w].event
    BY <1>0, <1>7, <2>2 DEF Run, RefuseTarget, NetworkError, Rejected
  <2>4. WorksOn(w, h, e)'
    BY <1>3, <2>3 DEF WorksOn
  <2>5. Heard' = Heard
    BY <1>7, SameParts DEF RefuseTarget, NetworkError, Rejected, receiverVars
  <2>6. CASE permanent
    <3>1. Refusing' = Refusing \cup {<<h, e>>}
      BY <2>2, <2>3, <2>4, <2>6, RefusingMoves
    <3>2. Promise!Refuses(h, e)
      BY <1>2, <1>4, <2>5, <3>1 DEF Promise!Refuses
    <3>3. QED  BY <3>2 DEF PromiseStep
  <2>7. CASE ~permanent
    <3>1. Refusing' = Refusing
      BY <2>2, <2>3, <2>7, RefusingMoves
    <3>2. QED  BY <1>2, <2>5, <3>1 DEF PromiseStep
  <2>8. QED  BY <2>6, <2>7
<1>8. CASE LateReport(w)
  <2>1. run'[w] = IdleRun /\ \A u \in Slots \ {w} : run'[u] = run[u]
    BY <1>0, <1>8 DEF LateReport
  <2>2. Refusing' \subseteq Refusing
    BY <2>1, RefusingMoves, Constants
  <2>3. Heard' = Heard
    BY <1>8, SameParts DEF LateReport, receiverVars
  <2>4. Promise!Forgets
    BY <1>2, <2>2, <2>3 DEF Promise!Forgets
  <2>5. QED  BY <2>4 DEF PromiseStep
<1>9. QED  BY <1>5, <1>6, <1>7, <1>8, <1>10

LEMMA DownKeepsPromise == ASSUME JobsSvcDown PROVE PromiseStep
<1>1. \A w \in Slots : run'[w] = IdleRun
  BY DEF JobsSvcDown
<1>2. \A w \in Slots, h \in Hooks, e \in Events : ~Refuses(w, h, e)'
  BY <1>1, Constants DEF Refuses
<1>3. Refusing' \subseteq Refusing
  BY <1>2, RefusingNext
<1>4. Asked' = Asked /\ Gone' = Gone /\ Fates' = Fates /\ Tries' = Tries /\ Heard' = Heard
  BY SameParts DEF JobsSvcDown, receiverVars
<1>5. Promise!Forgets
  BY <1>3, <1>4 DEF Promise!Forgets
<1>6. QED  BY <1>5 DEF PromiseStep

\* The slot that holds a delivery reports it.
LEMMA ReportKeepsPromise ==
    ASSUME WellFormed, PromiseOK, NEW w \in Slots, Finish(w) \/ FailAttempt(w)
    PROVE  PromiseStep
<1>0. QueueOK /\ QueueTyped /\ WorkOK /\ RunOK /\ EntryOK /\ run \in [Slots -> Run] /\ run[w] \in Run
  BY Parts DEF QueueOK, PromiseOK, QueueTyped
<1>1. PICK h \in Hooks, e \in Events : h = run[w].hook /\ e = run[w].event
  BY <1>0 DEF RunOK, Finish, FailAttempt
<1>2. WorksOn(w, h, e) /\ Holding(w, h, e) /\ delivery[h][e].st = "active" /\ delivery[h][e] \in Delivery
  BY <1>0, <1>1 DEF Finish, FailAttempt, Holds, Holding, WorksOn, QueueTyped
<1>3. run[w].attempt = delivery[h][e].made + 1 /\ delivery[h][e].made < Attempts /\ delivery[h][e].made \in 0..Attempts
  BY <1>0, <1>2, Fields DEF EntryOK
<1>4. Fates[h][e] = "queued" /\ Tries[h][e] = delivery[h][e].made
  <2>1. Fate(delivery[h][e]) = "queued"
    BY <1>2, FateIs
  <2>2. QED  BY <2>1 DEF Fates, Tries
<1>5. Asked' = Asked /\ Gone' = Gone /\ Heard' = Heard
  BY SameParts DEF Finish, FailAttempt, Report, receiverVars
<1>6. run'[w] = IdleRun /\ \A u \in Slots \ {w} : run'[u] = run[u]
  BY <1>0 DEF Finish, FailAttempt, Report
<1>7. Refusing' \subseteq Refusing
  BY <1>6, RefusingMoves, Constants
<1>8. ASSUME NEW st \in {"completed", "failed", "delayed"}, Report(w, st, run[w].attempt)
      PROVE  Promise!Reported(h, e, IF st = "delayed" THEN "queued" ELSE st)
  <2>1. PICK d \in Delivery : d = [delivery[h][e] EXCEPT !.st = st, !.made = run[w].attempt, !.lock = None]
    <3>1. run[w].attempt \in 0..Attempts
      BY <1>0, Fields
    <3>2. QED  BY <1>2, <3>1 DEF Delivery
  <2>2. d.st = st /\ d.made = delivery[h][e].made + 1
    BY <1>2, <1>3, <2>1 DEF Delivery
  <2>3. QueueTyped /\ Written(h, e, d) /\ d \in Delivery
    BY <1>0, <1>1, <1>8, <2>1 DEF Report, Written
  <2>4. Fates' = [Fates EXCEPT ![h][e] = Fate(d)] /\ Tries' = [Tries EXCEPT ![h][e] = d.made]
    BY <2>3, FatesMove
  <2>5. Fate(d) = IF st = "delayed" THEN "queued" ELSE st
    BY <2>2, FateIs
  <2>6. Tries' = [Tries EXCEPT ![h][e] = @ + 1]
    BY <1>4, <2>2, <2>4
  <2>7. QED  BY <1>4, <1>5, <1>7, <2>4, <2>5, <2>6 DEF Promise!Reported
<1>9. CASE Finish(w)
  <2>1. Report(w, "completed", run[w].attempt) /\ run[w].pc = "done"
    BY <1>9 DEF Finish
  <2>2. Promise!Reported(h, e, "completed")
    BY <1>8, <2>1
  <2>3. acked[h][e] > 0 \/ hook[h].st = "deleted"
    BY <1>0, <1>2, <2>1 DEF WorkOK
  <2>4. <<h, e>> \in Heard \/ h \in Gone
    BY <2>3, HeardIs DEF Gone
  <2>5. Promise!Completes(h, e)
    BY <2>2, <2>4 DEF Promise!Completes
  <2>6. QED  BY <2>5 DEF PromiseStep
<1>10. CASE FailAttempt(w)
  <2>1. Report(w, IF Retries(w) THEN "delayed" ELSE "failed", run[w].attempt) /\ run[w].pc = "fail"
    BY <1>10 DEF FailAttempt, AttemptsMade
  <2>2. CASE Retries(w)
    <3>1. Promise!Reported(h, e, "queued")
      BY <1>8, <2>1, <2>2
    <3>2. Tries[h][e] + 1 < Attempts
      BY <1>3, <1>4, <2>2 DEF Retries
    <3>3. Promise!Retries(h, e)
      BY <3>1, <3>2 DEF Promise!Retries
    <3>4. QED  BY <3>3 DEF PromiseStep
  <2>3. CASE ~Retries(w)
    <3>1. Promise!Reported(h, e, "failed")
      BY <1>8, <2>1, <2>3
    <3>2. Tries[h][e] + 1 = Attempts \/ <<h, e>> \in Refusing
      <4>1. CASE run[w].permanent
        <5>1. Refuses(w, h, e)
          BY <1>2, <2>1, <4>1 DEF Refuses
        <5>2. QED  BY <5>1, RefusingIs
      <4>2. CASE ~run[w].permanent
        <5>1. ~(run[w].attempt < Attempts)
          BY <2>3, <4>2 DEF Retries
        <5>2. QED  BY <1>3, <1>4, <5>1, Constants
      <4>3. QED  BY <4>1, <4>2
    <3>3. Promise!GivesUp(h, e)
      BY <3>1, <3>2 DEF Promise!GivesUp
    <3>4. QED  BY <3>3 DEF PromiseStep
  <2>4. QED  BY <2>2, <2>3
<1>11. QED  BY <1>9, <1>10

LEMMA NextKeepsPromise ==
    ASSUME WellFormed, PromiseOK, [Next]_vars
    PROVE  PromiseStep
<1>same. ASSUME UNCHANGED <<hook, delivery, run, acked>> PROVE PromiseStep
  BY <1>same, SameParts DEF PromiseStep
<1>1. ASSUME NEW h \in Hooks, \E types \in SUBSET Choices : RegisterWebhook(h, types) PROVE PromiseStep
  BY <1>1, RowSteps
<1>2. ASSUME NEW h \in Hooks, NEW e \in Events, QueueStep(h, e) \/ LockLost(h, e) PROVE PromiseStep
  BY <1>2, QueueKeepsPromise DEF QueueStep
<1>3. ASSUME NEW w \in Slots, DeliverStep(w) PROVE PromiseStep
  BY <1>3, WorkKeepsPromise, ReportKeepsPromise DEF DeliverStep
<1>4. ASSUME NEW q \in Reqs, DeleteRow(q) \/ DeleteRowGone(q) PROVE PromiseStep
  BY <1>4, RowSteps, DownKeepsPromise DEF DeleteRowGone
<1>5. ASSUME NEW p \in Pubs, PublishStep(p) PROVE PromiseStep
  <2>1. CASE PublishFind(p)
    BY <1>same, <2>1 DEF PublishFind, queueVars, receiverVars
  <2>2. QED  BY <1>5, <2>1, AddKeepsPromise DEF PublishStep
<1>6. ASSUME NEW p \in Pubs, PublishLost(p) \/ \E e \in Events : PublishCall(p, e) PROVE PromiseStep
  BY <1>same, <1>6 DEF PublishLost, PublishCall, queueVars, receiverVars
<1>7. ASSUME NEW h \in Hooks, NEW q \in Reqs, DeleteRead(q, h) PROVE PromiseStep
  BY <1>same, <1>7 DEF DeleteRead, queueVars, receiverVars
<1>8. CASE JobsSvcCrash
  BY <1>8, DownKeepsPromise DEF JobsSvcCrash
<1>9. CASE UNCHANGED vars
  BY <1>same, <1>9 DEF vars
<1>10. QED  BY <1>1, <1>2, <1>3, <1>4, <1>5, <1>6, <1>7, <1>8, <1>9 DEF Next

\* What a webhook's owner is promised about an event is kept: every step of the
\* publisher, the queue, the processor and the handlers is a step of
\* EventDelivery or changes nothing of it (publish.ts, deliver.ts, service.ts:195-251).
THEOREM DeliveryKeepsPromise == Spec => ImplementsPromise
<1>1. Init => Promise!PromiseInit
  <2> SUFFICES ASSUME Init PROVE Promise!PromiseInit
    OBVIOUS
  <2>1. Asked = [h \in Hooks |-> {}] /\ Gone = {}
    BY DEF Init, Asked, Gone
  <2>2. Fates = [h \in Hooks |-> [e \in Events |-> "none"]] /\ Tries = [h \in Hooks |-> [e \in Events |-> 0]]
    BY DEF Init, Fates, Tries, Fate, NoDelivery
  <2>3. Heard = {}
    BY HeardIs DEF Init, Heard
  <2>4. Refusing = {}
    BY DEF Init, Refusing, IdleRun
  <2>5. QED  BY <2>1, <2>2, <2>3, <2>4 DEF Promise!PromiseInit
<1>2. PromiseStep => [Promise!PromiseNext]_(Promise!promiseVars)
  BY DEF PromiseStep, Promise!PromiseNext, Promise!promiseVars
<1>3. WellFormed /\ PromiseOK /\ [Next]_vars => [Promise!PromiseNext]_(Promise!promiseVars)
  BY <1>2, NextKeepsPromise
<1>4. QED  BY <1>1, <1>3, PromiseHolds, PTL DEF Spec, ImplementsPromise, Promise!PromiseSpec

=============================================================================
