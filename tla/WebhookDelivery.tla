-------------------------- MODULE WebhookDelivery --------------------------
(***************************************************************************)
(* Webhooks: the publisher that video-svc and the workers call at each job *)
(* transition (packages/webhooks/src/publish.ts), the BullMQ queue of      *)
(* deliveries, the delivery processor of jobs-svc                          *)
(* (packages/webhooks/src/deliver.ts) with the receiver it posts to, and   *)
(* the registration and deletion handlers of apps/jobs-svc/src/service.ts. *)
(* One jobs-svc process serves the handlers and runs the deliveries.       *)
(*                                                                         *)
(* The events are those of one job.  Signatures, payloads and the target   *)
(* rules are data; what they can do to a delivery is to refuse it.         *)
(***************************************************************************)
EXTENDS Naturals, FiniteSets

CONSTANTS
    Hooks,      \* ids of Webhook rows
    Events,     \* event ids: (job, type, attempt)
    TypeOf,     \* the type of an event
    Choices,    \* the event types that registrations choose from
    MaxCalls,   \* how often publish may be called for an event
    Pubs,       \* publish calls in flight
    Reqs,       \* deleteWebhook calls in flight
    Slots,      \* concurrent deliveries of jobs-svc
    Attempts,   \* defaultJobOptions.attempts of the webhook queue
    MaxStalled, \* BullMQ's maxStalledCount
    MaxFaults,  \* bound on crashes, lost locks and failed publishes
    None        \* no value

EventTypes == {"ENQUEUED", "STARTED", "COMPLETED", "FAILED", "RETRYING"}

ASSUME WebhookAssumption ==
    /\ TypeOf \in [Events -> EventTypes]
    /\ Choices \subseteq EventTypes
    /\ MaxCalls \in [Events -> Nat]
    /\ Attempts \in Nat \ {0}
    /\ MaxStalled \in Nat
    /\ MaxFaults \in Nat
    /\ IsFiniteSet(Slots)
    /\ None \notin Hooks \cup Events \cup Slots

VARIABLES
    hook,     \* Webhook table
    called,   \* calls of publish so far, by event
    pub,      \* publish calls in flight
    delivery, \* BullMQ's record of (webhook, event), the custom job id
    run,      \* delivery processor of each slot
    req,      \* the webhook each deleteWebhook call is about to delete
    sent,     \* POSTs that reached the receiver
    acked,    \* POSTs it accepted
    unheard,  \* those of them whose 2xx was lost or came too late for the sender
    late,     \* POSTs that reached the receiver after deleteWebhook answered
    faults    \* crashes, lost locks and failed publishes

vars == <<hook, called, pub, delivery, run, req, sent, acked, unheard, late, faults>>

queueVars    == <<delivery, run>>
receiverVars == <<sent, acked, unheard, late>>

-----------------------------------------------------------------------------
(* Types *)

Hook     == [st : {"none", "active", "deleted"}, events : SUBSET EventTypes]
Pub      == [pc : {"idle", "find", "add"}, event : Events \cup {None}, hooks : SUBSET Hooks]
Delivery == [st : {"absent", "waiting", "delayed", "active", "completed", "failed"},
             made : 0..Attempts, stalled : 0..(MaxStalled + 1), lock : Slots \cup {None}]
Run      == [pc : {"idle", "find", "send", "answer", "done", "fail"},
             hook : Hooks \cup {None}, event : Events \cup {None},
             attempt : 0..Attempts, permanent : BOOLEAN]

TypeOK ==
    /\ hook \in [Hooks -> Hook]
    /\ called \in [Events -> Nat] /\ \A e \in Events : called[e] <= MaxCalls[e]
    /\ pub \in [Pubs -> Pub]
    /\ delivery \in [Hooks -> [Events -> Delivery]]
    /\ run \in [Slots -> Run]
    /\ req \in [Reqs -> Hooks \cup {None}]
    /\ sent \in [Hooks -> [Events -> Nat]]
    /\ acked \in [Hooks -> [Events -> Nat]]
    /\ unheard \in [Hooks -> [Events -> Nat]]
    /\ late \in [Hooks -> Nat]
    /\ faults \in Nat

IdlePub    == [pc |-> "idle", event |-> None, hooks |-> {}]
IdleRun    == [pc |-> "idle", hook |-> None, event |-> None, attempt |-> 0, permanent |-> FALSE]
NoDelivery == [st |-> "absent", made |-> 0, stalled |-> 0, lock |-> None]

-----------------------------------------------------------------------------
(* registerWebhook and deleteWebhook *)

RegisterWebhook(h, types) ==
    /\ hook[h].st = "none"
    /\ types # {}
    /\ hook' = [hook EXCEPT ![h] = [st |-> "active", events |-> types]]
    /\ UNCHANGED <<called, pub, queueVars, req, receiverVars, faults>>

\* The row is read and found.
DeleteRead(q, h) ==
    /\ req[q] = None
    /\ hook[h].st = "active"
    /\ req' = [req EXCEPT ![q] = h]
    /\ UNCHANGED <<hook, called, pub, queueVars, receiverVars, faults>>

DeleteRow(q) ==
    /\ req[q] # None
    /\ hook[req[q]].st = "active"
    /\ hook' = [hook EXCEPT ![req[q]].st = "deleted"]
    /\ req' = [req EXCEPT ![q] = None]
    /\ UNCHANGED <<called, pub, queueVars, receiverVars, faults>>

\* jobs-svc dies: its calls and deliveries are gone, the deliveries it was
\* working on stay active in BullMQ.
JobsSvcDown ==
    /\ req' = [q \in Reqs |-> None]
    /\ run' = [w \in Slots |-> IdleRun]
    /\ faults' = faults + 1
    /\ UNCHANGED <<hook, called, pub, delivery, receiverVars>>

\* Another call deleted the row first: Prisma throws, nothing catches it,
\* and the unhandled rejection ends the process.
DeleteRowGone(q) ==
    /\ req[q] # None
    /\ hook[req[q]].st = "deleted"
    /\ JobsSvcDown

JobsSvcCrash == faults < MaxFaults /\ JobsSvcDown

-----------------------------------------------------------------------------
(* publish *)

\* The pipeline reaches a transition.  The calls for one job come in any order:
\* submitTranscodeJob makes the one for ENQUEUED after queue.add and the asset
\* update, when the worker may be far ahead.  A run that is redelivered
\* publishes its attempt's STARTED again.
PublishCall(p, e) ==
    /\ pub[p].pc = "idle"
    /\ called[e] < MaxCalls[e]
    /\ called' = [called EXCEPT ![e] = @ + 1]
    /\ pub' = [pub EXCEPT ![p] = [IdlePub EXCEPT !.pc = "find", !.event = e]]
    /\ UNCHANGED <<hook, queueVars, req, receiverVars, faults>>

Subscribed_AnyType(e) == {h \in Hooks : hook[h].st = "active"}  \* mutant: the type is not looked at
Subscribed(e) == {h \in Hooks : hook[h].st = "active" /\ TypeOf[e] \in hook[h].events}

NothingToSend_Single(e) == Cardinality(Subscribed(e)) <= 1  \* mutant: off by one
NothingToSend(e) == Subscribed(e) = {}

PublishFind(p) ==
    /\ pub[p].pc = "find"
    /\ pub' = [pub EXCEPT ![p] = IF NothingToSend(pub[p].event) THEN IdlePub
                                 ELSE [@ EXCEPT !.pc = "add", !.hooks = Subscribed(pub[p].event)]]
    /\ UNCHANGED <<hook, called, queueVars, req, receiverVars, faults>>

\* BullMQ ignores an add whose job id exists, in whatever state.
Added_Overwrites(d) == [NoDelivery EXCEPT !.st = "waiting"]  \* mutant: no custom job id
Added(d) == IF d.st = "absent" THEN [NoDelivery EXCEPT !.st = "waiting"] ELSE d

PublishAdd(p) ==
    LET e == pub[p].event IN
    /\ pub[p].pc = "add"
    /\ delivery' = [h \in Hooks |->
                      IF h \in pub[p].hooks THEN [delivery[h] EXCEPT ![e] = Added(delivery[h][e])]
                      ELSE delivery[h]]
    /\ pub' = [pub EXCEPT ![p] = IdlePub]
    /\ UNCHANGED <<hook, called, run, req, receiverVars, faults>>

\* The lookup or the add throws and is logged, or the process dies: the
\* event is lost and the caller never knows.
PublishLost(p) ==
    /\ pub[p].pc # "idle"
    /\ faults < MaxFaults
    /\ faults' = faults + 1
    /\ pub' = [pub EXCEPT ![p] = IdlePub]
    /\ UNCHANGED <<hook, called, queueVars, req, receiverVars>>

-----------------------------------------------------------------------------
(* The delivery queue *)

Take(w, h, e) ==
    LET d == delivery[h][e]
        dead == d.stalled > MaxStalled  \* failed without calling the processor
    IN
    /\ run[w].pc = "idle"
    /\ d.st = "waiting"
    /\ delivery' = [delivery EXCEPT ![h][e] = [@ EXCEPT !.st = "active", !.lock = w]]
    /\ run' = [run EXCEPT ![w] = [pc |-> IF dead THEN "fail" ELSE "find", hook |-> h, event |-> e,
                                  attempt |-> d.made + 1, permanent |-> dead]]
    /\ UNCHANGED <<hook, called, pub, req, receiverVars, faults>>

Promote(h, e) ==
    /\ delivery[h][e].st = "delayed"
    /\ delivery' = [delivery EXCEPT ![h][e].st = "waiting"]
    /\ UNCHANGED <<hook, called, pub, run, req, receiverVars, faults>>

Requeue(h, e) ==
    LET n == delivery[h][e].stalled IN
    delivery' = [delivery EXCEPT ![h][e] = [@ EXCEPT !.st = "waiting", !.lock = None,
                                               !.stalled = IF n > MaxStalled THEN n ELSE n + 1]]

WorksOn(w, h, e) == run[w].hook = h /\ run[w].event = e

\* The worker that held the delivery is gone.
Stalled(h, e) ==
    /\ delivery[h][e].st = "active"
    /\ ~WorksOn(delivery[h][e].lock, h, e)
    /\ Requeue(h, e)
    /\ UNCHANGED <<hook, called, pub, run, req, receiverVars, faults>>

\* Its lock was not renewed in time: it works on unaware.
LockLost(h, e) ==
    /\ faults < MaxFaults
    /\ delivery[h][e].st = "active"
    /\ WorksOn(delivery[h][e].lock, h, e)
    /\ Requeue(h, e)
    /\ faults' = faults + 1
    /\ UNCHANGED <<hook, called, pub, run, req, receiverVars>>

-----------------------------------------------------------------------------
(* The delivery processor *)

RunTo(w, pc) == run' = [run EXCEPT ![w].pc = pc]
Failing(w, permanent) == run' = [run EXCEPT ![w] = [@ EXCEPT !.pc = "fail", !.permanent = permanent]]

MayDeliver_Any(h) == TRUE  \* mutant: the URL is taken from the queue entry
MayDeliver(h) == hook[h].st = "active"

FindHook(w) ==
    /\ run[w].pc = "find"
    /\ MayDeliver(run[w].hook)
    /\ RunTo(w, "send")
    /\ UNCHANGED <<hook, called, pub, delivery, req, receiverVars, faults>>

\* Deleted since the event was queued: dropped quietly.
Skip(w) ==
    /\ run[w].pc = "find"
    /\ ~MayDeliver(run[w].hook)
    /\ RunTo(w, "done")
    /\ UNCHANGED <<hook, called, pub, delivery, req, receiverVars, faults>>

\* The URL breaks the policy or resolves to a private address.
RefuseTarget(w) ==
    /\ run[w].pc = "send"
    /\ Failing(w, TRUE)
    /\ UNCHANGED <<hook, called, pub, delivery, req, receiverVars, faults>>

\* The POST reaches the receiver.
Post(w) ==
    LET h == run[w].hook
        e == run[w].event
    IN
    /\ run[w].pc = "send"
    /\ sent' = [sent EXCEPT ![h][e] = @ + 1]
    /\ late' = IF hook[h].st = "deleted" THEN [late EXCEPT ![h] = @ + 1] ELSE late
    /\ RunTo(w, "answer")
    /\ UNCHANGED <<hook, called, pub, delivery, req, acked, unheard, faults>>

\* No connection, or no answer in time to a POST the receiver did not accept.
NetworkError(w) ==
    /\ run[w].pc \in {"send", "answer"}
    /\ Failing(w, FALSE)
    /\ UNCHANGED <<hook, called, pub, delivery, req, receiverVars, faults>>

\* The receiver accepts and its 2xx arrives.
Accepted(w) ==
    /\ run[w].pc = "answer"
    /\ acked' = [acked EXCEPT ![run[w].hook][run[w].event] = @ + 1]
    /\ RunTo(w, "done")
    /\ UNCHANGED <<hook, called, pub, delivery, req, sent, unheard, late, faults>>

\* The receiver accepts, but its 2xx is lost on the way or comes after the
\* timeout: for the sender the attempt has failed.
AcceptedUnheard(w) ==
    LET h == run[w].hook
        e == run[w].event
    IN
    /\ run[w].pc = "answer"
    /\ acked' = [acked EXCEPT ![h][e] = @ + 1]
    /\ unheard' = [unheard EXCEPT ![h][e] = @ + 1]
    /\ Failing(w, FALSE)
    /\ UNCHANGED <<hook, called, pub, delivery, req, sent, late, faults>>

\* 408, 429 and 5xx may succeed later, everything else is final.
Rejected(w, permanent) ==
    /\ run[w].pc = "answer"
    /\ Failing(w, permanent)
    /\ UNCHANGED <<hook, called, pub, delivery, req, receiverVars, faults>>

Holds(w) ==
    LET d == delivery[run[w].hook][run[w].event] IN d.st = "active" /\ d.lock = w

Report(w, st, made) ==
    /\ delivery' = [delivery EXCEPT ![run[w].hook][run[w].event] =
                      [@ EXCEPT !.st = st, !.made = made, !.lock = None]]
    /\ run' = [run EXCEPT ![w] = IdleRun]
    /\ UNCHANGED <<hook, called, pub, req, receiverVars, faults>>

Finish(w) ==
    /\ run[w].pc = "done"
    /\ Holds(w)
    /\ Report(w, "completed", run[w].attempt)

Retries_OnceMore(w) == ~run[w].permanent /\ run[w].attempt <= Attempts  \* mutant: off by one
Retries(w) == ~run[w].permanent /\ run[w].attempt < Attempts

AttemptsMade_NotCounted(w) == run[w].attempt - 1  \* mutant: only successes count
AttemptsMade(w) == run[w].attempt

FailAttempt(w) ==
    /\ run[w].pc = "fail"
    /\ Holds(w)
    /\ Report(w, IF Retries(w) THEN "delayed" ELSE "failed", AttemptsMade(w))

\* BullMQ refuses the report of a worker without the lock.
LateReport(w) ==
    /\ run[w].pc \in {"done", "fail"}
    /\ ~Holds(w)
    /\ run' = [run EXCEPT ![w] = IdleRun]
    /\ UNCHANGED <<hook, called, pub, delivery, req, receiverVars, faults>>

-----------------------------------------------------------------------------
(* Specification *)

Init ==
    /\ hook = [h \in Hooks |-> [st |-> "none", events |-> {}]]
    /\ called = [e \in Events |-> 0]
    /\ pub = [p \in Pubs |-> IdlePub]
    /\ delivery = [h \in Hooks |-> [e \in Events |-> NoDelivery]]
    /\ run = [w \in Slots |-> IdleRun]
    /\ req = [q \in Reqs |-> None]
    /\ sent = [h \in Hooks |-> [e \in Events |-> 0]]
    /\ acked = [h \in Hooks |-> [e \in Events |-> 0]]
    /\ unheard = [h \in Hooks |-> [e \in Events |-> 0]]
    /\ late = [h \in Hooks |-> 0]
    /\ faults = 0

PublishStep(p) == PublishFind(p) \/ PublishAdd(p)

\* What a delivery does next; the receiver decides which answer it is.
DeliverStep(w) ==
    \/ FindHook(w) \/ Skip(w) \/ RefuseTarget(w) \/ Post(w) \/ NetworkError(w)
    \/ Accepted(w) \/ AcceptedUnheard(w) \/ \E permanent \in BOOLEAN : Rejected(w, permanent)
    \/ Finish(w) \/ FailAttempt(w) \/ LateReport(w)

QueueStep(h, e) == Promote(h, e) \/ Stalled(h, e) \/ \E w \in Slots : Take(w, h, e)

Next ==
    \/ \E h \in Hooks : \/ \E types \in SUBSET Choices : RegisterWebhook(h, types)
                        \/ \E q \in Reqs : DeleteRead(q, h)
                        \/ \E e \in Events : QueueStep(h, e) \/ LockLost(h, e)
    \/ \E q \in Reqs : DeleteRow(q) \/ DeleteRowGone(q)
    \/ \E p \in Pubs : PublishStep(p) \/ PublishLost(p) \/ \E e \in Events : PublishCall(p, e)
    \/ \E w \in Slots : DeliverStep(w)
    \/ JobsSvcCrash

\* Node runs every continuation, a POST is answered or times out after
\* 10 seconds, and BullMQ keeps polling and promoting.
Fairness ==
    /\ \A p \in Pubs : WF_vars(PublishStep(p))
    /\ \A w \in Slots : WF_vars(DeliverStep(w))
    /\ \A h \in Hooks, e \in Events : WF_vars(Promote(h, e)) /\ WF_vars(Stalled(h, e))
    /\ \A h \in Hooks, e \in Events : SF_vars(\E w \in Slots : Take(w, h, e))

Spec     == Init /\ [][Next]_vars
FairSpec == Spec /\ Fairness

-----------------------------------------------------------------------------
(* Safety *)

\* "a transition published twice (...) still produces one
\* delivery" (publish.ts:39-42): a receiver that accepted an event accepts it
\* again only if its answer never reached the sender (deliver.ts:58-67), or when
\* a crash or a lost lock hid the acceptance, once for each of them.
AcceptedOnce ==
    \A h \in Hooks, e \in Events : acked[h][e] <= 1 + unheard[h][e] + faults

\* A webhook that keeps failing is tried Attempts times, and once more for
\* each attempt whose report was lost (packages/queue/src/index.ts:76-88).
SentWithinAttempts ==
    \A h \in Hooks, e \in Events : sent[h][e] <= Attempts + faults

\* "a deleted or deactivated webhook stops receiving immediately"
\* (packages/queue/src/index.ts:41-43), but for the webhook being read before
\* the POST (deliver.ts:88-90): after deleteWebhook has answered, only POSTs that
\* were already under way in a slot reach the receiver, however much is still
\* queued.
StopsAfterInFlight ==
    \A h \in Hooks : late[h] <= Cardinality(Slots)

-----------------------------------------------------------------------------
(* Liveness *)

\* Every queued delivery ends: accepted, dropped or given up.
DeliveriesEnd ==
    \A h \in Hooks, e \in Events :
        (delivery[h][e].st \in {"waiting", "delayed", "active"})
            ~> (delivery[h][e].st \in {"completed", "failed"})

\* A publish call queues the event for every webhook that stays subscribed,
\* unless a fault interrupts it (publish.ts:19-21).
PublishedIsQueued ==
    \A h \in Hooks, p \in Pubs, e \in Events :
        (pub[p].pc = "find" /\ pub[p].event = e /\ h \in Subscribed(e))
            ~> (hook[h].st = "deleted" \/ delivery[h][e].st # "absent" \/ faults > 0)

-----------------------------------------------------------------------------
(* Refinement *)

Fate(d) == CASE d.st = "absent" -> "none"
             [] d.st \in {"waiting", "delayed", "active"} -> "queued"
             [] OTHER -> d.st

Asked    == [h \in Hooks |-> hook[h].events]
Gone     == {h \in Hooks : hook[h].st = "deleted"}
Fates    == [h \in Hooks |-> [e \in Events |-> Fate(delivery[h][e])]]
Tries    == [h \in Hooks |-> [e \in Events |-> delivery[h][e].made]]
Heard    == {p \in Hooks \X Events : acked[p[1]][p[2]] > 0}
Refusing == {p \in Hooks \X Events :
                \E w \in Slots : run[w].pc = "fail" /\ run[w].permanent /\ WorksOn(w, p[1], p[2])}

Promise == INSTANCE EventDelivery WITH
    asked <- Asked, gone <- Gone, fate <- Fates, tries <- Tries, heard <- Heard, refusing <- Refusing

\* Publisher, queue, processor and handlers keep what EventDelivery promises a
\* webhook's owner: an event is queued once and only for webhooks subscribed to
\* its type (publish.ts:22-53), a delivery is reported completed only if the
\* receiver accepted it or the webhook was deleted (deliver.ts:88-90, 121), it
\* is given up only at the last attempt or at a final refusal
\* (packages/queue/src/index.ts:76-88, deliver.ts:92-97, 121-123), and one that
\* is over stays so, whatever slots without the lock still do.
ImplementsPromise == Promise!PromiseSpec

=============================================================================
