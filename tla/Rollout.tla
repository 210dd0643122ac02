------------------------------ MODULE Rollout ------------------------------
(***************************************************************************)
(* Rotating the secret that signs request contexts, while the services are *)
(* redeployed one by one and drain their calls.  The gateway signs         *)
(* (signContext) and every other service verifies (verifyContext,          *)
(* packages/svc-auth/src/index.ts); the operator follows                   *)
(* infra/terraform/README-secret-rotation.md; ECS starts a task with the   *)
(* secrets stored at that moment and stops the old one once the new one    *)
(* replaces it; a stopped task drains (packages/grpc-health/src/index.ts,  *)
(* apps/api-gateway/src/main.ts).                                          *)
(*                                                                         *)
(* Secrets are numbers in the order they were made, 0 is the empty string. *)
(* Time is the age of contexts, in ticks, of which MaxAge are 5 minutes; a *)
(* grace period ends at any time after it began.  The clocks of all tasks  *)
(* agree: no context is dated in the future.                               *)
(***************************************************************************)
EXTENDS Naturals

CONSTANTS
    Tasks,        \* task ids, used again once a task has exited
    Services,     \* the services
    Gateway,      \* the one that signs
    ServiceOf,    \* the service a task id belongs to
    Calls,        \* calls in flight from the gateway to another service
    MaxAge,       \* MAX_AGE_MS
    MaxSecret,    \* bound on the secrets made
    None          \* no task

ASSUME RolloutAssumption ==
    /\ Gateway \in Services /\ ServiceOf \in [Tasks -> Services]
    /\ MaxAge \in Nat /\ MaxSecret \in Nat \ {0}
    /\ None \notin Tasks

VARIABLES
    store,   \* the two secrets in Secrets Manager
    step,    \* where the operator is in the procedure
    waited,  \* ticks since every service was redeployed
    task,    \* tasks
    call     \* calls

vars == <<store, step, waited, task, call>>

-----------------------------------------------------------------------------
(* Types *)

Secrets == 0..MaxSecret

Task == [phase : {"gone", "starting", "serving", "draining", "closing"},
         cur   : Secrets,   \* CONTEXT_SIGNING_SECRET
         prev  : Secrets,   \* CONTEXT_SIGNING_SECRET_PREVIOUS
         new   : BOOLEAN]   \* started by the deployment that is under way
Gone == [phase |-> "gone", cur |-> 0, prev |-> 0, new |-> FALSE]

Call == [st     : {"idle", "signed", "running"},
         from   : Tasks \cup {None},
         to     : Tasks \cup {None},
         secret : Secrets,
         age    : 0..MaxAge + 1,
         stream : BOOLEAN]
Idle == [st |-> "idle", from |-> None, to |-> None, secret |-> 0, age |-> 0, stream |-> FALSE]

TypeOK ==
    /\ store \in [current : Secrets, previous : Secrets]
    /\ step \in {"idle", "copied", "rolling", "waiting"}
    /\ waited \in 0..MaxAge + 1
    /\ task \in [Tasks -> Task]
    /\ call \in [Calls -> Call]
    /\ \A c \in Calls : call[c].st = "running" =>
           /\ task[call[c].to].phase \in {"serving", "draining"}
           /\ task[call[c].from].phase \in {"serving", "draining"}

-----------------------------------------------------------------------------
(* State functions *)

Verifiers == Services \ {Gateway}

TasksOf(s, phases) == {t \in Tasks : ServiceOf[t] = s /\ task[t].phase \in phases}
Up(s) == TasksOf(s, {"serving"})

\* What ECS waits for before it stops a task that t replaces: the load balancer's
\* check of the gateway's /healthz; a service behind no load balancer only has
\* to run, since nothing asks its grpc.health.v1 service.
Replaces(t) == task[t].phase \in (IF ServiceOf[t] = Gateway THEN {"serving"} ELSE {"starting", "serving"})

Candidates_Current(t) == {task[t].cur}  \* mutant: no previous secret

\* The secrets verifyContext tries; an empty one is no secret.
Candidates(t) == {task[t].cur, task[t].prev} \ {0}

Expired(c) == call[c].age > MaxAge

\* Every service runs with what the current deployment started.
RolledOut(s) == Up(s) # {} /\ \A t \in TasksOf(s, {"starting", "serving"}) : task[t].new

CallsAt(t)   == {c \in Calls : call[c].st = "running" /\ call[c].to = t}
CallsFrom(t) == {c \in Calls : call[c].st # "idle" /\ call[c].from = t}

\* The calls of a process end with it.
Dropped(t) == [c \in Calls |-> IF c \in CallsAt(t) \cup CallsFrom(t) THEN Idle ELSE call[c]]

-----------------------------------------------------------------------------
(* The operator: README-secret-rotation.md *)

\* Step 1: the current value into the previous slot.
CopyToPrevious ==
    /\ step = "idle" /\ store.current < MaxSecret
    /\ store' = [store EXCEPT !.previous = store.current]
    /\ step' = "copied"
    /\ UNCHANGED <<waited, task, call>>

\* Step 2: a new current value; step 3, the redeployment, may begin.
SetCurrent ==
    /\ step = "copied"
    /\ store' = [store EXCEPT !.current = @ + 1]
    /\ step' = "rolling"
    /\ UNCHANGED <<waited, task, call>>

\* Step 3 is done: every service was redeployed.
RolloutDone ==
    /\ step = "rolling"
    /\ \A s \in Services : RolledOut(s)
    /\ step' = "waiting" /\ waited' = 0
    /\ task' = [t \in Tasks |-> [task[t] EXCEPT !.new = FALSE]]
    /\ UNCHANGED <<store, call>>

\* The rollout window: what was signed before step 3 ended has expired.
WindowElapsed == waited > MaxAge

\* Step 4: the previous slot is cleared; running tasks keep what they have.
ClearPrevious ==
    /\ step = "waiting" /\ WindowElapsed
    /\ store' = [store EXCEPT !.previous = 0]
    /\ step' = "idle"
    /\ UNCHANGED <<waited, task, call>>

\* Contexts get older.
Tick ==
    /\ \/ \E c \in Calls : call[c].st # "idle" /\ ~Expired(c)
       \/ step = "waiting" /\ waited <= MaxAge
    /\ call' = [c \in Calls |-> IF call[c].st = "idle" \/ Expired(c) THEN call[c]
                                ELSE [call[c] EXCEPT !.age = @ + 1]]
    /\ waited' = IF step = "waiting" /\ waited <= MaxAge THEN waited + 1 ELSE waited
    /\ UNCHANGED <<store, step, task>>

-----------------------------------------------------------------------------
(* ECS *)

\* A task of the deployment under way, or the replacement of a crashed one.
\* It reads both secrets once, when it starts.
Start(t) ==
    LET s == ServiceOf[t] IN
    /\ task[t] = Gone
    /\ TasksOf(s, {"starting"}) = {}
    /\ \/ Up(s) = {}
       \/ step = "rolling" /\ \A u \in Up(s) : ~task[u].new
    /\ task' = [task EXCEPT ![t] = [phase |-> "starting", cur |-> store.current,
                                    prev |-> store.previous, new |-> step = "rolling"]]
    /\ UNCHANGED <<store, step, waited, call>>

\* The port is bound, then health.serve().
Bind(t) ==
    /\ task[t].phase = "starting"
    /\ task' = [task EXCEPT ![t].phase = "serving"]
    /\ UNCHANGED <<store, step, waited, call>>

\* SIGTERM for the old task, once a new one replaces it: it reports
\* NOT_SERVING, takes no more calls and starts its timer.
Stop(t) ==
    /\ task[t].phase = "serving" /\ ~task[t].new
    /\ \E u \in Tasks : ServiceOf[u] = ServiceOf[t] /\ task[u].new /\ Replaces(u)
    /\ task' = [task EXCEPT ![t].phase = "draining"]
    /\ UNCHANGED <<store, step, waited, call>>

Crash(t) ==
    /\ task[t].phase # "gone"
    /\ task' = [task EXCEPT ![t] = Gone]
    /\ call' = Dropped(t)
    /\ UNCHANGED <<store, step, waited>>

-----------------------------------------------------------------------------
(* Draining *)

\* app.close ends the SSE streams, and with them their calls.
CloseStreams(t) ==
    /\ ServiceOf[t] = Gateway /\ task[t].phase = "draining"
    /\ \E c \in CallsFrom(t) : call[c].stream
    /\ call' = [c \in Calls |-> IF c \in CallsFrom(t) /\ call[c].stream THEN Idle ELSE call[c]]
    /\ UNCHANGED <<store, step, waited, task>>

\* tryShutdown calls back, or app.close resolves: no call is left.
Drained_AtOnce(t) == TRUE  \* mutant: exits without waiting for the calls
Drained(t) == CallsAt(t) = {} /\ CallsFrom(t) = {}

Drain(t) ==
    /\ task[t].phase = "draining" /\ Drained(t)
    /\ task' = [task EXCEPT ![t].phase = "closing"]
    /\ UNCHANGED <<store, step, waited, call>>

\* onDrain, or the clients' close and Redis' QUIT; then exit.
Exit(t) ==
    /\ task[t].phase = "closing"
    /\ task' = [task EXCEPT ![t] = Gone]
    /\ UNCHANGED <<store, step, waited, call>>

GraceOver_NoCalls(t) == Drained(t)  \* mutant: the timer starts when the calls are done

\* The timer runs from the signal on, whatever is still open.
GraceOver(t) == task[t].phase \in {"draining", "closing"}

\* forceShutdown and exit(1).
ForceExit(t) ==
    /\ task[t].phase \in {"draining", "closing"} /\ GraceOver(t)
    /\ task' = [task EXCEPT ![t] = Gone]
    /\ call' = Dropped(t)
    /\ UNCHANGED <<store, step, waited>>

-----------------------------------------------------------------------------
(* Requests *)

\* requireRole signs the context of a request with the current secret.
Sign(c, t, stream) ==
    /\ call[c] = Idle
    /\ ServiceOf[t] = Gateway /\ task[t].phase = "serving"
    /\ call' = [call EXCEPT ![c] = [Idle EXCEPT !.st = "signed", !.from = t,
                                    !.secret = task[t].cur, !.stream = stream]]
    /\ UNCHANGED <<store, step, waited, task>>

Arrives(c, t) == call[c].st = "signed" /\ ServiceOf[t] # Gateway /\ t \in Up(ServiceOf[t])
Accepts(c, t) == call[c].secret \in Candidates(t)

\* verifyContext, at a task that takes calls.
Verify(c, t) ==
    /\ Arrives(c, t)
    /\ call' = [call EXCEPT ![c] = IF ~Expired(c) /\ Accepts(c, t)
                                   THEN [@ EXCEPT !.st = "running", !.to = t] ELSE Idle]
    /\ UNCHANGED <<store, step, waited, task>>

\* A call is answered or fails (perhaps no task of the service is up), a stream
\* is ended by whoever reads it.  A bulk invitation makes its next call with
\* the context it has.
Answer(c) ==
    /\ \/ call[c].st # "idle" /\ call' = [call EXCEPT ![c] = Idle]
       \/ /\ call[c].st = "running" /\ ~call[c].stream
          /\ call' = [call EXCEPT ![c].st = "signed", ![c].to = None]
    /\ UNCHANGED <<store, step, waited, task>>

-----------------------------------------------------------------------------
(* Specification *)

\* One task of each service runs with the first secret.
Init ==
    /\ store = [current |-> 1, previous |-> 0]
    /\ step = "idle" /\ waited = 0
    /\ task \in {f \in [Tasks -> {Gone, [phase |-> "serving", cur |-> 1, prev |-> 0, new |-> FALSE]}] :
                    \A s \in Services : \E t \in Tasks : {u \in Tasks : ServiceOf[u] = s /\ f[u] # Gone} = {t}}
    /\ call = [c \in Calls |-> Idle]

Next ==
    \/ CopyToPrevious \/ SetCurrent \/ RolloutDone \/ ClearPrevious \/ Tick
    \/ \E t \in Tasks :
        \/ Start(t) \/ Bind(t) \/ Stop(t) \/ Crash(t)
        \/ CloseStreams(t) \/ Drain(t) \/ Exit(t) \/ ForceExit(t)
        \/ \E c \in Calls : Verify(c, t) \/ \E stream \in BOOLEAN : Sign(c, t, stream)
    \/ \E c \in Calls : Answer(c)

Spec == Init /\ [][Next]_vars

\* Timers fire.
FairSpec == Spec /\ \A t \in Tasks : WF_vars(ForceExit(t))

-----------------------------------------------------------------------------
(* Safety *)

\* "Contexts signed by not-yet-redeployed gateway instances still verify
\* against downstream services that already picked up the new current secret"
\* (svc-auth/src/index.ts:10-13): a verifier refuses a context younger than
\* MaxAge only if it is newer than the secret the verifier started with, and
\* never because the secret was rotated out, at any moment of any rotation,
\* over crashes, replacements and drains.
OldContextsVerify ==
    \A c \in Calls, t \in Tasks :
        Arrives(c, t) /\ ~Expired(c) => Accepts(c, t) \/ call[c].secret > task[t].cur

\* "Both secrets support a rollout-safe rotation" in place of one in which "any
\* service still running the old task definition would immediately start
\* rejecting" what redeployed ones signed "(or vice versa)"
\* (README-secret-rotation.md:5-10): no context is refused in its lifetime.
ContextsVerify == \A c \in Calls, t \in Tasks : Arrives(c, t) /\ ~Expired(c) => Accepts(c, t)

-----------------------------------------------------------------------------
(* Liveness *)

\* "Everything force-exits after SHUTDOWN_GRACE_MS" (README.md:97): a stopped
\* task is gone some time later, even if a dashboard keeps a stream through it.
DrainEnds == \A t \in Tasks : task[t].phase = "draining" ~> task[t].phase = "gone"

=============================================================================
