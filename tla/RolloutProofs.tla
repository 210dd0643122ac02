---------------------------- MODULE RolloutProofs ----------------------------
(***************************************************************************)
(* The safety properties of Rollout, proved for any number of services,    *)
(* tasks, calls and rotations, with crashes and drains at any time.        *)
(* CallOK says that a call's tasks are there as long as the call is;       *)
(* RotationOK says, for each step of the operator's procedure, which       *)
(* secrets tasks and contexts can still carry.                             *)
(***************************************************************************)
EXTENDS Rollout, TLAPS

\* A call hangs on its two ends: neither exits before it.
CallOK ==
    \A c \in Calls :
        /\ call[c].st # "idle" =>
               call[c].from \in Tasks /\ task[call[c].from].phase \in {"serving", "draining"}
        /\ call[c].st = "running" =>
               call[c].to \in Tasks /\ task[call[c].to].phase \in {"serving", "draining"}

\* The procedure begins only with a secret left to make.
SecretLeft == step = "copied" => store.current < MaxSecret

WellFormed == TypeOK /\ CallOK /\ SecretLeft

-----------------------------------------------------------------------------
(* Types and calls *)

LEMMA RecordsTyped == Gone \in Task /\ Idle \in Call /\ Idle.st = "idle"
BY RolloutAssumption DEF Gone, Task, Idle, Call, Secrets

\* What is left to show when the scalar variables are fine.
Scalars ==
    /\ store \in [current : Secrets, previous : Secrets]
    /\ step \in {"idle", "copied", "rolling", "waiting"}
    /\ waited \in 0..MaxAge + 1
    /\ SecretLeft

LEMMA WellFormedParts ==
    WellFormed <=> Scalars /\ task \in [Tasks -> Task] /\ call \in [Calls -> Call] /\ CallOK
BY DEF WellFormed, TypeOK, Scalars, CallOK

\* A task that goes on serving or draining keeps its calls; any other has none.
LEMMA MoveTask ==
    ASSUME WellFormed, NEW t \in Tasks, NEW k \in Task, task' = [task EXCEPT ![t] = k],
           UNCHANGED call, k.phase \in {"serving", "draining"} \/ Drained(t)
    PROVE  task' \in [Tasks -> Task] /\ call' \in [Calls -> Call] /\ CallOK'
<1>1. task \in [Tasks -> Task] /\ call \in [Calls -> Call] /\ CallOK
  BY DEF WellFormed, TypeOK
<1>2. \A u \in Tasks : task'[u] = IF u = t THEN k ELSE task[u]
  BY <1>1
<1>3. ASSUME Drained(t), NEW c \in Calls
      PROVE  /\ call[c].st # "idle" => call[c].from # t
             /\ call[c].st = "running" => call[c].to # t
  BY <1>3 DEF Drained, CallsAt, CallsFrom
<1>4. QED  BY <1>1, <1>2, <1>3 DEF CallOK

\* A task that is gone takes its calls with it.
LEMMA DropTask ==
    ASSUME WellFormed, NEW t \in Tasks, task' = [task EXCEPT ![t] = Gone], call' = Dropped(t)
    PROVE  task' \in [Tasks -> Task] /\ call' \in [Calls -> Call] /\ CallOK'
<1>1. task \in [Tasks -> Task] /\ call \in [Calls -> Call] /\ CallOK
  BY DEF WellFormed, TypeOK
<1>2. \A u \in Tasks : u # t => task'[u] = task[u]
  BY <1>1
<1>3. ASSUME NEW c \in Calls
      PROVE  \/ call'[c] = Idle
             \/ /\ call'[c] = call[c]
                /\ call[c].st # "idle" => call[c].from # t
                /\ call[c].st = "running" => call[c].to # t
  BY <1>3 DEF Dropped, CallsAt, CallsFrom
<1>4. task' \in [Tasks -> Task] /\ call' \in [Calls -> Call]
  BY <1>1, RecordsTyped DEF Dropped
<1>5. QED  BY <1>1, <1>2, <1>3, <1>4, RecordsTyped DEF CallOK

\* A call that moves has its ends.
LEMMA MoveCall ==
    ASSUME WellFormed, UNCHANGED task, NEW c \in Calls, NEW k \in Call, call' = [call EXCEPT ![c] = k],
           k.st # "idle" => k.from \in Tasks /\ task[k.from].phase \in {"serving", "draining"},
           k.st = "running" => k.to \in Tasks /\ task[k.to].phase \in {"serving", "draining"}
    PROVE  task' \in [Tasks -> Task] /\ call' \in [Calls -> Call] /\ CallOK'
<1>1. task \in [Tasks -> Task] /\ call \in [Calls -> Call] /\ CallOK
  BY DEF WellFormed, TypeOK
<1>2. \A d \in Calls : call'[d] = IF d = c THEN k ELSE call[d]
  BY <1>1
<1>3. QED  BY <1>1, <1>2 DEF CallOK

LEMMA WellFormedInit == Init => WellFormed
<1> SUFFICES ASSUME Init PROVE WellFormed
  OBVIOUS
<1> DEFINE First == [phase |-> "serving", cur |-> 1, prev |-> 0, new |-> FALSE]
<1>0. /\ store = [current |-> 1, previous |-> 0] /\ step = "idle" /\ waited = 0
      /\ task \in [Tasks -> {Gone, First}]
  BY DEF Init
<1>1. Scalars
  <2>1. store \in [current : Secrets, previous : Secrets]
    BY <1>0, RolloutAssumption DEF Secrets
  <2>2. waited \in 0..MaxAge + 1
    BY <1>0, RolloutAssumption
  <2>3. SecretLeft
    BY <1>0 DEF SecretLeft
  <2>4. QED  BY <1>0, <2>1, <2>2, <2>3 DEF Scalars
<1>2. task \in [Tasks -> Task]
  <2>1. First \in Task
    BY RolloutAssumption DEF Task, Secrets
  <2> HIDE DEF First
  <2>2. QED  BY <1>0, <2>1, RecordsTyped
<1>3. call \in [Calls -> Call] /\ CallOK
  BY RecordsTyped DEF Init, CallOK
<1>4. QED  BY <1>1, <1>2, <1>3, WellFormedParts

LEMMA WellFormedStep == ASSUME WellFormed, [Next]_vars PROVE WellFormed'
<1>wf. Scalars /\ task \in [Tasks -> Task] /\ call \in [Calls -> Call] /\ CallOK
  BY WellFormedParts
<1>parts. Scalars' /\ task' \in [Tasks -> Task] /\ call' \in [Calls -> Call] /\ CallOK' => WellFormed'
  BY DEF WellFormed, TypeOK, Scalars, CallOK
<1> DEFINE Kept == task' \in [Tasks -> Task] /\ call' \in [Calls -> Call] /\ CallOK'
<1>same. UNCHANGED <<task, call>> => Kept
  BY <1>wf DEF CallOK
<1>scalars. UNCHANGED <<store, step, waited>> => Scalars'
  BY <1>wf DEF Scalars, SecretLeft
\* Only the phase of a task changes.
<1>phase. ASSUME NEW t \in Tasks, NEW p \in {"serving", "draining", "closing"},
                 task' = [task EXCEPT ![t].phase = p], UNCHANGED call, p # "closing" \/ Drained(t)
          PROVE  Kept
  <2> DEFINE k == [task[t] EXCEPT !.phase = p]
  <2>1. k \in Task /\ k.phase = p
    BY <1>wf DEF Task
  <2>2. task' = [task EXCEPT ![t] = k]
    BY <1>phase
  <2> HIDE DEF k
  <2>3. QED  BY <2>1, <2>2, <1>phase, MoveTask
<1> HIDE DEF Kept
<1>all. ASSUME Scalars', Kept PROVE WellFormed'
  BY <1>all, <1>parts DEF Kept
<1>1. CASE CopyToPrevious
  <2>1. Scalars'
    BY <1>1, <1>wf DEF CopyToPrevious, Scalars, SecretLeft
  <2>2. QED  BY <1>1, <2>1, <1>same, <1>all DEF CopyToPrevious
<1>2. CASE SetCurrent
  <2>1. store.current + 1 \in Secrets
    BY <1>2, <1>wf, RolloutAssumption DEF SetCurrent, Scalars, SecretLeft, Secrets
  <2>2. Scalars'
    BY <1>2, <1>wf, <2>1 DEF SetCurrent, Scalars, SecretLeft
  <2>3. QED  BY <1>2, <2>2, <1>same, <1>all DEF SetCurrent
<1>3. CASE RolloutDone
  <2>1. Scalars'
    BY <1>3, <1>wf, RolloutAssumption DEF RolloutDone, Scalars, SecretLeft
  <2>2. task' \in [Tasks -> Task]
    BY <1>3, <1>wf DEF RolloutDone, Task
  <2>3. UNCHANGED call /\ \A t \in Tasks : task'[t].phase = task[t].phase
    BY <1>3, <1>wf DEF RolloutDone, Task
  <2>4. CallOK'
    BY <2>3, <1>wf DEF CallOK
  <2>5. QED  BY <2>1, <2>2, <2>3, <2>4, <1>wf, <1>all DEF Kept
<1>4. CASE ClearPrevious
  <2>1. Scalars'
    BY <1>4, <1>wf, RolloutAssumption DEF ClearPrevious, Scalars, SecretLeft, Secrets
  <2>2. QED  BY <1>4, <2>1, <1>same, <1>all DEF ClearPrevious
<1>5. CASE Tick
  <2>1. Scalars'
    BY <1>5, <1>wf, RolloutAssumption DEF Tick, Scalars, SecretLeft
  <2>2. ASSUME NEW c \in Calls
        PROVE  /\ call'[c] \in Call
               /\ call'[c].st = call[c].st /\ call'[c].from = call[c].from /\ call'[c].to = call[c].to
    <3>1. call[c] \in Call /\ MaxAge \in Nat
      BY <1>wf, RolloutAssumption
    <3>2. CASE call[c].st = "idle" \/ Expired(c)
      BY <3>1, <3>2, <1>5 DEF Tick
    <3>3. CASE ~(call[c].st = "idle" \/ Expired(c))
      <4>1. call'[c] = [call[c] EXCEPT !.age = @ + 1]
        BY <3>3, <1>5 DEF Tick
      <4>2. call[c].age + 1 \in 0..MaxAge + 1
        BY <3>1, <3>3 DEF Expired, Call
      <4>3. QED  BY <3>1, <4>1, <4>2 DEF Call
    <3>4. QED  BY <3>2, <3>3
  <2>3. UNCHANGED task /\ call' \in [Calls -> Call]
    BY <1>5, <2>2 DEF Tick
  <2>4. CallOK'
    BY <1>wf, <2>2, <2>3 DEF CallOK
  <2>5. QED  BY <2>1, <2>3, <2>4, <1>wf, <1>all DEF Kept
<1>6. ASSUME NEW t \in Tasks, Start(t) PROVE WellFormed'
  <2> DEFINE k == [phase |-> "starting", cur |-> store.current, prev |-> store.previous,
                   new |-> step = "rolling"]
  <2>1. k \in Task
    <3>1. store.current \in Secrets /\ store.previous \in Secrets
      BY <1>wf DEF Scalars
    <3>2. (step = "rolling") \in BOOLEAN
      OBVIOUS
    <3>3. QED  BY <3>1, <3>2 DEF Task
  <2>2. task[t] = Gone /\ task' = [task EXCEPT ![t] = k] /\ UNCHANGED <<store, step, waited, call>>
    BY <1>6 DEF Start
  <2> HIDE DEF k
  <2>3. Drained(t)
    BY <1>wf, <2>2 DEF Drained, CallsAt, CallsFrom, CallOK, Gone
  <2>4. Kept
    BY <2>1, <2>2, <2>3, MoveTask DEF Kept
  <2>5. QED  BY <2>2, <2>4, <1>scalars, <1>all
<1>7. ASSUME NEW t \in Tasks, Bind(t) PROVE WellFormed'
  BY <1>7, <1>phase, <1>scalars, <1>all DEF Bind
<1>8. ASSUME NEW t \in Tasks, Stop(t) PROVE WellFormed'
  BY <1>8, <1>phase, <1>scalars, <1>all DEF Stop
<1>9. ASSUME NEW t \in Tasks, Crash(t) PROVE WellFormed'
  <2>2. Kept
    BY <1>9, DropTask DEF Crash, Kept
  <2>3. QED  BY <1>9, <2>2, <1>scalars, <1>all DEF Crash
<1>10. ASSUME NEW t \in Tasks, CloseStreams(t) PROVE WellFormed'
  <2>1. ASSUME NEW c \in Calls PROVE call'[c] = Idle \/ call'[c] = call[c]
    BY <1>10 DEF CloseStreams
  <2>2. UNCHANGED <<store, step, waited, task>>
    BY <1>10 DEF CloseStreams
  <2>3. call' \in [Calls -> Call]
    BY <1>10, <1>wf, RecordsTyped DEF CloseStreams
  <2>4. CallOK'
    BY <2>1, <2>2, <1>wf, RecordsTyped DEF CallOK
  <2>5. QED  BY <2>2, <2>3, <2>4, <1>wf, <1>scalars, <1>all DEF Kept
<1>11. ASSUME NEW t \in Tasks, Drain(t) PROVE WellFormed'
  BY <1>11, <1>phase, <1>scalars, <1>all DEF Drain
<1>12. ASSUME NEW t \in Tasks, Exit(t) PROVE WellFormed'
  <2>1. Drained(t)
    BY <1>12, <1>wf DEF Exit, Drained, CallsAt, CallsFrom, CallOK
  <2>2. Kept
    BY <1>12, <2>1, MoveTask, RecordsTyped DEF Exit, Kept
  <2>3. QED  BY <1>12, <2>2, <1>scalars, <1>all DEF Exit
<1>13. ASSUME NEW t \in Tasks, ForceExit(t) PROVE WellFormed'
  BY <1>13, DropTask, <1>scalars, <1>all DEF ForceExit, Kept
\* A step of one call.
<1>call. ASSUME NEW c \in Calls, NEW k \in Call, call' = [call EXCEPT ![c] = k],
                UNCHANGED <<store, step, waited, task>>,
                k.st # "idle" => k.from \in Tasks /\ task[k.from].phase \in {"serving", "draining"},
                k.st = "running" => k.to \in Tasks /\ task[k.to].phase \in {"serving", "draining"}
         PROVE  WellFormed'
  BY <1>call, MoveCall, <1>scalars, <1>all DEF Kept
<1>idle. ASSUME NEW c \in Calls, call' = [call EXCEPT ![c] = Idle],
                UNCHANGED <<store, step, waited, task>>
         PROVE  WellFormed'
  BY <1>idle, <1>call, RecordsTyped
<1>14. ASSUME NEW c \in Calls, NEW t \in Tasks, NEW stream \in BOOLEAN, Sign(c, t, stream)
       PROVE  WellFormed'
  <2> DEFINE k == [Idle EXCEPT !.st = "signed", !.from = t, !.secret = task[t].cur, !.stream = stream]
  <2>1. task[t] \in Task
    BY <1>wf
  <2>2. k \in Call /\ k.st = "signed" /\ k.from = t
    <3>1. task[t].cur \in Secrets /\ Idle \in Call
      BY <2>1, RecordsTyped DEF Task
    <3>2. QED  BY <3>1 DEF Call
  <2>3. /\ task[t].phase = "serving" /\ call' = [call EXCEPT ![c] = k]
        /\ UNCHANGED <<store, step, waited, task>>
    BY <1>14 DEF Sign
  <2> HIDE DEF k
  <2>4. QED  BY <2>2, <2>3, <1>call
<1>15. ASSUME NEW c \in Calls, NEW t \in Tasks, Verify(c, t) PROVE WellFormed'
  <2>1. call[c].st = "signed" /\ task[t].phase = "serving" /\ UNCHANGED <<store, step, waited, task>>
    BY <1>15 DEF Verify, Arrives, Up, TasksOf
  <2>2. CASE ~Expired(c) /\ Accepts(c, t)
    <3> DEFINE k == [call[c] EXCEPT !.st = "running", !.to = t]
    <3>1. call[c] \in Call
      BY <1>wf
    <3>2. k \in Call /\ k.st = "running" /\ k.to = t /\ k.from = call[c].from
      BY <3>1 DEF Call
    <3>3. call[c].from \in Tasks /\ task[call[c].from].phase \in {"serving", "draining"}
      BY <2>1, <1>wf DEF CallOK
    <3>4. call' = [call EXCEPT ![c] = k]
      BY <1>15, <2>2, <1>wf DEF Verify
    <3> HIDE DEF k
    <3>5. QED  BY <2>1, <3>2, <3>3, <3>4, <1>call
  <2>3. CASE ~(~Expired(c) /\ Accepts(c, t))
    <3>1. call' = [call EXCEPT ![c] = Idle]
      BY <1>15, <2>3, <1>wf DEF Verify
    <3>2. QED  BY <2>1, <3>1, <1>idle
  <2>4. QED  BY <2>2, <2>3
<1>16. ASSUME NEW c \in Calls, Answer(c) PROVE WellFormed'
  <2>1. UNCHANGED <<store, step, waited, task>>
    BY <1>16 DEF Answer
  <2>2. CASE call' = [call EXCEPT ![c] = Idle]
    BY <2>1, <2>2, <1>idle
  <2>3. CASE call[c].st = "running" /\ call' = [call EXCEPT ![c].st = "signed", ![c].to = None]
    <3> DEFINE k == [call[c] EXCEPT !.st = "signed", !.to = None]
    <3>1. call[c] \in Call
      BY <1>wf
    <3>2. k \in Call /\ k.st = "signed" /\ k.from = call[c].from
      BY <3>1 DEF Call
    <3>3. call[c].from \in Tasks /\ task[call[c].from].phase \in {"serving", "draining"}
      BY <2>3, <1>wf DEF CallOK
    <3>4. call' = [call EXCEPT ![c] = k]
      BY <2>3, <1>wf
    <3> HIDE DEF k
    <3>5. QED  BY <2>1, <3>2, <3>3, <3>4, <1>call
  <2>4. QED  BY <1>16, <2>2, <2>3 DEF Answer
<1>17. CASE UNCHANGED vars
  BY <1>17, <1>same, <1>scalars, <1>all DEF vars
<1>18. QED
  BY <1>1, <1>2, <1>3, <1>4, <1>5, <1>6, <1>7, <1>8, <1>9, <1>10, <1>11, <1>12, <1>13, <1>14,
     <1>15, <1>16, <1>17 DEF Next
\* Calls hang on tasks that are up or draining, in every reachable state.
THEOREM RolloutWellFormed == Spec => []WellFormed
<1>1. QED  BY WellFormedInit, WellFormedStep, PTL DEF Spec

\* The type invariant holds: in particular a running call's tasks have not exited.
THEOREM RolloutTypeCorrect == Spec => []TypeOK
<1>1. WellFormed => TypeOK
  BY DEF WellFormed
<1>2. QED  BY <1>1, RolloutWellFormed, PTL

-----------------------------------------------------------------------------
(* Old contexts verify throughout a rotation *)

Live(t) == task[t].phase \in {"starting", "serving"}

StoreOK ==
    /\ store.current # 0
    /\ step = "idle" => store.previous = 0
    /\ step = "copied" => store.previous = store.current
    /\ step \in {"rolling", "waiting"} => store.current = store.previous + 1 /\ store.previous # 0

\* What a task may have read when it started.
TaskOK ==
    \A t \in Tasks : Live(t) =>
        /\ task[t].new => step = "rolling" /\ task[t].cur = store.current
        /\ task[t].cur = store.current \/ (step = "rolling" /\ task[t].cur = store.previous)
        /\ step \in {"rolling", "waiting"} /\ task[t].cur = store.current =>
               task[t].prev = store.previous

\* A context that has not expired carries the current secret or the previous
\* one, and with the previous one it is older than the wait of step 4.
ContextOK ==
    \A c \in Calls : call[c].st # "idle" /\ ~Expired(c) =>
        \/ call[c].secret = store.current
        \/ step = "rolling" /\ call[c].secret = store.previous
        \/ step = "waiting" /\ call[c].secret = store.previous /\ waited <= call[c].age

RotationOK == StoreOK /\ TaskOK /\ ContextOK

\* Every secret a context can carry is one that a verifier tries, or newer than
\* what the verifier started with.
LEMMA Known ==
    ASSUME WellFormed, RotationOK, NEW c \in Calls, call[c].st # "idle", ~Expired(c),
           NEW t \in Tasks, Live(t)
    PROVE  call[c].secret \in Candidates(t) \/ call[c].secret > task[t].cur
<1>1. CASE call[c].secret = store.current
  <2>1. store.current \in Nat /\ store.previous \in Nat
    BY RolloutAssumption DEF WellFormed, TypeOK, Secrets
  <2>2. task[t].cur = store.current \/ (step = "rolling" /\ task[t].cur = store.previous)
    BY DEF RotationOK, TaskOK
  <2>3. store.current # 0 /\ (step = "rolling" => store.current = store.previous + 1)
    BY DEF RotationOK, StoreOK
  <2>4. CASE task[t].cur = store.current
    BY <1>1, <2>3, <2>4 DEF Candidates
  <2>5. CASE step = "rolling" /\ task[t].cur = store.previous
    BY <1>1, <2>1, <2>3, <2>5
  <2>6. QED  BY <2>2, <2>4, <2>5
<1>2. CASE step \in {"rolling", "waiting"} /\ call[c].secret = store.previous
  <2>1. store.previous \in {task[t].cur, task[t].prev} /\ store.previous # 0
    BY <1>2 DEF RotationOK, StoreOK, TaskOK
  <2>2. QED  BY <1>2, <2>1 DEF Candidates
<1>3. QED  BY <1>1, <1>2 DEF RotationOK, ContextOK

LEMMA RotationInit == Init => RotationOK
<1> SUFFICES ASSUME Init PROVE RotationOK
  OBVIOUS
<1> DEFINE First == [phase |-> "serving", cur |-> 1, prev |-> 0, new |-> FALSE]
<1>1. /\ store = [current |-> 1, previous |-> 0] /\ step = "idle"
      /\ task \in [Tasks -> {Gone, First}] /\ call = [c \in Calls |-> Idle]
  BY DEF Init
<1>2. StoreOK
  BY <1>1 DEF StoreOK
<1>3. ASSUME NEW t \in Tasks, Live(t) PROVE task[t].cur = 1 /\ ~task[t].new
  BY <1>1, <1>3 DEF Live, Gone
<1>4. TaskOK
  BY <1>1, <1>3 DEF TaskOK
<1>5. QED  BY <1>1, <1>2, <1>4 DEF RotationOK, ContextOK, Idle

\* Tasks that are live keep their secrets, contexts keep theirs: nothing
\* moves while the store and the operator stand still.
LEMMA SecretsKept ==
    ASSUME WellFormed, RotationOK, UNCHANGED <<store, step, waited>>,
           \A t \in Tasks : Live(t)' => Live(t) /\ task'[t].cur = task[t].cur
                                        /\ task'[t].prev = task[t].prev /\ task'[t].new = task[t].new,
           \A c \in Calls : call'[c].st # "idle" =>
               /\ call[c].st # "idle"
               /\ call'[c].secret = call[c].secret /\ call'[c].age = call[c].age
    PROVE  RotationOK'
<1>1. StoreOK' /\ TaskOK'
  BY DEF RotationOK, StoreOK, TaskOK
<1>2. ContextOK'
  BY DEF RotationOK, ContextOK, Expired
<1>3. QED  BY <1>1, <1>2 DEF RotationOK

LEMMA RotationStep ==
    ASSUME WellFormed, WellFormed', RotationOK, [Next]_vars
    PROVE  RotationOK'
<1>wf. /\ task \in [Tasks -> Task] /\ call \in [Calls -> Call] /\ waited \in Nat
       /\ store \in [current : Nat, previous : Nat]
  BY RolloutAssumption DEF WellFormed, TypeOK, Secrets
<1>rot. StoreOK /\ TaskOK /\ ContextOK
  BY DEF RotationOK
<1>same. UNCHANGED <<store, step, waited, task, call>> => RotationOK'
  BY <1>wf, SecretsKept DEF Live
\* Calls end or go on, tasks are gone or drain.
<1>less. ASSUME UNCHANGED <<store, step, waited>>, NEW t \in Tasks, NEW k, ~(k.phase = "starting"),
                k.phase = "serving" => Live(t) /\ k.cur = task[t].cur /\ k.prev = task[t].prev
                                               /\ k.new = task[t].new,
                task' = [task EXCEPT ![t] = k],
                \A c \in Calls : call'[c] = Idle \/ call'[c] = call[c]
         PROVE  RotationOK'
  <2>1. \A u \in Tasks : u # t => task'[u] = task[u]
    BY <1>less, <1>wf
  <2>2. task'[t] = k
    BY <1>less, <1>wf
  <2>3. \A u \in Tasks : Live(u)' => Live(u) /\ task'[u].cur = task[u].cur
                                     /\ task'[u].prev = task[u].prev /\ task'[u].new = task[u].new
    BY <1>less, <2>1, <2>2 DEF Live
  <2>4. \A c \in Calls : call'[c].st # "idle" =>
               /\ call[c].st # "idle"
               /\ call'[c].secret = call[c].secret /\ call'[c].age = call[c].age
    BY <1>less DEF Idle
  <2>5. QED  BY <1>less, <1>wf, <2>3, <2>4, SecretsKept
<1>1. CASE CopyToPrevious
  <2>1. store'.current = store.current /\ store'.previous = store.current /\ step = "idle" /\ step' = "copied"
        /\ UNCHANGED <<waited, task, call>>
    BY <1>1, <1>wf DEF CopyToPrevious
  <2>2. StoreOK' /\ TaskOK'
    BY <1>rot, <2>1 DEF StoreOK, TaskOK, Live
  <2>3. QED  BY <1>rot, <1>wf, <2>1, <2>2 DEF RotationOK, ContextOK, Expired
<1>2. CASE SetCurrent
  <2>1. store'.current = store.current + 1 /\ store'.previous = store.previous /\ step = "copied" /\ step' = "rolling"
        /\ UNCHANGED <<waited, task, call>>
    BY <1>2, <1>wf DEF SetCurrent
  <2>2. StoreOK'
    BY <1>rot, <1>wf, <2>1 DEF StoreOK
  <2>3. \A t \in Tasks : Live(t) => task[t].cur = store.current /\ ~task[t].new
    BY <1>rot, <2>1 DEF TaskOK
  <2>4. TaskOK'
    BY <1>rot, <1>wf, <2>1, <2>3 DEF TaskOK, StoreOK, Live
  <2>5. ContextOK'
    BY <1>rot, <2>1 DEF ContextOK, Expired, StoreOK
  <2>6. QED  BY <1>wf, <2>1, <2>2, <2>4, <2>5 DEF RotationOK
<1>3. CASE RolloutDone
  <2>1. step = "rolling" /\ step' = "waiting" /\ waited' = 0 /\ UNCHANGED <<store, call>>
    BY <1>3 DEF RolloutDone
  <2>2. \A t \in Tasks : /\ task'[t].phase = task[t].phase /\ task'[t].cur = task[t].cur
                         /\ task'[t].prev = task[t].prev /\ ~task'[t].new
    BY <1>3, <1>wf DEF RolloutDone, Task
  <2>3. \A t \in Tasks : Live(t) => task[t].cur = store.current /\ task[t].prev = store.previous
    <3>1. ASSUME NEW t \in Tasks, Live(t) PROVE task[t].new
      <4>1. ServiceOf[t] \in Services
        BY RolloutAssumption
      <4>2. t \in TasksOf(ServiceOf[t], {"starting", "serving"})
        BY <3>1 DEF TasksOf, Live
      <4>3. QED  BY <1>3, <4>1, <4>2 DEF RolloutDone, RolledOut
    <3>2. QED  BY <3>1, <1>rot, <2>1 DEF TaskOK
  <2>4. StoreOK' /\ TaskOK'
    BY <1>rot, <2>1, <2>2, <2>3 DEF StoreOK, TaskOK, Live
  <2>5. ContextOK'
    <3>1. \A c \in Calls : waited' <= call[c].age
      BY <1>wf, <2>1 DEF Call
    <3>2. QED  BY <1>rot, <2>1, <3>1 DEF ContextOK, Expired
  <2>6. QED  BY <2>4, <2>5 DEF RotationOK
<1>4. CASE ClearPrevious
  <2>1. step = "waiting" /\ step' = "idle" /\ waited > MaxAge /\ UNCHANGED <<waited, task, call>>
        /\ store'.current = store.current /\ store'.previous = 0
    BY <1>4, <1>wf DEF ClearPrevious, WindowElapsed
  <2>2. StoreOK' /\ TaskOK'
    BY <1>rot, <2>1 DEF StoreOK, TaskOK, Live
  <2>3. \A c \in Calls : ~Expired(c) => ~(waited <= call[c].age)
    BY <1>wf, <2>1, RolloutAssumption DEF Expired, Call
  <2>4. ContextOK'
    BY <1>rot, <2>1, <2>3 DEF ContextOK, Expired
  <2>5. QED  BY <2>2, <2>4 DEF RotationOK
<1>5. CASE Tick
  <2>1. UNCHANGED <<store, step, task>>
    BY <1>5 DEF Tick
  <2>2. waited' \in Nat /\ (waited' = waited \/ waited' = waited + 1)
    BY <1>5, <1>wf DEF Tick
  <2>3. ASSUME NEW c \in Calls, call'[c].st # "idle", ~Expired(c)'
        PROVE  /\ call[c].st # "idle" /\ ~Expired(c) /\ call'[c].secret = call[c].secret
               /\ call'[c].age = call[c].age + 1
    <3>1. call[c] \in Call
      BY <1>wf
    <3>2. CASE call[c].st = "idle" \/ Expired(c)
      <4>1. call'[c] = call[c]
        BY <3>2, <1>5 DEF Tick
      <4>2. QED  BY <2>3, <3>2, <4>1 DEF Expired
    <3>3. CASE ~(call[c].st = "idle" \/ Expired(c))
      <4>1. call'[c] = [call[c] EXCEPT !.age = @ + 1]
        BY <3>3, <1>5 DEF Tick
      <4>2. QED  BY <3>1, <3>3, <4>1 DEF Call
    <3>4. QED  BY <3>2, <3>3
  <2>4. ASSUME NEW c \in Calls, call'[c].st # "idle", ~Expired(c)', waited <= call[c].age
        PROVE  waited' <= call'[c].age
    <3>1. call[c].age \in Nat
      BY <1>wf DEF Call
    <3>2. QED  BY <1>wf, <2>2, <2>3, <2>4, <3>1
  <2>5. ContextOK'
    BY <1>rot, <2>1, <2>3, <2>4 DEF ContextOK
  <2>6. StoreOK' /\ TaskOK'
    BY <1>rot, <2>1 DEF StoreOK, TaskOK, Live
  <2>7. QED  BY <2>5, <2>6 DEF RotationOK
<1>6. ASSUME NEW t \in Tasks, Start(t) PROVE RotationOK'
  <2> DEFINE deploying == step = "rolling"
             k == [phase |-> "starting", cur |-> store.current, prev |-> store.previous,
                   new |-> deploying]
  <2>0. task' = [task EXCEPT ![t] = k]
    BY <1>6 DEF Start
  <2>1. /\ \A u \in Tasks : u # t => task'[u] = task[u]
        /\ task'[t] = k
        /\ task[t] = Gone /\ UNCHANGED <<store, step, waited, call>>
    BY <1>6, <1>wf, <2>0 DEF Start
  <2>2. /\ task'[t].cur = store.current /\ task'[t].prev = store.previous
        /\ task'[t].new => step = "rolling"
    <3>1. deploying => step = "rolling"
      OBVIOUS
    <3> HIDE DEF deploying
    <3>2. k.cur = store.current /\ k.prev = store.previous /\ k.new = deploying
      OBVIOUS
    <3>3. QED  BY <2>1, <3>1, <3>2
  <2> HIDE DEF k
  <2>3. StoreOK' /\ TaskOK'
    BY <1>rot, <2>1, <2>2 DEF StoreOK, TaskOK, Live
  <2>4. ContextOK'
    BY <1>rot, <2>1 DEF ContextOK, Expired
  <2>5. QED  BY <2>3, <2>4 DEF RotationOK
<1>7. ASSUME NEW t \in Tasks, Bind(t) PROVE RotationOK'
  <2> DEFINE k == [task[t] EXCEPT !.phase = "serving"]
  <2>1. Live(t) /\ k.phase = "serving" /\ k.cur = task[t].cur /\ k.prev = task[t].prev /\ k.new = task[t].new
    BY <1>7, <1>wf DEF Bind, Live, Task
  <2>2. task' = [task EXCEPT ![t] = k] /\ UNCHANGED <<store, step, waited, call>>
    BY <1>7 DEF Bind
  <2> HIDE DEF k
  <2>3. QED  BY <2>1, <2>2, <1>less
\* A task that leaves takes no secret with it.
<1>leave. ASSUME NEW t \in Tasks, NEW p \in {"draining", "closing"}, task' = [task EXCEPT ![t].phase = p],
                 UNCHANGED <<store, step, waited, call>>
          PROVE  RotationOK'
  <2> DEFINE k == [task[t] EXCEPT !.phase = p]
  <2>1. k.phase = p
    BY <1>wf DEF Task
  <2>2. task' = [task EXCEPT ![t] = k]
    BY <1>leave
  <2> HIDE DEF k
  <2>3. QED  BY <2>1, <2>2, <1>leave, <1>less
<1>gone. ASSUME NEW t \in Tasks, task' = [task EXCEPT ![t] = Gone],
                \A c \in Calls : call'[c] = Idle \/ call'[c] = call[c],
                UNCHANGED <<store, step, waited>>
         PROVE  RotationOK'
  <2>1. Gone.phase = "gone"
    BY DEF Gone
  <2>2. QED  BY <2>1, <1>gone, <1>less
<1>8. ASSUME NEW t \in Tasks, Stop(t) PROVE RotationOK'
  BY <1>8, <1>leave DEF Stop
<1>9. ASSUME NEW t \in Tasks, Crash(t) PROVE RotationOK'
  BY <1>9, <1>gone DEF Crash, Dropped
<1>10. ASSUME NEW t \in Tasks, CloseStreams(t) PROVE RotationOK'
  <2>1. \A c \in Calls : call'[c] = Idle \/ call'[c] = call[c]
    BY <1>10 DEF CloseStreams
  <2>2. \A c \in Calls : call'[c].st # "idle" => call'[c] = call[c]
    BY <2>1 DEF Idle
  <2>3. UNCHANGED <<store, step, waited, task>>
    BY <1>10 DEF CloseStreams
  <2>4. QED  BY <1>wf, <2>2, <2>3, SecretsKept DEF Live
<1>11. ASSUME NEW t \in Tasks, Drain(t) PROVE RotationOK'
  BY <1>11, <1>leave DEF Drain
<1>12. ASSUME NEW t \in Tasks, Exit(t) PROVE RotationOK'
  BY <1>12, <1>gone DEF Exit
<1>13. ASSUME NEW t \in Tasks, ForceExit(t) PROVE RotationOK'
  BY <1>13, <1>gone DEF ForceExit, Dropped
\* A call that is under way goes on with its context.
<1>goes. ASSUME NEW c \in Calls, NEW k, call' = [call EXCEPT ![c] = k],
                UNCHANGED <<store, step, waited, task>>,
                k.st # "idle" => call[c].st # "idle" /\ k.secret = call[c].secret /\ k.age = call[c].age
         PROVE  RotationOK'
  <2>1. \A d \in Calls : call'[d] = IF d = c THEN k ELSE call[d]
    BY <1>goes, <1>wf
  <2>2. QED  BY <1>goes, <2>1, SecretsKept DEF Live
<1>14. ASSUME NEW c \in Calls, NEW t \in Tasks, NEW stream \in BOOLEAN, Sign(c, t, stream)
       PROVE  RotationOK'
  <2> DEFINE k == [Idle EXCEPT !.st = "signed", !.from = t, !.secret = task[t].cur, !.stream = stream]
  <2>1. call' = [call EXCEPT ![c] = k] /\ Live(t) /\ ServiceOf[t] = Gateway
        /\ UNCHANGED <<store, step, waited, task>>
    BY <1>14 DEF Sign, Live
  <2>2. k.secret = task[t].cur
    BY RecordsTyped DEF Call
  <2> HIDE DEF k
  <2>3. \A d \in Calls : call'[d] = IF d = c THEN k ELSE call[d]
    BY <1>wf, <2>1
  <2>4. k.secret = store.current \/ (step = "rolling" /\ k.secret = store.previous)
    BY <1>rot, <2>1, <2>2 DEF TaskOK
  <2>5. ContextOK'
    BY <1>rot, <2>1, <2>3, <2>4 DEF ContextOK, Expired
  <2>6. StoreOK' /\ TaskOK'
    BY <1>rot, <2>1 DEF StoreOK, TaskOK, Live
  <2>7. QED  BY <2>5, <2>6 DEF RotationOK
<1>15. ASSUME NEW c \in Calls, NEW t \in Tasks, Verify(c, t) PROVE RotationOK'
  <2>1. call[c] \in Call /\ call[c].st = "signed" /\ UNCHANGED <<store, step, waited, task>>
    BY <1>15, <1>wf DEF Verify, Arrives
  <2>2. CASE ~Expired(c) /\ Accepts(c, t)
    <3> DEFINE k == [call[c] EXCEPT !.st = "running", !.to = t]
    <3>1. call' = [call EXCEPT ![c] = k]
      BY <1>15, <1>wf, <2>2 DEF Verify
    <3>2. k.secret = call[c].secret /\ k.age = call[c].age
      BY <2>1 DEF Call
    <3> HIDE DEF k
    <3>3. QED  BY <2>1, <3>1, <3>2, <1>goes
  <2>3. CASE ~(~Expired(c) /\ Accepts(c, t))
    <3>1. call' = [call EXCEPT ![c] = Idle]
      BY <1>15, <1>wf, <2>3 DEF Verify
    <3>2. QED  BY <2>1, <3>1, RecordsTyped, <1>goes
  <2>4. QED  BY <2>2, <2>3
<1>16. ASSUME NEW c \in Calls, Answer(c) PROVE RotationOK'
  <2>1. UNCHANGED <<store, step, waited, task>>
    BY <1>16 DEF Answer
  <2>2. CASE call' = [call EXCEPT ![c] = Idle]
    BY <2>1, <2>2, RecordsTyped, <1>goes
  <2>3. CASE call[c].st = "running" /\ call' = [call EXCEPT ![c].st = "signed", ![c].to = None]
    <3> DEFINE k == [call[c] EXCEPT !.st = "signed", !.to = None]
    <3>1. k.secret = call[c].secret /\ k.age = call[c].age
      BY <1>wf DEF Call
    <3>2. call' = [call EXCEPT ![c] = k]
      BY <2>3, <1>wf
    <3> HIDE DEF k
    <3>3. QED  BY <2>1, <2>3, <3>1, <3>2, <1>goes
  <2>4. QED  BY <1>16, <2>2, <2>3 DEF Answer
<1>17. CASE UNCHANGED vars
  BY <1>17, <1>same DEF vars
<1>18. QED
  BY <1>1, <1>2, <1>3, <1>4, <1>5, <1>6, <1>7, <1>8, <1>9, <1>10, <1>11, <1>12, <1>13, <1>14,
     <1>15, <1>16, <1>17 DEF Next

\* A verifier refuses a context in its lifetime only if the context is newer
\* than the verifier (verifyContext's fallback, and the wait of the procedure's
\* step 4), over any number of rotations, crashes, replacements and drains.
THEOREM OldContextsAlwaysVerify == Spec => []OldContextsVerify
<1>1. ASSUME WellFormed, RotationOK, NEW c \in Calls, NEW t \in Tasks, Arrives(c, t), ~Expired(c)
      PROVE  Accepts(c, t) \/ call[c].secret > task[t].cur
  BY <1>1, Known DEF Accepts, Arrives, Up, TasksOf, Live
<1>2. WellFormed /\ RotationOK => OldContextsVerify
  BY <1>1 DEF OldContextsVerify
<1>3. Init => WellFormed /\ RotationOK
  BY WellFormedInit, RotationInit
<1>4. WellFormed /\ RotationOK /\ [Next]_vars => (WellFormed /\ RotationOK)'
  BY WellFormedStep, RotationStep
<1>5. QED  BY <1>2, <1>3, <1>4, PTL DEF Spec

=============================================================================
