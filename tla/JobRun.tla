------------------------------- MODULE JobRun -------------------------------
(***************************************************************************)
(* How a workflow job is claimed and executed: the scheduler's workers     *)
(* (workflow/jobrun/scheduler.go) claim rows of the job table, run each    *)
(* one through a go-flow Runner, and the Controller, as the observer of    *)
(* the flow, copies every change of status back into the row.  The manager *)
(* pauses, resumes and cancels a job through the Runner the Controller     *)
(* keeps for it.                                                           *)
(*                                                                         *)
(* Per job there are the worker that waits in Start, the goroutine of      *)
(* triggerFlow (with the goroutine of the one task of a batch, for which   *)
(* it waits), and requests.  The Runner's FSM has a mutex that is held     *)
(* while the handler of an event runs; the observer is called inside it    *)
(* for a status of the flow and outside it for a status of a task.         *)
(* A restart keeps the table and resets its running jobs.                  *)
(***************************************************************************)
EXTENDS Integers

CONSTANTS
    Job, Worker, Client,
    NoJob,       \* what an idle worker or client works on
    First,       \* the first node of the workflow
    Node,        \* the nodes of the workflow
    Successor,   \* node -> where Next and the branches of the node lead
    MaxRequests, \* bound on pause, resume and cancel requests
    MaxFaults    \* bound on restarts and failing observer calls

End == "end"

ASSUME NodeAssumption ==
    /\ First \in Node /\ End \notin Node
    /\ Successor \in [Node -> SUBSET (Node \cup {End}) \ {{}}]

ASSUME JobRunAssumption ==
    NoJob \notin Job /\ MaxRequests \in Nat /\ MaxFaults \in Nat

\* Who pushes an event tells what happens when it returns.
ASSUME PusherAssumption ==
    Worker \cap Client = {} /\ Worker \cap Job = {} /\ Client \cap Job = {}

VARIABLES
    row,       \* the job table
    runners,   \* jobs that have an entry in Controller.runners
    run,       \* the Runner of a job with its Flow, coordinator and contexts
    event,     \* the FSM event whose handler runs under the mutex
    loop,      \* the goroutine of triggerFlow and its task
    worker,    \* the workers of the scheduler
    client,    \* requests in progress
    requests,  \* requests so far
    faults     \* restarts and failures so far

vars == <<row, runners, run, event, loop, worker, client, requests, faults>>

Finished == {"succeed", "failed", "error", "canceled"}

Status == {"none", "initializing", "running", "pausing", "paused"} \cup Finished

NoRow == [status |-> "none", finished |-> FALSE, node |-> [n \in Node |-> "initializing"]]

\* A Flow over the nodes of a row, before Setup has built its FSM.
NewRun(node) ==
    [status |-> "initializing", fsm |-> "none", started |-> FALSE, stopped |-> FALSE,
     done |-> FALSE,        \* flowCtx: cancelled or timed out
     shotDone |-> FALSE,    \* shotCtx: cancelled by a pause
     node |-> node, crt |-> First, isFinished |-> FALSE,
     wasPaused |-> FALSE]   \* history: an event led to pausing

NoEvent == [type |-> "none", by |-> "none", pc |-> "none", copy |-> NoRow]

NoLoop == [pc |-> "none", then |-> "none", node |-> First, copy |-> NoRow]

Idle == [pc |-> "idle", job |-> NoJob, op |-> "none", copy |-> NoRow]

Init ==
    /\ row = [j \in Job |-> NoRow]
    /\ runners = {}
    /\ run = [j \in Job |-> NewRun(NoRow.node)]
    /\ event = [j \in Job |-> NoEvent]
    /\ loop = [j \in Job |-> NoLoop]
    /\ worker = [w \in Worker |-> Idle]
    /\ client = [c \in Client |-> Idle]
    /\ requests = 0
    /\ faults = 0

Fault == faults < MaxFaults /\ faults' = faults + 1

\* The pcs of a worker that has claimed its job.
Executes(w, j) == worker[w].job = j /\ worker[w].pc # "claim"

-----------------------------------------------------------------------------
(* The observer: Controller.Handle reads the row, stamps it and saves it.  *)
(* Nothing but the last save of a row decides what is in it.               *)

\* mutant: only a success sets FinishAt
StampSucceed(copy, status) ==
    [copy EXCEPT !.status = status, !.finished = @ \/ status = "succeed"]

\* The status of the flow goes into the row; a finished one sets FinishAt.
Stamp(copy, status) ==
    [copy EXCEPT !.status = status, !.finished = @ \/ status \in Finished]

\* SaveWorkflowJob overwrites the row, and a finished job loses its runner.
\* A failing get or save leaves everything as it is.
Save(j, copy) ==
    \/ /\ row' = [row EXCEPT ![j] = copy]
       /\ runners' = IF copy.status \in Finished THEN runners \ {j} ELSE runners
       /\ UNCHANGED faults
    \/ Fault /\ UNCHANGED <<row, runners>>

-----------------------------------------------------------------------------
(* The FSM of a flow. *)

\* mutant: a pause is accepted in every status
EdgesPauseAny ==
    [trigger |-> [from |-> {"initializing", "running"}, to |-> "running"],
     finish  |-> [from |-> {"running"}, to |-> "succeed"],
     fail    |-> [from |-> {"initializing", "running"}, to |-> "failed"],
     cancel  |-> [from |-> {"initializing", "running", "paused"}, to |-> "canceled"],
     pause   |-> [from |-> Status, to |-> "pausing"],
     paused  |-> [from |-> {"pausing"}, to |-> "paused"],
     resume  |-> [from |-> {"paused"}, to |-> "running"]]

\* The edges of buildFlowFSM.  (No coordinator here returns the error that
\* the edge to ErrorStatus is for.)
Edges ==
    [trigger |-> [from |-> {"initializing", "running"}, to |-> "running"],
     finish  |-> [from |-> {"running"}, to |-> "succeed"],
     fail    |-> [from |-> {"initializing", "running"}, to |-> "failed"],
     cancel  |-> [from |-> {"initializing", "running", "paused"}, to |-> "canceled"],
     pause   |-> [from |-> {"running"}, to |-> "pausing"],
     paused  |-> [from |-> {"pausing"}, to |-> "paused"],
     resume  |-> [from |-> {"paused"}, to |-> "running"]]

LoopEvent == {"finish", "fail", "pause", "paused"}

\* Events somebody is about to push.
Pushes(j) ==
    {[type |-> "trigger", by |-> w] : w \in {w \in Worker : worker[w].job = j /\ worker[w].pc = "trigger"}}
    \cup {[type |-> client[c].op, by |-> c] : c \in {c \in Client : client[c].job = j /\ client[c].pc = "push"}}
    \cup (IF loop[j].pc \in LoopEvent THEN {[type |-> loop[j].pc, by |-> j]} ELSE {})

\* Event returns to whoever pushed it.  Start sets ErrorStatus when its trigger
\* is refused; nobody else looks at the error.
Return(p, refused) ==
    /\ worker' = IF p.by \in Worker
                 THEN [worker EXCEPT ![p.by].pc = IF refused THEN "error" ELSE "stop"]
                 ELSE worker
    /\ client' = IF p.by \in Client THEN [client EXCEPT ![p.by] = Idle] ELSE client

\* triggerFlow ends after finish and paused, and goes on after fail and pause.
LoopAfter(j, p) ==
    IF p.by = j
    THEN [loop EXCEPT ![j].pc = IF p.type \in {"finish", "paused"} THEN "return" ELSE "select"]
    ELSE loop

\* The event has no edge from the current status.
Refuse(j, p) ==
    /\ event[j] = NoEvent
    /\ p \in Pushes(j)
    /\ run[j].fsm \notin Edges[p.type].from
    /\ Return(p, TRUE)
    /\ loop' = LoopAfter(j, p)
    /\ UNCHANGED <<row, runners, run, event, requests, faults>>

\* handleJobRun gives up when the goroutine started last has not ended.
NotAgain(j, p) ==
    /\ event[j] = NoEvent
    /\ p \in Pushes(j)
    /\ p.type \in {"trigger", "resume"}
    /\ run[j].fsm \in Edges[p.type].from
    /\ run[j].started
    /\ run' = [run EXCEPT ![j].fsm = "running"]
    /\ Return(p, FALSE)
    /\ UNCHANGED <<row, runners, event, loop, requests, faults>>

\* The status changes and the handler calls setStatus.
Accept(j, p) ==
    LET to == Edges[p.type].to
    IN  /\ event[j] = NoEvent
        /\ p \in Pushes(j)
        /\ run[j].fsm \in Edges[p.type].from
        /\ to = "running" => ~run[j].started
        /\ run' = [run EXCEPT ![j].fsm = to, ![j].status = to,
                              ![j].started = @ \/ to = "running",
                              ![j].wasPaused = @ \/ to = "pausing"]
        /\ event' = [event EXCEPT ![j] = [type |-> p.type, by |-> p.by, pc |-> "get", copy |-> NoRow]]
        /\ UNCHANGED <<row, runners, loop, worker, client, requests, faults>>

\* Handle, called by setStatus: GetWorkflowJob.  The status of the flow cannot
\* change before the save, the mutex is held.
EventGet(j) ==
    /\ event[j].pc = "get"
    /\ event' = [event EXCEPT ![j].pc = "save", ![j].copy = Stamp(row[j], run[j].status)]
    /\ UNCHANGED <<row, runners, run, loop, worker, client, requests, faults>>

EventSave(j) ==
    /\ event[j].pc = "save"
    /\ Save(j, event[j].copy)
    /\ event' = [event EXCEPT ![j].pc = "end", ![j].copy = NoRow]
    /\ UNCHANGED <<run, loop, worker, client, requests>>

\* The rest of the handler: triggerFlow is started, the shot is cancelled, or
\* the flow is closed; then the mutex is released.
EventEnd(j) ==
    LET p == event[j]
    IN  /\ p.pc = "end"
        /\ event' = [event EXCEPT ![j] = NoEvent]
        /\ run' = [run EXCEPT ![j].shotDone = @ \/ p.type = "pause",
                              ![j].done = @ \/ Edges[p.type].to \in Finished,
                              ![j].stopped = @ \/ Edges[p.type].to \in Finished]
        /\ loop' = IF p.type \in {"trigger", "resume"}
                   THEN [loop EXCEPT ![j] = [NoLoop EXCEPT !.pc = "begin"]]
                   ELSE LoopAfter(j, p)
        /\ Return(p, FALSE)
        /\ UNCHANGED <<row, runners, requests, faults>>

-----------------------------------------------------------------------------
(* triggerFlow and taskRun. *)

LoopGoes(j, pc) == loop' = [loop EXCEPT ![j].pc = pc]

\* A new shotCtx.
Begin(j) ==
    /\ loop[j].pc = "begin"
    /\ run' = [run EXCEPT ![j].shotDone = FALSE]
    /\ LoopGoes(j, "select")
    /\ UNCHANGED <<row, runners, event, worker, client, requests, faults>>

\* The error of flowCtx is overwritten before anybody looks at it.
Select(j) ==
    /\ loop[j].pc = "select"
    /\ LoopGoes(j, CASE run[j].status = "running" -> "batch"
                     [] run[j].status = "pausing" -> "paused"
                     [] OTHER -> "return")
    /\ UNCHANGED <<row, runners, run, event, worker, client, requests, faults>>

\* The coordinator marks itself finished when there is no current node.
Ended(r) == r.isFinished \/ r.crt = End

\* mutant: the end of the nodes is not an event
NextBatchReturns(j) ==
    LET r == run[j]
    IN  /\ loop[j].pc = "batch"
        /\ run' = [run EXCEPT ![j].isFinished = Ended(r)]
        /\ LoopGoes(j, CASE r.crt # End /\ r.node[r.crt] \notin Finished -> "task"
                         [] ~Ended(r) -> "pause"
                         [] OTHER -> "return")
        /\ UNCHANGED <<row, runners, event, worker, client, requests, faults>>

\* runNextBatchTask: the current node, unless its task is finished already.
NextBatch(j) ==
    LET r == run[j]
    IN  /\ loop[j].pc = "batch"
        /\ run' = [run EXCEPT ![j].isFinished = Ended(r)]
        /\ LoopGoes(j, CASE r.crt # End /\ r.node[r.crt] \notin Finished -> "task"
                         [] ~Ended(r) -> "pause"
                         [] r.status \in Finished -> "return"
                         [] OTHER -> "finish")
        /\ UNCHANGED <<row, runners, event, worker, client, requests, faults>>

\* setTaskStatue: the observer is called for the current node, and the goroutine
\* goes on at pc then.
Report(j, then) ==
    loop' = [loop EXCEPT ![j] = [pc |-> "get", then |-> then, node |-> run[j].crt, copy |-> NoRow]]

\* taskRun returns at once when its context is done.  A task that a restart
\* left running is not reported again.
TaskStart(j) ==
    LET r == run[j]
    IN  /\ loop[j].pc = "task"
        /\ \/ /\ r.done \/ r.shotDone
              /\ LoopGoes(j, "select")
              /\ UNCHANGED run
           \/ /\ ~(r.done \/ r.shotDone)
              /\ r.node[r.crt] = "running"
              /\ LoopGoes(j, "exec")
              /\ UNCHANGED run
           \/ /\ ~(r.done \/ r.shotDone)
              /\ r.node[r.crt] # "running"
              /\ run' = [run EXCEPT ![j].node[r.crt] = "running"]
              /\ Report(j, "exec")
        /\ UNCHANGED <<row, runners, event, worker, client, requests, faults>>

\* UpdateTask: the coordinator moves on to the branch the task chose, or to the
\* next node.
NextOf(n) == Successor[n]

\* Exec returns nil.
TaskSucceed(j) ==
    LET r == run[j]
    IN  /\ loop[j].pc = "exec"
        /\ \E next \in NextOf(r.crt) :
              run' = [run EXCEPT ![j].node[r.crt] = "succeed", ![j].crt = next]
        /\ Report(j, "select")
        /\ UNCHANGED <<row, runners, event, worker, client, requests, faults>>

\* Exec returns an error, which it also may because its context was cancelled:
\* handleTaskFail with a coordinator that interrupts the flow.
TaskFail(j) ==
    LET r == run[j]
    IN  /\ loop[j].pc = "exec"
        /\ run' = [run EXCEPT ![j].node[r.crt] = "failed", ![j].isFinished = TRUE]
        /\ Report(j, "fail")
        /\ UNCHANGED <<row, runners, event, worker, client, requests, faults>>

\* Handle, called by setTaskStatue without the mutex: the row is read, ...
TaskGet(j) ==
    /\ loop[j].pc = "get"
    /\ loop' = [loop EXCEPT ![j].pc = "stamp", ![j].copy = row[j]]
    /\ UNCHANGED <<row, runners, run, event, worker, client, requests, faults>>

\* ... gets the status the flow has by now and that of the task, ...
TaskStamp(j) ==
    LET n == loop[j].node
    IN  /\ loop[j].pc = "stamp"
        /\ loop' = [loop EXCEPT ![j].pc = "save",
                                ![j].copy = [Stamp(@, run[j].status) EXCEPT !.node[n] = run[j].node[n]]]
        /\ UNCHANGED <<row, runners, run, event, worker, client, requests, faults>>

\* ... and is written back.
TaskSave(j) ==
    /\ loop[j].pc = "save"
    /\ Save(j, loop[j].copy)
    /\ loop' = [loop EXCEPT ![j] = [NoLoop EXCEPT !.pc = loop[j].then]]
    /\ UNCHANGED <<run, event, worker, client, requests>>

\* The deferred calls of triggerFlow and of the function that runs it.
LoopReturn(j) ==
    /\ loop[j].pc = "return"
    /\ loop' = [loop EXCEPT ![j] = NoLoop]
    /\ run' = [run EXCEPT ![j].shotDone = TRUE, ![j].started = FALSE]
    /\ UNCHANGED <<row, runners, event, worker, client, requests, faults>>

-----------------------------------------------------------------------------
(* The workers. *)

TriggerWorkflow(j) ==
    /\ row[j].status = "none"
    /\ row' = [row EXCEPT ![j].status = "initializing"]
    /\ UNCHANGED <<runners, run, event, loop, worker, client, requests, faults>>

\* ClaimNextJob, first statement.  The namespace is picked at random; each job
\* here is the oldest of its own.
ClaimSelect(w, j) ==
    /\ worker[w] = Idle
    /\ row[j].status = "initializing"
    /\ worker' = [worker EXCEPT ![w] = [Idle EXCEPT !.pc = "claim", !.job = j]]
    /\ UNCHANGED <<row, runners, run, event, loop, client, requests, faults>>

\* The job is in the hands of the worker: executeJob makes a new Runner.
Claimed(w, j) ==
    /\ row' = [row EXCEPT ![j].status = "running"]
    /\ runners' = runners \cup {j}
    /\ run' = [run EXCEPT ![j] = NewRun(row[j].node)]
    /\ worker' = [worker EXCEPT ![w].pc = "setup"]

\* mutant: the number of updated rows is not looked at
ClaimAnyway(w, j) ==
    /\ worker[w].pc = "claim" /\ worker[w].job = j
    /\ Claimed(w, j)
    /\ UNCHANGED <<event, loop, client, requests, faults>>

\* ClaimNextJob, second statement: UPDATE ... WHERE status = initializing.
ClaimUpdate(w, j) ==
    /\ worker[w].pc = "claim" /\ worker[w].job = j
    /\ \/ row[j].status = "initializing" /\ Claimed(w, j)
       \/ /\ row[j].status # "initializing"
          /\ worker' = [worker EXCEPT ![w] = Idle]
          /\ UNCHANGED <<row, runners, run>>
    /\ UNCHANGED <<event, loop, client, requests, faults>>

\* Setup copies the target into the workdir; the FSM exists from here on.
Setup(w, j) ==
    /\ worker[w].pc = "setup" /\ worker[w].job = j
    /\ \/ /\ run' = [run EXCEPT ![j].fsm = "initializing"]
          /\ worker' = [worker EXCEPT ![w].pc = "wait"]
       \/ /\ UNCHANGED run
          /\ worker' = [worker EXCEPT ![w].pc = "error"]
    /\ UNCHANGED <<row, runners, event, loop, client, requests, faults>>

\* Start returns to executeJob, which cancels the context of the job.
StartReturn(w, j) ==
    /\ worker' = [worker EXCEPT ![w] = Idle]
    /\ run' = [run EXCEPT ![j].done = TRUE]

WaitingForRunning(w, j) ==
    /\ worker[w].pc = "wait" /\ worker[w].job = j
    /\ \/ /\ run[j].done \/ run[j].status \in Finished
          /\ StartReturn(w, j)
       \/ /\ ~run[j].done /\ run[j].status \in {"initializing", "running"}
          /\ worker' = [worker EXCEPT ![w].pc = "trigger"]
          /\ UNCHANGED run
    /\ UNCHANGED <<row, runners, event, loop, client, requests, faults>>

\* setStatus(ErrorStatus) outside the FSM, with the observer's get and save.
SetError(w, j) ==
    /\ worker[w].pc = "error" /\ worker[w].job = j
    /\ run' = [run EXCEPT ![j].status = "error"]
    /\ worker' = [worker EXCEPT ![w].pc = "get"]
    /\ UNCHANGED <<row, runners, event, loop, client, requests, faults>>

ErrorGet(w, j) ==
    /\ worker[w].pc = "get" /\ worker[w].job = j
    /\ worker' = [worker EXCEPT ![w].pc = "save", ![w].copy = Stamp(row[j], "error")]
    /\ UNCHANGED <<row, runners, run, event, loop, client, requests, faults>>

ErrorSave(w, j) ==
    /\ worker[w].pc = "save" /\ worker[w].job = j
    /\ Save(j, worker[w].copy)
    /\ StartReturn(w, j)
    /\ UNCHANGED <<event, loop, client, requests>>

\* <-r.stopCh, and Teardown.
Stopped(w, j) ==
    /\ worker[w].pc = "stop" /\ worker[w].job = j
    /\ run[j].stopped
    /\ StartReturn(w, j)
    /\ UNCHANGED <<row, runners, event, loop, client, requests, faults>>

-----------------------------------------------------------------------------
(* Requests. *)

\* What the manager asks of the row before it calls the Controller.
Allowed(op, r) ==
    CASE op = "pause"  -> r.status = "running"
      [] op = "resume" -> r.status = "paused"
      [] op = "cancel" -> r.status # "none" /\ ~r.finished

Request(c, j, op) ==
    /\ client[c] = Idle
    /\ requests < MaxRequests
    /\ Allowed(op, row[j])
    /\ requests' = requests + 1
    /\ client' = [client EXCEPT ![c] = [pc |-> "runner", job |-> j, op |-> op, copy |-> NoRow]]
    /\ UNCHANGED <<row, runners, run, event, loop, worker, faults>>

\* What the Runner asks of the flow before it pushes the event.
Pushable(op, status) ==
    CASE op = "pause"  -> status = "running"
      [] op = "resume" -> status = "paused"
      [] op = "cancel" -> status \notin Finished

\* Without a runner, or before Setup has ended, the request fails.
CallRunner(c, j) ==
    /\ client[c].pc = "runner" /\ client[c].job = j
    /\ client' = IF j \in runners /\ run[j].fsm # "none" /\ Pushable(client[c].op, run[j].status)
                 THEN [client EXCEPT ![c].pc = "push"]
                 ELSE [client EXCEPT ![c] = Idle]
    /\ UNCHANGED <<row, runners, run, event, loop, worker, requests, faults>>

-----------------------------------------------------------------------------
(* Time and restarts. *)

\* The deadline of the job's context passes.
Timeout(j) ==
    /\ \E w \in Worker : Executes(w, j)
    /\ ~run[j].done
    /\ run' = [run EXCEPT ![j].done = TRUE]
    /\ UNCHANGED <<row, runners, event, loop, worker, client, requests, faults>>

\* recoverRunningJobs
Recovered(r) == IF r.status = "running" THEN [r EXCEPT !.status = "initializing"] ELSE r

Restart ==
    /\ Fault
    /\ row' = [j \in Job |-> Recovered(row[j])]
    /\ runners' = {}
    /\ run' = [j \in Job |-> NewRun(NoRow.node)]
    /\ event' = [j \in Job |-> NoEvent]
    /\ loop' = [j \in Job |-> NoLoop]
    /\ worker' = [w \in Worker |-> Idle]
    /\ client' = [c \in Client |-> Idle]
    /\ UNCHANGED requests

-----------------------------------------------------------------------------

Event(j) == EventGet(j) \/ EventSave(j) \/ EventEnd(j)

Push(j) == \E p \in Pushes(j) : Refuse(j, p) \/ NotAgain(j, p) \/ Accept(j, p)

TriggerFlow(j) ==
    \/ Begin(j) \/ Select(j) \/ NextBatch(j) \/ TaskStart(j) \/ TaskSucceed(j) \/ TaskFail(j)
    \/ TaskGet(j) \/ TaskStamp(j) \/ TaskSave(j) \/ LoopReturn(j)

Work(w, j) ==
    \/ ClaimUpdate(w, j) \/ Setup(w, j) \/ WaitingForRunning(w, j)
    \/ SetError(w, j) \/ ErrorGet(w, j) \/ ErrorSave(w, j) \/ Stopped(w, j)

Next ==
    \/ \E j \in Job :
        \/ TriggerWorkflow(j) \/ Event(j) \/ Push(j) \/ TriggerFlow(j) \/ Timeout(j)
        \/ \E w \in Worker : ClaimSelect(w, j) \/ Work(w, j)
        \/ \E c \in Client : CallRunner(c, j) \/ \E op \in {"pause", "resume", "cancel"} : Request(c, j, op)
    \/ Restart

Spec == Init /\ [][Next]_vars

\* Goroutines that can run do, the mutex goes to somebody who waits for it, and
\* plugins return.  Nobody has to trigger or request anything, and no context
\* has to time out.
FairSpec ==
    /\ Spec
    /\ \A j \in Job :
        /\ WF_vars(Event(j)) /\ WF_vars(Push(j)) /\ WF_vars(TriggerFlow(j))
        /\ \A w \in Worker : WF_vars(Work(w, j))
        /\ \A c \in Client : WF_vars(CallRunner(c, j))

-----------------------------------------------------------------------------
(* Properties. *)

\* A job is executed by one worker at a time, although every worker may have
\* selected it before the first one's update: ClaimNextJob.
OneWorkerPerJob ==
    \A j \in Job : \A v, w \in Worker : Executes(v, j) /\ Executes(w, j) => v = w

\* A flow ends with succeed only when a node has succeeded after which there is
\* no other, as long as it was never paused.  (A task that a pause interrupts
\* fails, and after a resume its flow ends with succeed.)
SucceededIsDone ==
    \A j \in Job : run[j].status = "succeed" /\ ~run[j].wasPaused => run[j].crt = End

\* When a flow has ended by itself and nobody works on it, the row says so:
\* whatever the observer calls of tasks and of requests overwrote on the way,
\* the call for the last event is the last one.  (A cancel comes while a task
\* may be reporting, and its row may be overwritten.)
EndedIsRecorded ==
    \A j \in Job :
        /\ faults = 0
        /\ run[j].status \in {"succeed", "failed"}
        /\ event[j] = NoEvent
        /\ loop[j] = NoLoop
        => row[j].status = run[j].status /\ row[j].finished

\* How a job ended is what its nodes did, and is what its row says
\* (coordinator.NextBatch, Controller.Handle).
EndIsTrue == SucceededIsDone /\ EndedIsRecorded

\* A flow that has finished never runs, pauses or resumes again, whatever
\* requests were accepted just before (until a restart makes a new flow).
FinishedStaysFinished ==
    [][\A j \in Job : run[j].status \in Finished => run'[j].status \in Finished \/ faults' # faults]_vars

\* A running flow stops running: it ends or is paused, unless its context timed
\* out between two tasks (then triggerFlow spins: taskRun returns at once and
\* the error of flowCtx is never looked at).
RunningEnds ==
    \A j \in Job : run[j].status = "running" ~> (run[j].status # "running" \/ run[j].done)
=============================================================================
