------------------------------ MODULE Workflows ------------------------------
(***************************************************************************)
(* Workflows and what starts their jobs: the REST handlers                 *)
(* (cmd/apps/apis/rest/v1/workflows.go), the manager                       *)
(* (workflow/workflow.go), the triggers with one timer goroutine per       *)
(* workflow with an interval (workflow/trigger.go), the rows of workflows  *)
(* and jobs (pkg/metastore/sql.go), and the routine task that deletes      *)
(* finished jobs (pkg/dispatch/workflow.go).                               *)
(*                                                                         *)
(* How a job runs is the subject of JobRun; here a runner only moves the   *)
(* status of a row.  With SQLite every metastore call holds one mutex      *)
(* (serial); with Postgres the statements of two transactions interleave.  *)
(***************************************************************************)
EXTENDS Handlers, FiniteSets

CONSTANTS
  Wfs,          \* workflow ids
  NewWf,        \* process -> the id initWorkflow draws
  BufCap,       \* capacity of the channel to a timer
  MaxJob,       \* job ids are 1 .. MaxJob, in the order of creation
  MaxTicks,     \* times a timer fires
  MaxKept       \* maxJobsPerWorkflow

\* A drawn id is like no other, and "" is none.
ASSUME WorkflowAssumption ==
  /\ NewWf \in [Procs -> Wfs] /\ \A p, q \in Procs : NewWf[p] = NewWf[q] => p = q
  /\ "" \notin Wfs /\ "free" \notin Procs

VARIABLES
  wf,           \* workflow id -> row, for the rows there are
  job,          \* job id -> row
  drawn,        \* number of job ids drawn
  trg,          \* triggers.workflows: workflow id -> trigger configuration
  mux,          \* process that holds triggers.mux between two of its steps
  waiter,       \* triggers.waiters: workflow id -> intervals in its channel
  timer,        \* workflow id -> state of its timer goroutine
  ticks,        \* times a timer fired
  event,        \* the goroutine that handles the creation of an entry
  runner,       \* the goroutine that saves the status of a job
  cleaner,      \* the routine task
  boot,         \* "no" before triggers.start, then "listed" or "failed"
  serial,       \* the metastore is SQLite
  fatal,        \* the Go runtime met a concurrent map iteration and map write
  mixed,        \* ghost: workflows two writers worked on at the same time
  removed,      \* ghost: workflows whose deletion was acknowledged
  missed,       \* ghost: workflows whose timer left updates in its channel
  moved         \* ghost: jobs whose status changed after a deletion looked at them

rows == <<wf, job, drawn>>
timers == <<trg, mux, waiter, timer, ticks>>
actors == <<event, runner, cleaner, boot, serial>>
ghosts == <<mixed, removed, missed, moved>>
workflowVars == <<rows, timers, actors, fatal, ghosts>>

Free == "free"
Nil == 9                                          \* an interval that is not set
NoTrigger == [watch |-> "", rss |-> FALSE, interval |-> Nil]
Deref(i) == IF i = Nil THEN 0 ELSE i
NoTimer == [pc |-> "none", period |-> 0]
Active == {"running", "paused"}
Final == {"succeed", "failed", "error", "canceled"}
JobStatuses == {"initializing", "pausing"} \cup Active \cup Final

\* Life time in days of a finished job.
JobLiveTime == [succeed |-> 1, failed |-> 7]

W(p) == req[p].wf
J(p) == req[p].job
HasWf(w) == w \in DOMAIN wf
HasJob(j) == j \in DOMAIN job
JobsOf(w) == {j \in DOMAIN job : job[j].wf = w}
KeepAll == UNCHANGED workflowVars
KeepHandler == UNCHANGED <<req, pc, at, resp>>

\* Another request is in the middle of its work on w.
Shared(p, w) == \E q \in Procs \ {p} : at[q].wf = w /\ pc[q] \notin {"enter", "done"}
Mix(p, w) == mixed' = IF Shared(p, w) THEN mixed \cup {w} ELSE mixed

----------------------------------------------------------------------------
(* triggers: configuration and channels. *)

\* sendWorkflowUpdateInLock: the sender keeps triggers.mux while the channel is full.
sendWorkflowUpdateInLock(p, w, i, code) ==
  IF w \notin DOMAIN waiter
  THEN /\ UNCHANGED <<mux, at>> /\ Reply(p, code)
       /\ IF i = 0 THEN UNCHANGED <<waiter, timer>>
          ELSE /\ waiter' = Put(waiter, w, <<i>>)
               /\ timer' = [timer EXCEPT ![w] = [pc |-> "select", period |-> 60]]
  ELSE /\ UNCHANGED timer
       /\ IF Len(waiter[w]) < BufCap
          THEN /\ waiter' = [waiter EXCEPT ![w] = Append(@, i)]
               /\ UNCHANGED <<mux, at>> /\ Reply(p, code)
          ELSE /\ mux' = p /\ at' = [at EXCEPT ![p].send = i, ![p].code = code]
               /\ Goto(p, "send") /\ UNCHANGED <<waiter, resp>>

\* The configuration the triggers keep for a row.
Triggered(row) == row.enable /\ (row.trig.watch # "" \/ row.trig.interval # Nil)

\* A write to the map while handleEntryCreate iterates over it without the lock.
MapWrite == IF event.pc \in {"iterate", "get", "save"} THEN fatal' \in BOOLEAN ELSE UNCHANGED fatal

\* Mutant: a workflow without trigger keeps the configuration it had.
UpdateKeepsOld(p, w, row, isDelete, code) ==
  /\ mux = Free
  /\ IF isDelete \/ ~Triggered(row) \/ (w \in DOMAIN trg /\ trg[w] = row.trig)
     THEN /\ UNCHANGED <<trg, fatal, waiter, timer, mux, at>> /\ Reply(p, code)
     ELSE /\ trg' = Put(trg, w, row.trig) /\ MapWrite
          /\ sendWorkflowUpdateInLock(p, w, Deref(row.trig.interval), code)

handleWorkflowUpdate(p, w, row, isDelete, code) ==
  /\ mux = Free
  /\ IF isDelete \/ ~Triggered(row)
     THEN /\ trg' = Drop(trg, {w}) /\ MapWrite
          /\ UNCHANGED <<waiter, timer, mux, at>> /\ Reply(p, code)
     ELSE IF w \in DOMAIN trg /\ trg[w] = row.trig
     THEN /\ UNCHANGED <<trg, fatal, waiter, timer, mux, at>> /\ Reply(p, code)
     ELSE /\ trg' = Put(trg, w, row.trig) /\ MapWrite
          /\ sendWorkflowUpdateInLock(p, w, Deref(row.trig.interval), code)

\* Mutant: the channel takes the update and the mutex stays locked.
SendKeepsMutex(p) ==
  /\ pc[p] = "send" /\ Len(waiter[at[p].wf]) < BufCap
  /\ waiter' = [waiter EXCEPT ![at[p].wf] = Append(@, at[p].send)]
  /\ UNCHANGED mux /\ Reply(p, at[p].code)
  /\ UNCHANGED <<req, at, faults, rows, trg, timer, ticks, actors, fatal, ghosts>>

\* The channel has room again.
Send(p) ==
  /\ pc[p] = "send" /\ Len(waiter[at[p].wf]) < BufCap
  /\ waiter' = [waiter EXCEPT ![at[p].wf] = Append(@, at[p].send)]
  /\ mux' = Free /\ Reply(p, at[p].code)
  /\ UNCHANGED <<req, at, faults, rows, trg, timer, ticks, actors, fatal, ghosts>>

\* triggers.start, before the server listens: an error of the list leaves the
\* triggers empty and without subscription.
Start ==
  /\ boot = "no"
  /\ \/ /\ Fine /\ boot' = "listed"
        /\ LET on == {w \in DOMAIN wf : Triggered(wf[w])}
               timed == {w \in on : Deref(wf[w].trig.interval) > 0}
           IN  /\ trg' = [w \in on |-> wf[w].trig]
               /\ waiter' = [w \in timed |-> <<wf[w].trig.interval>>]
               /\ timer' = [w \in Wfs |-> IF w \in timed THEN [pc |-> "select", period |-> 60] ELSE NoTimer]
     \/ Fail /\ boot' = "failed" /\ UNCHANGED <<trg, waiter, timer>>
  /\ UNCHANGED <<mux, ticks, rows, event, runner, cleaner, serial, fatal, ghosts>> /\ KeepHandler

----------------------------------------------------------------------------
(* Rows. *)

SaveWorkflow(w, row) == wf' = Put(wf, w, row)

\* Mutant: only the jobs are deleted.
DeleteJobsOnly(w) == job' = Drop(job, JobsOf(w)) /\ UNCHANGED wf

DeleteWorkflowRow(w) == wf' = Drop(wf, {w}) /\ job' = Drop(job, JobsOf(w))

\* SaveWorkflowJob of a new job of a workflow that was found a moment ago.  The row
\* of the workflow is looked up in the same transaction: with Postgres it may be
\* deleted before the job is inserted.
CanSaveJob(w) == drawn < MaxJob /\ (HasWf(w) \/ ~serial)
InsertJob(w, by) ==
  /\ drawn' = drawn + 1
  /\ job' = Put(job, drawn + 1, [wf |-> w, status |-> "initializing", by |-> by, age |-> 0])

DeleteWorkflowJobs(js) == job' = Drop(job, js)

----------------------------------------------------------------------------
(* The REST handlers and the methods of the manager they call. *)

WorkflowLocal == [wf |-> "", row |-> [name |-> "", enable |-> FALSE, trig |-> NoTrigger],
                  send |-> 0, code |-> 0]

\* A handler that only reads.
ReadOnly(p, ok, good, bad) ==
  /\ pc[p] = "enter" /\ KeepAll /\ UNCHANGED <<req, at>>
  /\ \/ Fine /\ Reply(p, IF ok THEN good ELSE bad)
     \/ Fail /\ Reply(p, bad)

\* NewPaginationWithSort returns nil for a negative page, which the handlers
\* dereference for their answer: gin recovers with 500.
Listed(p) == IF req[p].page < 0 THEN 500 ELSE 200

ListWorkflows(p) == Op(p) = "wflist" /\ ReadOnly(p, TRUE, Listed(p), 400)

isValidJobStatus(s) == s \in JobStatuses \ {"pausing"}

ListWorkflowJobs(p) ==
  Op(p) = "wfjobs" /\ ReadOnly(p, \A s \in req[p].statuses : isValidJobStatus(s), Listed(p), 400)

GetWorkflow(p) == Op(p) = "wfget" /\ ReadOnly(p, HasWf(W(p)), 200, 404)

\* The workflow id of the path is not looked at.
GetJob(p) == Op(p) = "jobget" /\ ReadOnly(p, HasJob(J(p)), 200, 404)

\* The handler gives up with an answer.
GiveUp(p, code) == Reply(p, code) /\ UNCHANGED <<req, at>> /\ KeepAll

\* The last step of the writers: SaveWorkflow succeeded, the triggers are told.
TellTriggers(p, isDelete, code) ==
  /\ pc[p] = "update" /\ Fine /\ UNCHANGED <<req, rows, ticks, actors, missed, moved>>
  /\ Mix(p, at[p].wf)
  /\ handleWorkflowUpdate(p, at[p].wf, at[p].row, isDelete, code)
  /\ removed' = IF isDelete THEN removed \cup {at[p].wf} ELSE removed

initWorkflow(r) == [name |-> r.name, enable |-> r.enable = "on", trig |-> r.trig]
validateWorkflowSpec(row) == row.name # ""

\* manager.CreateWorkflow.
CreateWorkflow(p) ==
  LET row == initWorkflow(req[p])
  IN  \/ /\ pc[p] = "create"
         /\ \/ Fine /\ ~validateWorkflowSpec(row) /\ GiveUp(p, 400)
            \/ Fail /\ validateWorkflowSpec(row) /\ GiveUp(p, 400)
            \/ /\ Fine /\ validateWorkflowSpec(row) /\ SaveWorkflow(NewWf[p], row)
               /\ at' = [at EXCEPT ![p].wf = NewWf[p], ![p].row = row]
               /\ Goto(p, "update")
               /\ UNCHANGED <<req, resp, job, drawn, timers, actors, fatal, ghosts>>
      \/ TellTriggers(p, FALSE, 201)

\* The name is required, so the check of the manager never fails here.
HandleCreateWorkflow(p) ==
  /\ Op(p) = "wfcreate"
  /\ \/ pc[p] = "enter" /\ Fine /\ req[p].name = "" /\ GiveUp(p, 400)
     \/ pc[p] = "enter" /\ Fine /\ req[p].name # "" /\ Goto(p, "create") /\ KeepAll /\ UNCHANGED <<req, resp, at>>
     \/ CreateWorkflow(p)

\* The fields of the request that are set replace those of the row.
Merged(row, r) ==
  [name |-> IF r.name # "" THEN r.name ELSE row.name,
   trig |-> IF r.trig # NoTrigger THEN r.trig ELSE row.trig,
   enable |-> IF r.enable # "" THEN r.enable = "on" ELSE row.enable]

\* manager.UpdateWorkflow: the row is created if it was deleted meanwhile.
UpdateWorkflow(p) ==
  \/ /\ pc[p] = "save"
     /\ \/ Fail /\ GiveUp(p, 400)
        \/ /\ Fine /\ SaveWorkflow(W(p), at[p].row) /\ Mix(p, W(p)) /\ Goto(p, "update")
           /\ UNCHANGED <<req, resp, at, job, drawn, timers, actors, fatal, removed, missed, moved>>
  \/ TellTriggers(p, FALSE, 200)

HandleUpdateWorkflow(p) ==
  /\ Op(p) = "wfupdate"
  /\ \/ /\ pc[p] = "enter"
        /\ \/ Fine /\ ~HasWf(W(p)) /\ GiveUp(p, 404)
           \/ Fail /\ GiveUp(p, 404)
           \/ /\ Fine /\ HasWf(W(p)) /\ Goto(p, "save")
              /\ at' = [at EXCEPT ![p].wf = W(p), ![p].row = Merged(wf[W(p)], req[p])]
              /\ KeepAll /\ UNCHANGED <<req, resp>>
     \/ UpdateWorkflow(p)

\* The jobs that keep a workflow from being deleted.
Busy(w) == \E j \in JobsOf(w) : job[j].status \in Active

\* manager.DeleteWorkflow.
DeleteWorkflow(p) ==
  \/ /\ pc[p] = "enter"
     /\ \/ Fine /\ ~HasWf(W(p)) /\ GiveUp(p, 400)
        \/ Fail /\ GiveUp(p, 400)
        \/ /\ Fine /\ HasWf(W(p)) /\ Goto(p, "list")
           /\ at' = [at EXCEPT ![p].wf = W(p), ![p].row = wf[W(p)]]
           /\ KeepAll /\ UNCHANGED <<req, resp>>
  \/ /\ pc[p] = "list"
     /\ \/ Fail /\ GiveUp(p, 400)
        \/ Fine /\ Busy(W(p)) /\ GiveUp(p, 400)
        \/ Fine /\ ~Busy(W(p)) /\ Goto(p, "delete") /\ KeepAll /\ UNCHANGED <<req, resp, at>>
  \/ /\ pc[p] = "delete"
     /\ \/ Fail /\ GiveUp(p, 400)
        \/ /\ Fine /\ DeleteWorkflowRow(W(p)) /\ Mix(p, W(p)) /\ Goto(p, "update")
           /\ UNCHANGED <<req, resp, at, drawn, timers, actors, fatal, removed, missed, moved>>
  \/ TellTriggers(p, TRUE, 200)

\* Every error is answered with 400: only a message with "workflow not found" would
\* be answered with 404, and no error has it.
HandleDeleteWorkflow(p) == Op(p) = "wfdelete" /\ DeleteWorkflow(p)

\* manager.TriggerWorkflow: enable is not looked at; assembleWorkflowJob insists on the
\* required parameters.
TriggerWorkflow(p) ==
  \/ /\ pc[p] = "get"
     /\ \/ Fail /\ GiveUp(p, 400)
        \/ Fine /\ ~(HasWf(W(p)) /\ req[p].complete) /\ GiveUp(p, 400)
        \/ Fine /\ HasWf(W(p)) /\ req[p].complete /\ Goto(p, "insert") /\ KeepAll /\ UNCHANGED <<req, resp, at>>
  \/ /\ pc[p] = "insert"
     /\ \/ Fail /\ GiveUp(p, 400)
        \/ Fine /\ ~HasWf(W(p)) /\ GiveUp(p, 400)
        \/ /\ Fine /\ CanSaveJob(W(p)) /\ InsertJob(W(p), "user") /\ Reply(p, 200)
           /\ UNCHANGED <<req, at, wf, timers, actors, fatal, ghosts>>

\* The handler gets the workflow, and so does the manager.
HandleTriggerWorkflow(p) ==
  /\ Op(p) = "wftrigger"
  /\ \/ /\ pc[p] = "enter"
        /\ \/ Fail /\ GiveUp(p, 400)
           \/ Fine /\ ~HasWf(W(p)) /\ GiveUp(p, 400)
           \/ Fine /\ HasWf(W(p)) /\ Goto(p, "get") /\ KeepAll /\ UNCHANGED <<req, resp, at>>
     \/ TriggerWorkflow(p)

\* Deletions between their look at the jobs and the deletion.
Deleting == \E q \in Procs : Op(q) = "wfdelete" /\ pc[q] = "delete"
Move(j, s) ==
  /\ job' = [job EXCEPT ![j].status = s]
  /\ moved' = IF Deleting THEN moved \cup {j} ELSE moved

\* Pause, resume and cancel look at the row and ask the controller, which needs the
\* runner of the job and an edge of its state machine (JobRun).
Control(p, may, from, to) ==
  LET j == J(p)
  IN  \/ /\ pc[p] = "enter"
         /\ \/ Fail /\ GiveUp(p, 400)
            \/ Fine /\ ~(HasJob(j) /\ job[j].status \in may) /\ GiveUp(p, 400)
            \/ /\ Fine /\ HasJob(j) /\ job[j].status \in may /\ Goto(p, "control")
               /\ KeepAll /\ UNCHANGED <<req, resp, at>>
      \/ /\ pc[p] = "control" /\ Fine
         /\ \/ GiveUp(p, 400)
            \/ /\ HasJob(j) /\ job[j].status \in from
               /\ Move(j, to) /\ Reply(p, 200)
               /\ UNCHANGED <<req, at, wf, drawn, timers, actors, fatal, mixed, removed, missed>>

PauseJob(p) == Op(p) = "jobpause" /\ Control(p, {"running"}, {"running"}, "pausing")
ResumeJob(p) == Op(p) = "jobresume" /\ Control(p, {"paused"}, {"paused"}, "running")
CancelJob(p) == Op(p) = "jobcancel" /\ Control(p, JobStatuses \ Final, {"initializing"} \cup Active, "canceled")

----------------------------------------------------------------------------
(* The timers. *)

KeepTimers == UNCHANGED <<mux, ticks, actors, mixed, removed, moved>>
At(w, l) == timer' = [timer EXCEPT ![w].pc = l]

Tick(w) ==
  /\ timer[w].pc = "select" /\ ticks > 0
  /\ ticks' = ticks - 1 /\ At(w, "tick") /\ Fine
  /\ UNCHANGED <<rows, trg, mux, waiter, actors, fatal, ghosts>> /\ KeepHandler

\* getTriggerConfig, under the lock: without interval or feed the timer ends.
TimerConfig(w) ==
  /\ timer[w].pc = "tick" /\ mux = Free
  /\ At(w, IF w \in DOMAIN trg /\ Deref(trg[w].interval) > 0 /\ trg[w].rss THEN "get" ELSE "exit")
  /\ Fine /\ UNCHANGED <<rows, trg, waiter, fatal, missed>> /\ KeepTimers /\ KeepHandler

\* runRSSWorkflow for the one group with a feed: TriggerWorkflow, whose errors are
\* logged, as are those of the queries before it.
runRSSWorkflow(w) ==
  /\ \/ /\ timer[w].pc = "get" /\ UNCHANGED rows
        /\ \/ Fine /\ At(w, IF HasWf(w) THEN "save" ELSE "select")
           \/ Fail /\ At(w, "select")
     \/ /\ timer[w].pc = "save" /\ At(w, "select")
        /\ \/ Fail /\ UNCHANGED rows
           \/ Fine /\ ~HasWf(w) /\ UNCHANGED rows
           \/ Fine /\ CanSaveJob(w) /\ InsertJob(w, "timer") /\ UNCHANGED wf
  /\ UNCHANGED <<trg, waiter, fatal, missed>> /\ KeepTimers /\ KeepHandler

TimerUpdate(w) ==
  /\ timer[w].pc = "select" /\ w \in DOMAIN waiter /\ waiter[w] # <<>>
  /\ waiter' = [waiter EXCEPT ![w] = Tail(@)]
  /\ IF Head(waiter[w]) = 0 THEN At(w, "exit") ELSE timer' = [timer EXCEPT ![w].period = Head(waiter[w])]
  /\ Fine /\ UNCHANGED <<rows, trg, fatal, missed>> /\ KeepTimers /\ KeepHandler

\* The deferred function of the timer: what is in the channel is lost.
TimerExit(w) ==
  /\ timer[w].pc = "exit" /\ mux = Free
  /\ waiter' = Drop(waiter, {w}) /\ timer' = [timer EXCEPT ![w] = NoTimer]
  /\ missed' = IF waiter[w] # <<>> THEN missed \cup {w} ELSE missed
  /\ Fine /\ UNCHANGED <<rows, trg, fatal>> /\ KeepTimers /\ KeepHandler

TimerStep(w) == TimerConfig(w) \/ runRSSWorkflow(w) \/ TimerUpdate(w) \/ TimerExit(w)

----------------------------------------------------------------------------
(* handleEntryCreate. *)

NewEvent(k) == [pc |-> IF k = "none" THEN "done" ELSE "new", kind |-> k, seen |-> {}, cur |-> "",
                failed |-> FALSE, old |-> {}, steady |-> {}]

KeepEvent == UNCHANGED <<wf, timers, runner, cleaner, boot, serial, fatal, ghosts>> /\ KeepHandler
EventGoes(l) == event' = [event EXCEPT !.pc = l]

Matching(e, cfg) == (e.kind = "file" /\ cfg.watch = "match") \/ (e.kind = "rss" /\ cfg.rss)

\* The part of handleEntryCreate before the loop: nothing happens for an entry below a
\* hidden one, or when the namespace has no triggers.
EventTake ==
  /\ event.pc = "new" /\ mux = Free
  /\ Fine /\ UNCHANGED <<job, drawn>> /\ KeepEvent
  /\ IF event.kind = "hidden" \/ trg = <<>> THEN EventGoes("done")
     ELSE event' = [event EXCEPT !.pc = "load"]

\* The entry, and the properties of a group, are loaded; the loop begins.  "steady" are
\* the workflows that should get a job unless they are changed before it is over.
EventLoad ==
  /\ event.pc = "load" /\ UNCHANGED <<job, drawn>> /\ KeepEvent
  /\ \/ Fine /\ event' = [event EXCEPT !.pc = IF event.kind = "group" THEN "done" ELSE "iterate",
                                       !.old = DOMAIN trg,
                                       !.steady = {w \in DOMAIN trg : Matching(event, trg[w])}]
     \/ Fail /\ event' = [event EXCEPT !.pc = "done", !.failed = TRUE]

\* One round of the loop over the map: a workflow that is added meanwhile may be
\* visited or not, one that is removed is not visited.
EventNext ==
  /\ event.pc = "iterate" /\ Fine /\ UNCHANGED <<job, drawn>> /\ KeepEvent
  /\ \/ event.old \cap DOMAIN trg \subseteq event.seen /\ EventGoes("done")
     \/ \E w \in DOMAIN trg \ event.seen :
          event' = [event EXCEPT !.seen = @ \cup {w}, !.cur = w,
                                 !.pc = IF Matching(event, trg[w]) THEN "get" ELSE "iterate"]

\* TriggerWorkflow for the workflow at hand.
EventTrigger ==
  /\ KeepEvent
  /\ \/ /\ event.pc = "get" /\ UNCHANGED <<job, drawn>>
        /\ \/ Fine /\ EventGoes(IF HasWf(event.cur) THEN "save" ELSE "iterate")
           \/ Fail /\ event' = [event EXCEPT !.pc = "iterate", !.failed = TRUE]
     \/ /\ event.pc = "save"
        /\ \/ Fail /\ event' = [event EXCEPT !.pc = "iterate", !.failed = TRUE] /\ UNCHANGED <<job, drawn>>
           \/ Fine /\ ~HasWf(event.cur) /\ EventGoes("iterate") /\ UNCHANGED <<job, drawn>>
           \/ Fine /\ CanSaveJob(event.cur) /\ InsertJob(event.cur, "event") /\ EventGoes("iterate")

handleEntryCreate == EventTake \/ EventLoad \/ EventNext \/ EventTrigger

----------------------------------------------------------------------------
(* Runners and the routine task. *)

Runner(l) == [pc |-> l, job |-> 0, rec |-> [wf |-> "", status |-> "", by |-> "", age |-> 0],
              row |-> WorkflowLocal.row, found |-> FALSE]
KeepRunner == UNCHANGED <<drawn, timers, event, cleaner, boot, serial, fatal, removed, missed>> /\ KeepHandler

\* ClaimNextJob: an update with the status as its condition.
ClaimNextJob(j) ==
  /\ runner.pc = "idle" /\ job[j].status = "initializing"
  /\ Fine /\ Move(j, "running") /\ UNCHANGED <<wf, runner, mixed>> /\ KeepRunner

\* A job that runs ends, one that is pausing is paused: the row is read and the new
\* status saved later.
RunnerGet(j) ==
  /\ runner.pc = "idle" /\ job[j].status \in {"running", "pausing"}
  /\ \E to \in IF job[j].status = "running" THEN {"succeed", "failed"} ELSE {"paused"} :
       runner' = [Runner(IF serial THEN "save" ELSE "read") EXCEPT
                    !.job = j, !.rec = [job[j] EXCEPT !.status = to]]
  /\ Fine /\ UNCHANGED <<wf, job, mixed, moved>> /\ KeepRunner

\* SaveWorkflowJob with Postgres: the transaction reads workflow and job ...
RunnerRead ==
  /\ runner.pc = "read" /\ Fine /\ UNCHANGED <<wf, job, mixed, moved>> /\ KeepRunner
  /\ runner' = IF HasWf(runner.rec.wf)
               THEN [runner EXCEPT !.pc = "save", !.row = wf[runner.rec.wf], !.found = HasJob(runner.job)]
               ELSE Runner("idle")

\* ... and a workflow that is not there is an error.
Saves == serial => HasWf(runner.rec.wf)

\* ... and writes what it read: a job is created or updated, and the whole row of the
\* workflow is saved with its new time of the last job.
SaveWorkflowJob ==
  /\ runner.pc = "save" /\ Fine /\ runner' = Runner("idle") /\ KeepRunner
  /\ IF Saves
     THEN /\ job' = Put(job, runner.job, runner.rec)
          /\ wf' = IF runner.found THEN Put(wf, runner.rec.wf, runner.row) ELSE wf
          /\ moved' = IF Deleting THEN moved \cup {runner.job} ELSE moved
     ELSE UNCHANGED <<wf, job, moved>>
  /\ mixed' = IF wf' # wf THEN mixed \cup {runner.rec.wf} ELSE mixed

Runs == RunnerRead \/ SaveWorkflowJob \/ \E j \in DOMAIN job : ClaimNextJob(j) \/ RunnerGet(j)

Cleaner(l) == [pc |-> l, all |-> <<>>, list |-> {}, phase |-> "succeed"]
KeepCleaner == UNCHANGED <<wf, drawn, timers, event, runner, boot, serial, fatal, ghosts>> /\ KeepHandler

\* cleanUpFinishJobs lists the jobs that succeeded, then those that failed, ...
CleanList ==
  /\ cleaner.pc = "list" /\ UNCHANGED job /\ KeepCleaner
  /\ \/ Fail /\ cleaner' = [cleaner EXCEPT !.pc = "drop"]
     \/ LET found == {j \in DOMAIN job : job[j].status = cleaner.phase}
        IN  /\ Fine
            /\ cleaner' = [cleaner EXCEPT !.pc = "drop", !.list = found,
                             !.all = [j \in DOMAIN @ \cup found |-> IF j \in found THEN job[j] ELSE @[j]]]

\* ... deletes those whose life time is over one by one, ...
CleanDrop ==
  /\ cleaner.pc = "drop" /\ KeepCleaner
  /\ \/ \E j \in cleaner.list :
          /\ cleaner' = [cleaner EXCEPT !.list = @ \ {j}]
          /\ \/ Fine /\ cleaner.all[j].age < JobLiveTime[cleaner.phase] /\ UNCHANGED job
             \/ Fine /\ cleaner.all[j].age >= JobLiveTime[cleaner.phase] /\ DeleteWorkflowJobs({j})
             \/ Fail /\ cleaner.all[j].age >= JobLiveTime[cleaner.phase] /\ UNCHANGED job
     \/ /\ cleaner.list = {} /\ Fine /\ UNCHANGED job
        /\ cleaner' = IF cleaner.phase = "succeed" THEN [cleaner EXCEPT !.pc = "list", !.phase = "failed"]
                      ELSE [cleaner EXCEPT !.pc = "excess"]

Newer(j, all) == {k \in DOMAIN all : all[k].wf = all[j].wf /\ k > j}

\* Mutant: the jobs are sorted the other way round.
ExcessNewest(all) == {j \in DOMAIN all : Cardinality({k \in DOMAIN all : all[k].wf = all[j].wf /\ k < j}) >= MaxKept}

\* All but the newest MaxKept of a workflow; those already deleted count.
Excess(all) == {j \in DOMAIN all : Cardinality(Newer(j, all)) >= MaxKept}

\* ... and deletes what is too much, per workflow.
CleanExcess ==
  /\ cleaner.pc = "excess" /\ KeepCleaner
  /\ cleaner' = [cleaner EXCEPT !.pc = "done"]
  /\ \/ Fine /\ DeleteWorkflowJobs(Excess(cleaner.all))
     \/ Fail /\ \E ws \in SUBSET Wfs : DeleteWorkflowJobs({j \in Excess(cleaner.all) : cleaner.all[j].wf \in ws})

cleanUpFinishJobs == CleanList \/ CleanDrop \/ CleanExcess

----------------------------------------------------------------------------
WorkflowStep(p) ==
  /\ boot # "no" /\ ~fatal
  /\ \/ ListWorkflows(p) \/ ListWorkflowJobs(p) \/ GetWorkflow(p) \/ GetJob(p)
     \/ HandleCreateWorkflow(p) \/ HandleUpdateWorkflow(p) \/ HandleDeleteWorkflow(p) \/ HandleTriggerWorkflow(p)
     \/ PauseJob(p) \/ ResumeJob(p) \/ CancelJob(p) \/ Send(p)

\* Goroutines of the server that serve no request.  The runner is not among those that
\* have to go on.
WorkflowActor ==
  /\ boot # "no" /\ ~fatal
  /\ (\E w \in Wfs : TimerStep(w)) \/ handleEntryCreate \/ cleanUpFinishJobs

WorkflowEnv ==
  \/ Start
  \/ boot # "no" /\ ~fatal /\ (Runs \/ \E w \in Wfs : Tick(w))

\* env: rows, jobs, kind of the entry that is created, whether timers fire, jobs run,
\* the routine task runs, and the kind of the metastore.
WorkflowInit(env) ==
  /\ wf = env.wf /\ job = env.job
  /\ drawn = Len(env.job)
  /\ trg = <<>> /\ mux = Free /\ waiter = <<>> /\ timer = [w \in Wfs |-> NoTimer]
  /\ ticks = IF env.timer THEN MaxTicks ELSE 0
  /\ event = NewEvent(env.entry)
  /\ runner = Runner(IF env.runs THEN "idle" ELSE "off")
  /\ cleaner = Cleaner(IF env.cleans THEN "list" ELSE "off")
  /\ boot = "no" /\ serial = env.serial /\ fatal = FALSE
  /\ mixed = {} /\ removed = {} /\ missed = {} /\ moved = {}

WorkflowNext == (\E p \in Procs : WorkflowStep(p)) \/ WorkflowActor \/ WorkflowEnv

WorkflowSpec(env, loads) ==
  /\ InitHandlers(loads) /\ at = [p \in Procs |-> WorkflowLocal] /\ WorkflowInit(env)
  /\ [][WorkflowNext]_<<handlerVars, workflowVars>>

\* What the server starts on: intervals are numbers, no id is drawn yet, jobs are
\* numbered as they were created and, with SQLite, have their workflows.
ProperStart(env) ==
  /\ DOMAIN env.wf \subseteq Wfs \ {NewWf[p] : p \in Procs}
  /\ \A w \in DOMAIN env.wf : env.wf[w].trig.interval \in Nat
  /\ env.job \in Seq([wf : Wfs, status : JobStatuses, by : {"user", "timer", "event"}, age : Nat])
  /\ env.serial => \A j \in DOMAIN env.job : env.job[j].wf \in DOMAIN env.wf

\* The requests with a trigger that handlers bind.
Bound(loads) ==
  \A r \in loads, p \in Procs : r[p].op \in {"wfcreate", "wfupdate"} => r[p].trig.interval \in Nat

----------------------------------------------------------------------------
(* Properties. *)

Quiet == boot = "listed" /\ ~fatal /\ mux = Free /\ \A p \in Procs : pc[p] = "done"
Wanted == {w \in DOMAIN wf : Triggered(wf[w])}

\* When no request is under way, the triggers have the configuration of every enabled
\* workflow with a trigger and of no other, unless two requests changed the workflow
\* at the same time: each saves the row and tells the triggers in two steps
\* (CreateWorkflow, UpdateWorkflow and DeleteWorkflow of the manager).
TriggersMatchRows ==
  Quiet => \A w \in Wfs \ mixed : /\ w \in DOMAIN trg <=> w \in Wanted
                                  /\ w \in DOMAIN trg => trg[w] = wf[w].trig

\* A workflow with feed and interval has a timer with its interval once the channel is
\* empty, unless a timer that had decided to end took the update with it
\* (runWorkflowTimer, sendWorkflowUpdateInLock).
ScheduleIsFollowed ==
  Quiet => \A w \in DOMAIN trg \ (missed \cup mixed) :
    (trg[w].rss /\ Deref(trg[w].interval) > 0 /\ (w \in DOMAIN waiter => waiter[w] = <<>>))
      => timer[w].pc \notin {"none", "exit"} /\ timer[w].period = trg[w].interval

\* A workflow that was deleted does not come back, unless another request or, with
\* Postgres, the save of a job worked on it at the same time (DeleteWorkflow,
\* SaveWorkflowJob).
DeletedWorkflowIsGone == \A w \in removed \ mixed : ~HasWf(w)

\* With SQLite a job has a workflow: SaveWorkflowJob refuses the others and the
\* deletion of a workflow deletes its jobs (SaveWorkflowJob, DeleteWorkflow).
JobHasWorkflow == serial => \A j \in DOMAIN job : HasWf(job[j].wf)

\* A deletion leaves nothing behind: neither the workflow nor a job of it.
DeletionIsComplete == DeletedWorkflowIsGone /\ JobHasWorkflow

\* A job that runs or is paused is not deleted, unless its status changed after
\* DeleteWorkflow had looked at the jobs (manager.DeleteWorkflow, cleanUpFinishJobs).
BusyIsNotDeleted ==
  [][\A j \in DOMAIN job \ DOMAIN job' : job[j].status \in Active => j \in moved]_workflowVars

\* The routine task deletes a finished job before its life time is over only if its
\* workflow has MaxKept newer jobs that ended (cleanUpFinishJobs).
CleanedIsOldOrExcess ==
  [][cleaner' # cleaner => \A j \in DOMAIN job \ DOMAIN job' :
       /\ job[j].status \in DOMAIN JobLiveTime
       /\ \/ job[j].age >= JobLiveTime[job[j].status]
          \/ Cardinality(Newer(j, cleaner.all)) >= MaxKept]_workflowVars

\* No job is lost before its time, neither one that is at work nor a finished one.
JobIsNotLost == BusyIsNotDeleted /\ CleanedIsOldOrExcess

\* A workflow has got a job for the entry; the routine task may have deleted it since.
HasEventJob(w) ==
  \/ \E j \in DOMAIN job : job[j].wf = w /\ job[j].by = "event"
  \/ \E j \in DOMAIN cleaner.all : cleaner.all[j].wf = w /\ cleaner.all[j].by = "event"

\* When handleEntryCreate is over, every workflow that watched for the entry from
\* begin to end has got a job for it, unless a query failed (handleEntryCreate).
WatchedIsTriggered ==
  (event.pc = "done" /\ ~event.failed /\ ~fatal) =>
    \A w \in event.steady : (\E p \in Procs : at[p].wf = w) \/ HasEventJob(w)

\* The triggers do what the workflows say: they have the configuration of the rows, a
\* timer runs exactly for a workflow with a channel and with the right interval, and
\* a created entry starts every workflow that watches for it (triggers).
TriggersFollowRows ==
  /\ TriggersMatchRows /\ ScheduleIsFollowed /\ WatchedIsTriggered
  /\ \A w \in Wfs : w \in DOMAIN waiter <=> timer[w].pc # "none"

\* The sender waits for the timer and the timer for the mutex of the sender.
Stuck == mux # Free /\ timer[at[mux].wf].pc \in {"tick", "exit"} /\ Len(waiter[at[mux].wf]) = BufCap
=============================================================================
