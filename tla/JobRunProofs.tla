---------------------------- MODULE JobRunProofs ----------------------------
(***************************************************************************)
(* Proofs about the execution of jobs: for any jobs, workers, requests and *)
(* workflow, a job has one worker at a time, a flow that has finished      *)
(* stays finished, and how it ended is true and recorded.                  *)
(*                                                                         *)
(* OneWorkerPerJob rests on PendingIsIdle: a row whose status a claim      *)
(* accepts belongs to nobody.  That takes knowing that no observer call    *)
(* still under way writes a pending status back (SaveIsNotPending), hence  *)
(* what the flow's status is whenever somebody stamps a row (EventInv,     *)
(* FlowInv, WorkerInv).  EndIsTrue needs what triggerFlow may be doing     *)
(* when a flow ends (LoopInv, RecordInv).  Everything is said of one job,  *)
(* and a step concerns one job (OtherJob), except a restart.               *)
(***************************************************************************)
EXTENDS JobRun, TLAPS

\* The events of the FSM.
EventType == {"trigger", "finish", "fail", "cancel", "pause", "paused", "resume"}

\* Where a worker is.
WorkerPc == {"idle", "claim", "setup", "wait", "trigger", "stop", "error", "get", "save"}

\* Where triggerFlow, or the task it waits for, is.
LoopPc == {"none", "begin", "select", "batch", "task", "exec", "get", "stamp", "save", "return"} \cup LoopEvent

\* A row of the job table.
RowType == [status : Status, finished : BOOLEAN, node : [Node -> Status]]

\* A Runner with its Flow.
RunType ==
    [status : Status, fsm : Status, started : BOOLEAN, stopped : BOOLEAN, done : BOOLEAN,
     shotDone : BOOLEAN, node : [Node -> Status], crt : Node \cup {End},
     isFinished : BOOLEAN, wasPaused : BOOLEAN]

\* The event under the mutex.
EventRec ==
    [type : EventType \cup {"none"}, by : Worker \cup Client \cup Job \cup {"none"},
     pc : {"none", "get", "save", "end"}, copy : RowType]

\* The goroutine of triggerFlow.
LoopRec == [pc : LoopPc, then : LoopPc, node : Node, copy : RowType]

\* A worker.
WorkerRec == [pc : WorkerPc, job : Job \cup {NoJob}, op : {"none"}, copy : RowType]

\* A request.
ClientRec ==
    [pc : {"idle", "runner", "push"}, job : Job \cup {NoJob},
     op : {"none", "pause", "resume", "cancel"}, copy : RowType]

\* Types, and what goes with a pc: an idle worker has no job, a request knows
\* what it wants, and a task's report knows where the goroutine goes on.
TypeOK ==
    /\ row \in [Job -> RowType]
    /\ run \in [Job -> RunType]
    /\ event \in [Job -> EventRec]
    /\ loop \in [Job -> LoopRec]
    /\ worker \in [Worker -> WorkerRec]
    /\ client \in [Client -> ClientRec]
    /\ faults \in Nat
    /\ \A w \in Worker : worker[w].pc = "idle" => worker[w].job = NoJob
    /\ \A c \in Client : client[c].pc # "idle" => client[c].op # "none"
    /\ \A j \in Job : event[j] # NoEvent <=> event[j].pc # "none"
    /\ \A j \in Job : loop[j] # NoLoop <=> loop[j].pc # "none"
    /\ \A j \in Job : loop[j].pc \in {"get", "stamp", "save"} => loop[j].then \in {"exec", "select", "fail"}

\* The statuses of a row that nobody has claimed.
Pending == {"none", "initializing"}

\* Nobody works on a job whose row is pending, so the claim meets a new flow.
PendingIsIdle(j) ==
    row[j].status \in Pending =>
        /\ event[j].pc = "none" /\ loop[j].pc = "none"
        /\ run[j].fsm = "none" /\ run[j].status = "initializing" /\ ~run[j].started
        /\ \A w \in Worker : ~Executes(w, j)

\* No observer call is about to make a row pending again.
SaveIsNotPending(j) ==
    /\ event[j].pc = "save" => event[j].copy.status \notin Pending
    /\ loop[j].pc = "save" => loop[j].copy.status \notin Pending

\* Two workers that execute a job are the same.
OneWorker(j) == \A v, w \in Worker : Executes(v, j) /\ Executes(w, j) => v = w

\* What a worker knows of its flow: before its trigger is accepted nothing runs
\* and no event but a cancel has been accepted, and it reports an error only of
\* a flow that has no FSM or was cancelled.
WorkerInv(j) ==
    \A w \in Worker :
        worker[w].job = j =>
            /\ worker[w].pc = "setup" =>
                 run[j].fsm = "none" /\ run[j].status = "initializing" /\ ~run[j].started
            /\ worker[w].pc \in {"wait", "trigger"} =>
                 /\ loop[j].pc = "none"
                 /\ run[j].started => event[j].pc # "none" /\ event[j].type = "trigger"
                 /\ \/ run[j].fsm \in {"initializing", "canceled"}
                    \/ event[j].pc # "none" /\ event[j].type = "trigger"
            /\ worker[w].pc \in {"error", "get", "save"} =>
                 event[j].pc = "none" /\ run[j].fsm \in {"none", "canceled"}
            /\ worker[w].pc = "save" => worker[w].copy.status \notin Pending

\* Whoever pushes an event of type t waits for it.
PushedBy(j, t, b) ==
    \/ b \in Worker /\ worker[b].job = j /\ worker[b].pc = "trigger" /\ t = "trigger"
    \/ b \in Client /\ client[b].job = j /\ client[b].pc = "push" /\ t = client[b].op
    \/ b = j /\ loop[j].pc \in LoopEvent /\ t = loop[j].pc

\* While a handler runs the status is the one its event leads to, and nobody
\* has started triggerFlow yet.
EventInv(j) ==
    event[j].pc # "none" =>
        /\ event[j].type \in EventType
        /\ PushedBy(j, event[j].type, event[j].by)
        /\ run[j].fsm = Edges[event[j].type].to
        /\ run[j].status = Edges[event[j].type].to
        /\ event[j].type \in {"trigger", "resume"} => loop[j].pc = "none" /\ run[j].started

\* The status of the flow and that of its FSM: they differ only where setStatus
\* is called outside the FSM.
FlowInv(j) ==
    /\ run[j].status \in Finished \ {"error"} => run[j].fsm = run[j].status
    /\ run[j].status = "error" => run[j].fsm \in {"none", "canceled"}
    /\ run[j].fsm \in {"pausing", "paused"} => run[j].wasPaused
    /\ run[j].started => run[j].fsm \notin Pending /\ run[j].status \notin Pending

\* What triggerFlow may be doing: it only runs between a start and its return,
\* it ends soon after the flow has, it does not run a task past the last node,
\* and unless the flow was paused it finishes only after a last node, and the
\* coordinator is finished before that only when a failure is on its way.
LoopInv(j) ==
    /\ loop[j].pc # "none" => run[j].started
    /\ run[j].status \in {"succeed", "failed"} =>
         loop[j].pc \in {"none", "finish", "fail", "select", "return"}
    /\ loop[j].pc \in {"task", "exec"} => run[j].crt # End
    /\ loop[j].pc \in {"get", "stamp", "save"} /\ loop[j].then = "exec" => run[j].crt # End
    /\ run[j].fsm \in {"none", "initializing", "running"} /\ ~run[j].wasPaused =>
         /\ loop[j].pc = "finish" => run[j].crt = End
         /\ run[j].isFinished /\ run[j].crt # End =>
              \/ loop[j].pc = "fail"
              \/ loop[j].pc \in {"get", "stamp", "save"} /\ loop[j].then = "fail"

\* SucceededIsDone, for one job.
SucceedInv(j) == run[j].status = "succeed" /\ ~run[j].wasPaused => run[j].crt = End

\* What leads to EndedIsRecorded: from the save of the last event on, the row
\* says how the flow ended.
RecordInv(j) ==
    faults = 0 /\ run[j].status \in {"succeed", "failed"} =>
        /\ event[j].pc = "save" => event[j].copy.status = run[j].status /\ event[j].copy.finished
        /\ event[j].pc \in {"none", "end"} => row[j].status = run[j].status /\ row[j].finished

\* The invariant of one job.
JobInv(j) ==
    /\ PendingIsIdle(j) /\ SaveIsNotPending(j) /\ OneWorker(j) /\ WorkerInv(j) /\ EventInv(j)
    /\ FlowInv(j) /\ LoopInv(j) /\ SucceedInv(j) /\ RecordInv(j)

\* The inductive invariant.
IInv == TypeOK /\ \A j \in Job : JobInv(j)

-----------------------------------------------------------------------------

\* The initial records have their types.
LEMMA RowTypes ==
    /\ NoRow \in RowType
    /\ NoEvent \in EventRec /\ NoEvent.pc = "none"
    /\ NoLoop \in LoopRec /\ NoLoop.pc = "none"
    /\ Idle \in WorkerRec /\ Idle \in ClientRec /\ Idle.pc = "idle" /\ Idle.job = NoJob
    /\ \A node \in [Node -> Status] : NewRun(node) \in RunType
  <1>1. NoRow \in RowType
    BY Zenon DEF NoRow, RowType, Status
  <1> QED
    BY Zenon, <1>1, NodeAssumption DEF NoEvent, EventRec, NoLoop, LoopRec, LoopPc, Idle, WorkerRec, WorkerPc, ClientRec,
         NewRun, RunType, Status

\* A stamped row carries the status, and a finished one FinishAt.
LEMMA StampType ==
    ASSUME NEW copy \in RowType, NEW status \in Status
    PROVE  /\ Stamp(copy, status) \in RowType
           /\ Stamp(copy, status).status = status
           /\ status \in Finished => Stamp(copy, status).finished
  BY Zenon DEF Stamp, RowType

\* The edges of buildFlowFSM, one by one.
LEMMA EdgeFacts ==
    ASSUME NEW t \in EventType
    PROVE  /\ Edges[t].from \subseteq {"initializing", "running", "pausing", "paused"}
           /\ Edges[t].to \in {"running", "succeed", "failed", "canceled", "pausing", "paused"}
           /\ Edges[t].to = "running" <=> t \in {"trigger", "resume"}
           /\ Edges[t].to = "succeed" <=> t = "finish"
           /\ Edges[t].to = "failed" <=> t = "fail"
           /\ Edges[t].to = "canceled" <=> t = "cancel"
           /\ t = "trigger" => Edges[t].from = {"initializing", "running"}
           /\ t = "resume" => Edges[t].from = {"paused"}
           /\ t = "finish" => Edges[t].from = {"running"}
           /\ t = "fail" => Edges[t].from = {"initializing", "running"}
           /\ t = "pause" => Edges[t].to = "pausing" /\ Edges[t].from = {"running"}
           /\ t = "paused" => Edges[t].to = "paused" /\ Edges[t].from = {"pausing"}
  BY DEF EventType, Edges

\* What is about to be pushed, and by whom.
LEMMA PushFacts ==
    ASSUME TypeOK, NEW j \in Job, NEW p \in Pushes(j)
    PROVE  /\ PushedBy(j, p.type, p.by)
           /\ p.type \in EventType
           /\ p.by \in Worker \cup Client \cup Job
  <1>1. CASE p \in {[type |-> "trigger", by |-> w] : w \in {w \in Worker : worker[w].job = j /\ worker[w].pc = "trigger"}}
    BY <1>1 DEF PushedBy, EventType
  <1>2. CASE p \in {[type |-> client[c].op, by |-> c] : c \in {c \in Client : client[c].job = j /\ client[c].pc = "push"}}
    <2>1. PICK c \in Client : client[c].job = j /\ client[c].pc = "push" /\ p = [type |-> client[c].op, by |-> c]
      BY Zenon, <1>2
    <2>2. client[c] \in ClientRec /\ client[c].op # "none"
      BY Zenon, <2>1 DEF TypeOK
    <2> QED
      BY Zenon, <2>1, <2>2 DEF PushedBy, EventType, ClientRec
  <1>3. CASE loop[j].pc \in LoopEvent /\ p = [type |-> loop[j].pc, by |-> j]
    BY Zenon, <1>3 DEF PushedBy, EventType, LoopEvent
  <1> QED
    BY Zenon, <1>1, <1>2, <1>3 DEF Pushes

\* Event returns to the one who pushed it.
LEMMA ReturnFacts ==
    ASSUME TypeOK, NEW j \in Job, NEW p, NEW pc, PushedBy(j, p.type, p.by),
           (Return(p, TRUE) /\ pc = "error") \/ (Return(p, FALSE) /\ pc = "stop")
    PROVE  /\ worker' \in [Worker -> WorkerRec] /\ client' \in [Client -> ClientRec]
           /\ \A w \in Worker :
                 \/ worker'[w] = worker[w] /\ w # p.by
                 \/ /\ w = p.by /\ p.type = "trigger"
                    /\ worker[w].pc = "trigger" /\ worker[w].job = j /\ worker'[w].job = j
                    /\ worker'[w].pc = pc
           /\ \A c \in Client : client'[c] = client[c] \/ (client'[c] = Idle /\ client[c].job = j)
           /\ \A w \in Worker : worker'[w].pc = "idle" => worker'[w].job = NoJob
           /\ \A c \in Client : client'[c].pc # "idle" => client'[c].op # "none"
  <1>1. CASE p.by \in Worker
    <2>1. p.by \notin Client /\ p.by # j
      BY Zenon, <1>1, PusherAssumption
    <2>2. /\ worker[p.by].pc = "trigger" /\ worker[p.by].job = j /\ p.type = "trigger"
          /\ worker[p.by] \in WorkerRec
      BY Zenon, <1>1, <2>1 DEF PushedBy, TypeOK
    <2>3. worker' = [worker EXCEPT ![p.by] = [worker[p.by] EXCEPT !.pc = pc]] /\ client' = client
      BY Zenon, <1>1, <2>1 DEF Return
    <2>4. pc \in WorkerPc /\ pc # "idle"
      BY Zenon DEF WorkerPc
    <2>5. /\ [worker[p.by] EXCEPT !.pc = pc] \in WorkerRec
          /\ [worker[p.by] EXCEPT !.pc = pc].pc = pc
          /\ [worker[p.by] EXCEPT !.pc = pc].job = j
      BY Zenon, <2>2, <2>4 DEF WorkerRec
    <2> QED
      BY Zenon, <1>1, <2>1, <2>2, <2>3, <2>4, <2>5 DEF TypeOK
  <1>2. CASE p.by \in Client
    <2>1. worker' = worker /\ client' = [client EXCEPT ![p.by] = Idle] /\ p.by \notin Worker /\ client[p.by].job = j
      BY Zenon, <1>2, PusherAssumption DEF Return, PushedBy
    <2> QED
      BY Zenon, <1>2, <2>1, RowTypes DEF TypeOK
  <1>3. CASE p.by = j
    <2>1. worker' = worker /\ client' = client /\ p.by \notin Worker /\ p.by \notin Client
      BY Zenon, <1>3, PusherAssumption DEF Return
    <2> QED
      BY Zenon, <2>1 DEF TypeOK
  <1> QED
    BY Zenon, <1>1, <1>2, <1>3 DEF PushedBy

\* triggerFlow goes on after its event has returned.
LEMMA LoopAfterFacts ==
    ASSUME TypeOK, NEW j \in Job, NEW p, PushedBy(j, p.type, p.by), loop' = LoopAfter(j, p)
    PROVE  /\ loop' \in [Job -> LoopRec]
           /\ \A k \in Job \ {j} : loop'[k] = loop[k]
           /\ p.by # j => loop'[j] = loop[j]
           /\ p.by = j => /\ loop[j].pc \in LoopEvent /\ p.type = loop[j].pc
                          /\ loop'[j].pc = IF p.type \in {"finish", "paused"} THEN "return" ELSE "select"
           /\ \A k \in Job : loop'[k] # NoLoop <=> loop'[k].pc # "none"
           /\ \A k \in Job : loop'[k].pc \in {"get", "stamp", "save"} => loop'[k] = loop[k]
  <1>1. CASE p.by # j
    BY Zenon, <1>1 DEF TypeOK, LoopAfter
  <1>2. CASE p.by = j
    <2> DEFINE pc == IF p.type \in {"finish", "paused"} THEN "return" ELSE "select"
    <2>1. p.by \notin Worker /\ p.by \notin Client
      BY Zenon, <1>2, PusherAssumption
    <2>2. loop[j].pc \in LoopEvent /\ p.type = loop[j].pc /\ loop[j] \in LoopRec
      BY Zenon, <2>1 DEF PushedBy, TypeOK
    <2>3. loop' = [loop EXCEPT ![j] = [loop[j] EXCEPT !.pc = pc]]
      BY Zenon, <1>2 DEF LoopAfter
    <2>4. pc \in LoopPc /\ pc \in {"return", "select"}
      BY Zenon DEF LoopPc
    <2> HIDE DEF pc
    <2>5. [loop[j] EXCEPT !.pc = pc] \in LoopRec /\ [loop[j] EXCEPT !.pc = pc].pc = pc
      BY Zenon, <2>2, <2>4 DEF LoopRec
    <2>6. loop'[j] # NoLoop
      BY Zenon, <2>3, <2>4, <2>5, RowTypes DEF TypeOK
    <2>7. loop' \in [Job -> LoopRec] /\ loop'[j].pc = pc /\ \A k \in Job \ {j} : loop'[k] = loop[k]
      BY Zenon, <2>3, <2>5 DEF TypeOK
    <2> QED
      BY <1>2, <2>2, <2>4, <2>6, <2>7 DEF TypeOK, pc
  <1> QED
    BY Zenon, <1>1, <1>2

\* A step that leaves a job, its goroutine, its workers and its requests alone.
LEMMA OtherJob ==
    ASSUME NEW k \in Job, JobInv(k),
           row'[k] = row[k], run'[k] = run[k], event'[k] = event[k], loop'[k] = loop[k],
           \A w \in Worker : worker[w].job = k \/ worker'[w].job = k => worker'[w] = worker[w],
           \A c \in Client : client[c].job = k => client'[c] = client[c],
           faults' = 0 => faults = 0
    PROVE  JobInv(k)'
  <1> USE DEF JobInv
  <1>1. PendingIsIdle(k)'
    BY Zenon DEF PendingIsIdle, Executes
  <1>2. OneWorker(k)'
    BY DEF OneWorker, Executes
  <1>3. WorkerInv(k)'
    BY DEF WorkerInv
  <1>4. EventInv(k)'
    BY DEF EventInv, PushedBy
  <1>5. (SaveIsNotPending(k) /\ FlowInv(k) /\ LoopInv(k) /\ SucceedInv(k))'
    BY DEF SaveIsNotPending, FlowInv, LoopInv, SucceedInv
  <1>6. RecordInv(k)'
    BY Zenon DEF RecordInv
  <1> QED
    BY Zenon, <1>1, <1>2, <1>3, <1>4, <1>5, <1>6

\* What is said of a flow and its loop stays true while both stay as they are.
LEMMA FlowKept ==
    ASSUME NEW j \in Job, JobInv(j), loop'[j] = loop[j],
           run'[j].fsm = run[j].fsm, run'[j].status = run[j].status, run'[j].started = run[j].started,
           run'[j].wasPaused = run[j].wasPaused, run'[j].crt = run[j].crt, run'[j].isFinished = run[j].isFinished
    PROVE  FlowInv(j)' /\ LoopInv(j)' /\ SucceedInv(j)'
  <1>1. FlowInv(j) /\ LoopInv(j) /\ SucceedInv(j)
    BY Zenon DEF JobInv
  <1>2. FlowInv(j)'
    BY Zenon, <1>1 DEF FlowInv
  <1>3. LoopInv(j)'
    BY Zenon, <1>1 DEF LoopInv
  <1>4. SucceedInv(j)'
    BY Zenon, <1>1 DEF SucceedInv
  <1> QED
    BY Zenon, <1>2, <1>3, <1>4

\* So is what is about to be saved, and what has been.
LEMMA SavesKept ==
    ASSUME NEW j \in Job, JobInv(j), event'[j] = event[j], loop'[j] = loop[j]
    PROVE  SaveIsNotPending(j)'
  BY Zenon DEF JobInv, SaveIsNotPending

\* So is what relates the record to the run, while no fault is added and the row
\* and the status stay as they are.
LEMMA RecordKept ==
    ASSUME NEW j \in Job, JobInv(j), run'[j].status = run[j].status, row'[j] = row[j], event'[j] = event[j], faults' = 0 => faults = 0
    PROVE  RecordInv(j)'
  BY Zenon DEF JobInv, RecordInv

\* Handle reads and stamps the row with the status of the accepted event.
LEMMA EventGetIInv ==
    ASSUME IInv, NEW j \in Job, EventGet(j)
    PROVE  IInv'
  <1> DEFINE c == Stamp(row[j], run[j].status)
             e == [event[j] EXCEPT !.pc = "save", !.copy = c]
  <1>1. TypeOK /\ JobInv(j) /\ event[j].pc = "get"
    BY Zenon DEF IInv, EventGet
  <1>2. c \in RowType /\ c.status = run[j].status /\ (run[j].status \in Finished => c.finished)
    BY <1>1, StampType DEF TypeOK, RunType
  <1>3. event' = [event EXCEPT ![j] = e]
    BY Zenon DEF EventGet
  <1> HIDE DEF c
  <1>4. e \in EventRec /\ e.pc = "save" /\ e.copy = c /\ e.type = event[j].type /\ e.by = event[j].by
    BY Zenon, <1>1, <1>2 DEF TypeOK, EventRec
  <1> HIDE DEF e
  <1>5. event' \in [Job -> EventRec] /\ event'[j] = e /\ \A k \in Job \ {j} : event'[k] = event[k]
    BY Zenon, <1>1, <1>3, <1>4 DEF TypeOK
  <1>6. UNCHANGED <<row, runners, run, loop, worker, client, requests, faults>>
    BY Zenon DEF EventGet
  <1>7. run[j].status \notin Pending
    BY Zenon, <1>1, EdgeFacts DEF JobInv, EventInv, Pending
  <1>8. TypeOK'
    BY Zenon, <1>1, <1>4, <1>5, <1>6, RowTypes DEF TypeOK
  <1>9. JobInv(j)'
    <2>1. PendingIsIdle(j)' /\ OneWorker(j)'
      BY Zenon, <1>1, <1>5, <1>6 DEF JobInv, PendingIsIdle, OneWorker, Executes
    <2>2. SaveIsNotPending(j)'
      BY Zenon, <1>1, <1>2, <1>4, <1>5, <1>6, <1>7 DEF JobInv, SaveIsNotPending
    <2>3. WorkerInv(j)'
      BY Zenon, <1>1, <1>4, <1>5, <1>6 DEF JobInv, WorkerInv
    <2>4. EventInv(j)'
      BY Zenon, <1>1, <1>4, <1>5, <1>6 DEF JobInv, EventInv, PushedBy
    <2>5. FlowInv(j)' /\ LoopInv(j)' /\ SucceedInv(j)'
      BY <1>1, <1>6 DEF JobInv, FlowInv, LoopInv, SucceedInv
    <2>6. RecordInv(j)'
      BY Zenon, <1>1, <1>2, <1>4, <1>5, <1>6 DEF JobInv, RecordInv, Finished
    <2> QED
      BY Zenon, <2>1, <2>2, <2>3, <2>4, <2>5, <2>6 DEF JobInv
  <1>10. \A k \in Job \ {j} : JobInv(k)'
    BY Zenon, <1>5, <1>6, OtherJob DEF IInv
  <1> QED
    BY Zenon, <1>8, <1>9, <1>10 DEF IInv

\* The row is saved, or the save fails and is counted as a fault.
LEMMA SaveFacts ==
    ASSUME TypeOK, NEW j \in Job, NEW c \in RowType, Save(j, c)
    PROVE  /\ row' \in [Job -> RowType] /\ faults' \in Nat
           /\ \A k \in Job \ {j} : row'[k] = row[k]
           /\ \/ row'[j] = c /\ faults' = faults
              \/ row'[j] = row[j] /\ faults' # 0
           /\ faults' = 0 => faults = 0
  BY DEF TypeOK, Save, Fault

\* The saved row is no longer pending, and records the end of the flow.
LEMMA EventSaveIInv ==
    ASSUME IInv, NEW j \in Job, EventSave(j)
    PROVE  IInv'
  <1> DEFINE e == [event[j] EXCEPT !.pc = "end", !.copy = NoRow]
  <1>1. TypeOK /\ JobInv(j) /\ event[j].pc = "save" /\ event[j] \in EventRec
    BY Zenon DEF IInv, EventSave, TypeOK
  <1>2. event[j].copy \in RowType /\ event[j].copy.status \notin Pending
    BY Zenon, <1>1 DEF EventRec, JobInv, SaveIsNotPending
  <1>3. event' = [event EXCEPT ![j] = e]
    BY Zenon DEF EventSave
  <1>4. e \in EventRec /\ e.pc = "end" /\ e.type = event[j].type /\ e.by = event[j].by
    BY Zenon, <1>1, RowTypes DEF EventRec
  <1> HIDE DEF e
  <1>5. event' \in [Job -> EventRec] /\ event'[j] = e /\ \A k \in Job \ {j} : event'[k] = event[k]
    BY Zenon, <1>1, <1>3, <1>4 DEF TypeOK
  <1>6. UNCHANGED <<run, loop, worker, client, requests>>
    BY Zenon DEF EventSave
  <1>7. /\ row' \in [Job -> RowType] /\ faults' \in Nat
        /\ \A k \in Job \ {j} : row'[k] = row[k]
        /\ \/ row'[j] = event[j].copy /\ faults' = faults
           \/ row'[j] = row[j] /\ faults' # 0
        /\ faults' = 0 => faults = 0
    BY Zenon, <1>1, <1>2, SaveFacts DEF EventSave
  <1>8. TypeOK'
    BY Zenon, <1>1, <1>4, <1>5, <1>6, <1>7, RowTypes DEF TypeOK
  <1>9. JobInv(j)'
    <2>1. PendingIsIdle(j)' /\ OneWorker(j)'
      BY Zenon, <1>1, <1>2, <1>5, <1>6, <1>7 DEF JobInv, PendingIsIdle, OneWorker, Executes
    <2>2. SaveIsNotPending(j)'
      BY Zenon, <1>1, <1>4, <1>5, <1>6 DEF JobInv, SaveIsNotPending
    <2>3. WorkerInv(j)'
      BY Zenon, <1>1, <1>4, <1>5, <1>6 DEF JobInv, WorkerInv
    <2>4. EventInv(j)'
      BY Zenon, <1>1, <1>4, <1>5, <1>6 DEF JobInv, EventInv, PushedBy
    <2>5. FlowInv(j)' /\ LoopInv(j)' /\ SucceedInv(j)'
      BY <1>1, <1>6 DEF JobInv, FlowInv, LoopInv, SucceedInv
    <2>6. RecordInv(j)'
      <3>1. CASE row'[j] = event[j].copy /\ faults' = faults
        BY Zenon, <1>1, <1>4, <1>5, <1>6, <3>1 DEF JobInv, RecordInv
      <3>2. CASE faults' # 0
        BY Zenon, <3>2 DEF RecordInv
      <3> QED
        BY Zenon, <1>7, <3>1, <3>2
    <2> QED
      BY Zenon, <2>1, <2>2, <2>3, <2>4, <2>5, <2>6 DEF JobInv
  <1>10. \A k \in Job \ {j} : JobInv(k)'
    BY Zenon, <1>5, <1>6, <1>7, OtherJob DEF IInv
  <1> QED
    BY Zenon, <1>8, <1>9, <1>10 DEF IInv

\* A refused event changes nobody but the one who pushed it.
LEMMA RefuseIInv ==
    ASSUME IInv, NEW j \in Job, NEW p, Refuse(j, p)
    PROVE  IInv'
  <1>1. /\ TypeOK /\ JobInv(j)
        /\ p \in Pushes(j) /\ event[j].pc = "none" /\ run[j].fsm \notin Edges[p.type].from
        /\ loop' = LoopAfter(j, p) /\ Return(p, TRUE)
        /\ UNCHANGED <<row, runners, run, event, requests, faults>>
    BY Zenon, RowTypes DEF Refuse, IInv
  <1>2. PushedBy(j, p.type, p.by) /\ p.type \in EventType
    BY Zenon, <1>1, PushFacts
  <1>3. /\ worker' \in [Worker -> WorkerRec] /\ client' \in [Client -> ClientRec]
        /\ \A w \in Worker :
              \/ worker'[w] = worker[w] /\ w # p.by
              \/ /\ w = p.by /\ p.type = "trigger"
                 /\ worker[w].pc = "trigger" /\ worker[w].job = j /\ worker'[w].job = j
                 /\ worker'[w].pc = "error"
        /\ \A c \in Client : client'[c] = client[c] \/ (client'[c] = Idle /\ client[c].job = j)
        /\ \A w \in Worker : worker'[w].pc = "idle" => worker'[w].job = NoJob
        /\ \A c \in Client : client'[c].pc # "idle" => client'[c].op # "none"
    BY <1>1, <1>2, ReturnFacts, Zenon
  <1>4. /\ loop' \in [Job -> LoopRec]
        /\ \A k \in Job \ {j} : loop'[k] = loop[k]
        /\ p.by # j => loop'[j] = loop[j]
        /\ p.by = j => /\ loop[j].pc \in LoopEvent /\ p.type = loop[j].pc
                       /\ loop'[j].pc = IF p.type \in {"finish", "paused"} THEN "return" ELSE "select"
        /\ \A k \in Job : loop'[k] # NoLoop <=> loop'[k].pc # "none"
        /\ \A k \in Job : loop'[k].pc \in {"get", "stamp", "save"} => loop'[k] = loop[k]
    BY Zenon, <1>1, <1>2, LoopAfterFacts
  <1>5. TypeOK'
    BY Zenon, <1>1, <1>3, <1>4 DEF TypeOK
  <1>6. JobInv(j)'
    <2>1. PendingIsIdle(j)'
      BY <1>1, <1>3, <1>4 DEF JobInv, PendingIsIdle, Executes, LoopEvent
    <2>2. OneWorker(j)'
      BY <1>1, <1>3 DEF JobInv, OneWorker, Executes
    <2>3. WorkerInv(j)'
      <3>1. \A w \in Worker : worker[w].pc = "trigger" /\ worker[w].job = j /\ p.type = "trigger" => run[j].fsm = "canceled"
        <4>1. \A w \in Worker : worker[w].pc = "trigger" /\ worker[w].job = j => run[j].fsm \in {"initializing", "canceled"}
          BY <1>1, Zenon DEF JobInv, WorkerInv
        <4>2. p.type = "trigger" => run[j].fsm # "initializing"
          BY <1>1, <1>2, EdgeFacts, Zenon
        <4> QED
          BY <4>1, <4>2, Zenon
      <3> QED
        <4>1. run' = run /\ event' = event /\ event[j].pc = "none"
          BY <1>1, Zenon
        <4>2. loop[j].pc = "none" => loop'[j].pc = "none"
          BY <1>4, Zenon DEF LoopEvent
        <4>3. ASSUME NEW w \in Worker, worker'[w].job = j
              PROVE  worker'[w] = worker[w] \/ (worker'[w].pc = "error" /\ run[j].fsm = "canceled")
          <5>1. \/ worker'[w] = worker[w]
                \/ p.type = "trigger" /\ worker[w].pc = "trigger" /\ worker[w].job = j /\ worker'[w].pc = "error"
            BY <1>3, Zenon
          <5> QED
            BY <3>1, <4>3, <5>1, Zenon
        <4>4. WorkerInv(j)
          BY <1>1, Zenon DEF JobInv
        <4> QED
          BY <4>1, <4>2, <4>3, <4>4, Zenon DEF WorkerInv
    <2>4. LoopInv(j)'
      <3>1. p.by = j /\ run[j].fsm \in {"none", "initializing", "running"} => p.type \notin {"finish", "fail"}
        <4>1. p.by = j => run[j].fsm \notin Pending
          BY <1>1, <1>4, Zenon DEF JobInv, LoopInv, FlowInv, LoopEvent
        <4>2. p.type \in {"finish", "fail"} => run[j].fsm # "running"
          BY <1>1, <1>2, EdgeFacts, ZenonT(60)
        <4> QED
          BY <4>1, <4>2, Zenon DEF Pending
      <3>2. run' = run /\ LoopInv(j)
        BY <1>1, Zenon DEF JobInv
      <3>3. CASE p.by # j
        BY <1>4, <3>2, <3>3, Zenon DEF LoopInv
      <3>4. CASE p.by = j
        <4>1. loop[j].pc = p.type /\ loop[j].pc # "none" /\ loop'[j].pc \in {"select", "return"}
          BY <1>4, <3>4, Zenon DEF LoopEvent
        <4> QED
          BY <1>4, <3>1, <3>2, <3>4, <4>1, Zenon DEF LoopInv, LoopEvent
      <3> QED
        BY <3>3, <3>4, Zenon
    <2>5. EventInv(j)'
      BY Zenon, <1>1 DEF EventInv
    <2>6. (SaveIsNotPending(j) /\ FlowInv(j) /\ SucceedInv(j) /\ RecordInv(j))'
      BY Zenon, <1>1, <1>4 DEF JobInv, SaveIsNotPending, FlowInv, SucceedInv, RecordInv
    <2> QED
      BY Zenon, <2>1, <2>2, <2>3, <2>4, <2>5, <2>6 DEF JobInv
  <1>7. \A k \in Job \ {j} : JobInv(k)'
    <2>1. \A k \in Job \ {j} : \A w \in Worker : worker[w].job = k \/ worker'[w].job = k => worker'[w] = worker[w]
      BY <1>3
    <2>2. \A k \in Job \ {j} : \A c \in Client : client[c].job = k => client'[c] = client[c]
      BY <1>3, Zenon
    <2> QED
      BY <1>1, <1>4, <2>1, <2>2, OtherJob, Zenon DEF IInv
  <1> QED
    BY Zenon, <1>5, <1>6, <1>7 DEF IInv

\* Only a worker pushes trigger.
LEMMA ClientPushesNoTrigger ==
    ASSUME TypeOK, NEW c \in Client
    PROVE  client[c].op \notin {"trigger", "finish", "fail", "paused"}
  BY Zenon DEF TypeOK, ClientRec

\* A trigger or resume is accepted and dropped while triggerFlow still runs.
LEMMA NotAgainIInv ==
    ASSUME IInv, NEW j \in Job, NEW p, NotAgain(j, p)
    PROVE  IInv'
  <1> DEFINE r == [run[j] EXCEPT !.fsm = "running"]
  <1>1. /\ TypeOK /\ JobInv(j)
        /\ p \in Pushes(j) /\ event[j].pc = "none" /\ run[j].fsm \in Edges[p.type].from
        /\ run[j].started /\ p.type \in {"trigger", "resume"} /\ Return(p, FALSE)
        /\ UNCHANGED <<row, runners, event, loop, requests, faults>>
    BY Zenon, RowTypes DEF NotAgain, IInv
  <1>2. PushedBy(j, p.type, p.by) /\ p.type \in EventType
    BY Zenon, <1>1, PushFacts
  <1>3. /\ worker' \in [Worker -> WorkerRec] /\ client' \in [Client -> ClientRec]
        /\ \A w \in Worker :
              \/ worker'[w] = worker[w] /\ w # p.by
              \/ /\ w = p.by /\ p.type = "trigger"
                 /\ worker[w].pc = "trigger" /\ worker[w].job = j /\ worker'[w].job = j
                 /\ worker'[w].pc = "stop"
        /\ \A c \in Client : client'[c] = client[c] \/ (client'[c] = Idle /\ client[c].job = j)
        /\ \A w \in Worker : worker'[w].pc = "idle" => worker'[w].job = NoJob
        /\ \A c \in Client : client'[c].pc # "idle" => client'[c].op # "none"
    BY <1>1, <1>2, ReturnFacts, Zenon
  <1>4. run' = [run EXCEPT ![j] = r]
    BY Zenon DEF NotAgain
  <1>5. /\ r \in RunType /\ r.fsm = "running" /\ r.status = run[j].status /\ r.started = run[j].started
        /\ r.wasPaused = run[j].wasPaused /\ r.crt = run[j].crt
    BY <1>1, ZenonT(60) DEF TypeOK, RunType, Status
  <1> HIDE DEF r
  <1>6. run' \in [Job -> RunType] /\ run'[j] = r /\ \A k \in Job \ {j} : run'[k] = run[k]
    BY Zenon, <1>1, <1>4, <1>5 DEF TypeOK
  <1>7. run[j].fsm = "paused"
    <2>1. CASE p.type = "resume"
      BY <1>1, <1>2, <2>1, EdgeFacts
    <2>2. CASE p.type = "trigger"
      <3>1. p.by \in Worker /\ worker[p.by].job = j /\ worker[p.by].pc = "trigger"
        BY Zenon, <1>1, <1>2, <2>2, ClientPushesNoTrigger DEF PushedBy, LoopEvent
      <3> QED
        BY Zenon, <1>1, <3>1 DEF JobInv, WorkerInv
    <2> QED
      BY Zenon, <1>1, <2>1, <2>2
  <1>8. TypeOK'
    BY Zenon, <1>1, <1>3, <1>6 DEF TypeOK
  <1>9. JobInv(j)'
    <2>1. PendingIsIdle(j)'
      BY Zenon, <1>1, <1>7 DEF JobInv, PendingIsIdle
    <2>2. OneWorker(j)'
      BY <1>1, <1>3 DEF JobInv, OneWorker, Executes
    <2>3. WorkerInv(j)'
      BY Zenon, <1>1, <1>3, <1>7 DEF JobInv, WorkerInv
    <2>4. EventInv(j)'
      BY Zenon, <1>1 DEF EventInv
    <2>5. FlowInv(j)'
      BY Zenon, <1>1, <1>5, <1>6, <1>7 DEF JobInv, FlowInv, Finished, Pending
    <2>6. LoopInv(j)'
      BY Zenon, <1>1, <1>5, <1>6, <1>7 DEF JobInv, FlowInv, LoopInv
    <2>7. (SaveIsNotPending(j) /\ SucceedInv(j) /\ RecordInv(j))'
      BY Zenon, <1>1, <1>5, <1>6 DEF JobInv, SaveIsNotPending, SucceedInv, RecordInv
    <2> QED
      BY Zenon, <2>1, <2>2, <2>3, <2>4, <2>5, <2>6, <2>7 DEF JobInv
  <1>10. \A k \in Job \ {j} : JobInv(k)'
    BY <1>1, <1>3, <1>6, OtherJob DEF IInv
  <1> QED
    BY Zenon, <1>8, <1>9, <1>10 DEF IInv
\* The status moves along an edge; the flow finishes only after a last node.
LEMMA AcceptIInv ==
    ASSUME IInv, NEW j \in Job, NEW p, Accept(j, p)
    PROVE  IInv'
  <1> DEFINE to == Edges[p.type].to
             st == run[j].started \/ to = "running"
             wp == run[j].wasPaused \/ to = "pausing"
             r == [run[j] EXCEPT !.fsm = to, !.status = to, !.started = st, !.wasPaused = wp]
             e == [type |-> p.type, by |-> p.by, pc |-> "get", copy |-> NoRow]
  <1>1. /\ TypeOK /\ JobInv(j)
        /\ p \in Pushes(j) /\ event[j].pc = "none" /\ run[j].fsm \in Edges[p.type].from
        /\ to = "running" => ~run[j].started
        /\ UNCHANGED <<row, runners, loop, worker, client, requests, faults>>
    BY Zenon, RowTypes DEF Accept, IInv
  <1>2. PushedBy(j, p.type, p.by) /\ p.type \in EventType /\ p.by \in Worker \cup Client \cup Job
    BY Zenon, <1>1, PushFacts
  <1>3. run' = [run EXCEPT ![j] = r] /\ event' = [event EXCEPT ![j] = e]
    BY Zenon DEF Accept
  <1>4. e \in EventRec /\ e.type = p.type /\ e.by = p.by /\ e.pc = "get"
    BY Zenon, <1>2, RowTypes DEF EventRec
  <1>5. to \in Status
    BY Zenon, <1>2, EdgeFacts DEF Status, Finished
  <1> HIDE DEF to, e
  <1>6. st \in BOOLEAN /\ wp \in BOOLEAN
    BY Zenon, <1>1 DEF TypeOK, RunType
  <1> HIDE DEF st, wp
  <1>6a. /\ r \in RunType /\ r.fsm = to /\ r.status = to /\ r.started = st /\ r.wasPaused = wp
        /\ r.crt = run[j].crt /\ r.isFinished = run[j].isFinished
    BY <1>1, <1>5, <1>6, ZenonT(60) DEF TypeOK, RunType
  <1> HIDE DEF r
  <1>7. /\ run' \in [Job -> RunType] /\ run'[j] = r /\ \A k \in Job \ {j} : run'[k] = run[k]
        /\ event' \in [Job -> EventRec] /\ event'[j] = e /\ \A k \in Job \ {j} : event'[k] = event[k]
    BY Zenon, <1>1, <1>3, <1>4, <1>6a DEF TypeOK
  <1>8. TypeOK'
    BY Zenon, <1>1, <1>4, <1>7, RowTypes DEF TypeOK
  \* The cases of the edges.
  <1>9. /\ p.type \in {"trigger", "resume"} => /\ to = "running" /\ ~run[j].started /\ loop[j].pc = "none"
        /\ p.type = "finish" => to = "succeed" /\ run[j].fsm = "running" /\ loop[j].pc = "finish"
        /\ p.type = "fail" => to = "failed" /\ loop[j].pc = "fail"
        /\ p.type = "pause" => to = "pausing" /\ run[j].fsm = "running"
        /\ p.type = "paused" => to = "paused" /\ run[j].fsm = "pausing"
        /\ p.type = "cancel" => to = "canceled"
        /\ p.type = "resume" => run[j].fsm = "paused"
        /\ run[j].fsm \in {"initializing", "running", "pausing", "paused"}
    <2>1. p.type \in {"finish", "fail"} => loop[j].pc = p.type
      BY Zenon, <1>1, <1>2, ClientPushesNoTrigger DEF PushedBy
    <2>2. ~run[j].started => loop[j].pc = "none"
      BY Zenon, <1>1 DEF JobInv, LoopInv
    <2> QED
      BY <1>1, <1>2, <2>1, <2>2, EdgeFacts DEF to
  <1>10. JobInv(j)'
    <2>1. PendingIsIdle(j)' /\ OneWorker(j)'
      BY Zenon, <1>1, <1>9 DEF JobInv, PendingIsIdle, OneWorker, Executes
    <2>2. SaveIsNotPending(j)'
      BY Zenon, <1>1, <1>4, <1>7 DEF JobInv, SaveIsNotPending
    <2>3. WorkerInv(j)'
      BY <1>1, <1>2, <1>4, <1>6a, <1>7, <1>9, ZenonT(60) DEF JobInv, WorkerInv, EventType, st
    <2>4. EventInv(j)'
      BY Zenon, <1>1, <1>2, <1>4, <1>6a, <1>7, <1>9 DEF EventInv, PushedBy, to, st
    <2>5. FlowInv(j)'
      BY Zenon, <1>1, <1>2, <1>6a, <1>7, <1>9 DEF JobInv, FlowInv, Finished, Pending, EventType, st, wp
    <2>6. LoopInv(j)'
      <3>1. p.type \in {"trigger", "resume"} => ~run[j].isFinished \/ run[j].crt = End \/ run[j].wasPaused
        BY Zenon, <1>1, <1>9, EdgeFacts, <1>2 DEF JobInv, LoopInv, FlowInv
      <3> QED
        BY Zenon, <1>1, <1>2, <1>6a, <1>7, <1>9, <3>1 DEF JobInv, LoopInv, EventType, st, wp
    <2>7. SucceedInv(j)'
      BY Zenon, <1>1, <1>2, <1>6a, <1>7, <1>9 DEF JobInv, SucceedInv, LoopInv, EventType, wp
    <2>8. RecordInv(j)'
      BY Zenon, <1>4, <1>7 DEF RecordInv
    <2> QED
      BY Zenon, <2>1, <2>2, <2>3, <2>4, <2>5, <2>6, <2>7, <2>8 DEF JobInv
  <1>11. \A k \in Job \ {j} : JobInv(k)'
    BY Zenon, <1>1, <1>7, OtherJob DEF IInv
  <1> QED
    BY Zenon, <1>8, <1>10, <1>11 DEF IInv

\* The handler ends: triggerFlow starts, or the flow is closed.
LEMMA EventEndIInv ==
    ASSUME IInv, NEW j \in Job, EventEnd(j)
    PROVE  IInv'
  <1> DEFINE p == event[j]
             ends == Edges[p.type].to \in Finished
             shot == run[j].shotDone \/ p.type = "pause"
             done == run[j].done \/ ends
             stopped == run[j].stopped \/ ends
             r == [run[j] EXCEPT !.shotDone = shot, !.done = done, !.stopped = stopped]
  <1>1. /\ TypeOK /\ JobInv(j) /\ p.pc = "end" /\ Return(p, FALSE)
        /\ UNCHANGED <<row, runners, requests, faults>>
    BY Zenon DEF EventEnd, IInv
  <1>2. PushedBy(j, p.type, p.by) /\ p.type \in EventType /\ run[j].fsm = Edges[p.type].to
    BY Zenon, <1>1 DEF JobInv, EventInv
  <1>3. /\ worker' \in [Worker -> WorkerRec] /\ client' \in [Client -> ClientRec]
        /\ \A w \in Worker :
              \/ worker'[w] = worker[w] /\ w # p.by
              \/ /\ w = p.by /\ p.type = "trigger"
                 /\ worker[w].pc = "trigger" /\ worker[w].job = j /\ worker'[w].job = j
                 /\ worker'[w].pc = "stop"
        /\ \A c \in Client : client'[c] = client[c] \/ (client'[c] = Idle /\ client[c].job = j)
        /\ \A w \in Worker : worker'[w].pc = "idle" => worker'[w].job = NoJob
        /\ \A c \in Client : client'[c].pc # "idle" => client'[c].op # "none"
    BY <1>1, <1>2, ReturnFacts, Zenon
  <1>4. run' = [run EXCEPT ![j] = r]
    BY Zenon DEF EventEnd
  <1>5. /\ event' \in [Job -> EventRec] /\ event'[j] = NoEvent /\ event'[j].pc = "none"
        /\ \A k \in Job \ {j} : event'[k] = event[k]
    BY Zenon, <1>1, RowTypes DEF EventEnd, TypeOK
  <1>6. /\ loop' \in [Job -> LoopRec]
        /\ \A k \in Job \ {j} : loop'[k] = loop[k]
        /\ p.type \in {"trigger", "resume"} => loop'[j].pc = "begin"
        /\ p.type \notin {"trigger", "resume"} /\ p.by # j => loop'[j] = loop[j]
        /\ p.type \notin {"trigger", "resume"} /\ p.by = j =>
              /\ loop[j].pc \in LoopEvent /\ p.type = loop[j].pc
              /\ loop'[j].pc = IF p.type \in {"finish", "paused"} THEN "return" ELSE "select"
        /\ \A k \in Job : loop'[k] # NoLoop <=> loop'[k].pc # "none"
        /\ \A k \in Job : loop'[k].pc \in {"get", "stamp", "save"} => loop'[k] = loop[k]
    <2>1. CASE p.type \in {"trigger", "resume"}
      <3> DEFINE l == [NoLoop EXCEPT !.pc = "begin"]
      <3>1. l \in LoopRec /\ l.pc = "begin"
        BY Zenon, RowTypes DEF LoopRec, LoopPc
      <3>2. loop' = [loop EXCEPT ![j] = l]
        BY Zenon, <2>1 DEF EventEnd
      <3> HIDE DEF l
      <3> QED
        BY Zenon, <1>1, <2>1, <3>1, <3>2, RowTypes DEF TypeOK
    <2>2. CASE p.type \notin {"trigger", "resume"}
      <3>1. loop' = LoopAfter(j, p)
        BY Zenon, <2>2 DEF EventEnd
      <3> QED
        BY <1>1, <1>2, <2>2, <3>1, LoopAfterFacts, Zenon
    <2> QED
      BY Zenon, <2>1, <2>2
  <1>6a. shot \in BOOLEAN /\ done \in BOOLEAN /\ stopped \in BOOLEAN
    BY Zenon, <1>1 DEF TypeOK, RunType
  <1> HIDE DEF shot, done, stopped
  <1>7. /\ r \in RunType /\ r.fsm = run[j].fsm /\ r.status = run[j].status /\ r.started = run[j].started
        /\ r.wasPaused = run[j].wasPaused /\ r.crt = run[j].crt /\ r.isFinished = run[j].isFinished
    BY <1>1, <1>6a, ZenonT(60) DEF TypeOK, RunType
  <1> HIDE DEF r
  <1>8. run' \in [Job -> RunType] /\ run'[j] = r /\ \A k \in Job \ {j} : run'[k] = run[k]
    BY Zenon, <1>1, <1>4, <1>7 DEF TypeOK
  <1>9. TypeOK'
    <2>1. row' = row /\ faults' = faults /\ row \in [Job -> RowType] /\ faults \in Nat
      BY <1>1, Zenon DEF TypeOK
    <2>2. \A k \in Job : event'[k] # NoEvent <=> event'[k].pc # "none"
      BY <1>1, <1>5, Zenon DEF TypeOK
    <2>3. \A k \in Job : loop'[k].pc \in {"get", "stamp", "save"} => loop'[k].then \in {"exec", "select", "fail"}
      BY <1>1, <1>6, Zenon DEF TypeOK
    <2> QED
      BY <1>3, <1>5, <1>6, <1>8, <2>1, <2>2, <2>3, Zenon DEF TypeOK
  <1>10. JobInv(j)'
    <2>1. PendingIsIdle(j)'
      BY Zenon, <1>1 DEF JobInv, PendingIsIdle
    <2>2. OneWorker(j)'
      <3>1. \A w \in Worker : Executes(w, j)' => Executes(w, j)
        BY <1>3, Zenon DEF Executes
      <3> QED
        BY <1>1, <3>1, Zenon DEF JobInv, OneWorker
    <2>3. WorkerInv(j)'
      <3>1. CASE p.type = "trigger"
        <4>1. p.by \in Worker /\ worker[p.by].job = j /\ worker[p.by].pc = "trigger"
          BY Zenon, <1>1, <1>2, <3>1, ClientPushesNoTrigger DEF PushedBy, LoopEvent
        <4>2. \A w \in Worker : Executes(w, j) => w = p.by
          BY Zenon, <1>1, <4>1 DEF JobInv, OneWorker, Executes
        <4> QED
          BY Zenon, <1>3, <4>1, <4>2 DEF WorkerInv, Executes
      <3>2. CASE p.type # "trigger"
        <4>1. run[j].fsm \in {"initializing", "canceled"} => p.type = "cancel"
          BY Zenon, <1>2, EdgeFacts
        <4>2. loop[j].pc = "none" /\ p.type = "cancel" => loop'[j] = loop[j]
          BY Zenon, <1>2, <1>6 DEF LoopEvent
        <4> QED
          <5>1. WorkerInv(j) /\ event[j].pc # "none" /\ event[j].type # "trigger" /\ run[j].fsm # "none"
            BY <1>1, <1>2, <3>2, EdgeFacts, Zenon DEF JobInv
          <5>2. \A w \in Worker : worker'[w] = worker[w]
            BY <1>3, <3>2, Zenon
          <5>3. ASSUME NEW w \in Worker, worker[w].job = j
                PROVE  /\ worker[w].pc \notin {"setup", "error", "get", "save"}
                       /\ worker[w].pc \in {"wait", "trigger"} =>
                            loop[j].pc = "none" /\ ~run[j].started /\ run[j].fsm \in {"initializing", "canceled"}
            BY <5>1, <5>3, Zenon DEF WorkerInv
          <5>4. ASSUME NEW w \in Worker, worker[w].job = j, worker[w].pc \in {"wait", "trigger"}
                PROVE  loop'[j].pc = "none" /\ ~run'[j].started /\ run'[j].fsm \in {"initializing", "canceled"}
            BY <1>7, <1>8, <4>1, <4>2, <5>3, <5>4, Zenon
          <5> QED
            BY <5>2, <5>3, <5>4, Zenon DEF WorkerInv
      <3> QED
        BY Zenon, <3>1, <3>2
    <2>4. EventInv(j)' /\ FlowInv(j)' /\ SucceedInv(j)' /\ SaveIsNotPending(j)'
      BY <1>1, <1>5, <1>6, <1>7, <1>8, Zenon DEF JobInv, EventInv, FlowInv, SucceedInv, SaveIsNotPending
    <2>5. LoopInv(j)'
      <3>1. /\ p.type \in {"trigger", "resume"} => loop[j].pc = "none" /\ run[j].started
            /\ p.type = "fail" => run[j].fsm = "failed"
            /\ p.type = "finish" => run[j].fsm = "succeed"
            /\ run[j].fsm # "none" /\ run[j].status = run[j].fsm
        BY Zenon, <1>1, <1>2, EdgeFacts DEF JobInv, EventInv
      <3>2. CASE p.type \in {"trigger", "resume"}
        <4>1. /\ loop'[j].pc = "begin" /\ run'[j].started /\ run'[j].status = "running"
              /\ run'[j].fsm = run[j].fsm /\ run'[j].wasPaused = run[j].wasPaused
              /\ run'[j].crt = run[j].crt /\ run'[j].isFinished = run[j].isFinished
          BY <1>2, <1>6, <1>7, <1>8, <3>1, <3>2, EdgeFacts
        <4>2. run[j].fsm \in {"none", "initializing", "running"} /\ ~run[j].wasPaused => ~(run[j].isFinished /\ run[j].crt # End)
          BY <1>1, <3>1, <3>2, Zenon DEF JobInv, LoopInv
        <4> QED
          BY <4>1, <4>2, Zenon DEF LoopInv
      <3>3. CASE p.type \notin {"trigger", "resume"} /\ p.by # j
        BY ZenonT(60), <1>1, <1>6, <1>7, <1>8, <3>3 DEF JobInv, LoopInv
      <3>4. CASE p.type \notin {"trigger", "resume"} /\ p.by = j
        BY Zenon, <1>1, <1>6, <1>7, <1>8, <3>1, <3>4 DEF JobInv, LoopInv, LoopEvent
      <3> QED
        BY Zenon, <3>2, <3>3, <3>4
    <2>6. RecordInv(j)'
      BY Zenon, <1>1, <1>5, <1>7, <1>8 DEF JobInv, RecordInv
    <2> QED
      BY Zenon, <2>1, <2>2, <2>3, <2>4, <2>5, <2>6 DEF JobInv
  <1>11. \A k \in Job \ {j} : JobInv(k)'
    BY ZenonT(60), <1>1, <1>3, <1>5, <1>6, <1>8, OtherJob DEF IInv
  <1> QED
    BY Zenon, <1>9, <1>10, <1>11 DEF IInv

----------------------------------------------------------------------------
(* triggerFlow and its tasks. *)

\* A step of the goroutine that pushes no event changes nothing that events,
\* workers and other jobs depend on.
LEMMA LoopStepIInv ==
    ASSUME IInv, TypeOK', NEW j \in Job,
           loop[j].pc \notin LoopEvent, loop[j].pc # "none",
           UNCHANGED <<event, worker, client>>,
           \A k \in Job \ {j} : row'[k] = row[k] /\ run'[k] = run[k] /\ loop'[k] = loop[k],
           row'[j] = row[j] \/ row'[j].status \notin Pending,
           run'[j].fsm = run[j].fsm, run'[j].status = run[j].status, run'[j].wasPaused = run[j].wasPaused,
           run'[j].started = run[j].started \/ ~run'[j].started,
           faults' = 0 => faults = 0,
           SaveIsNotPending(j)', LoopInv(j)', SucceedInv(j)', RecordInv(j)'
    PROVE  IInv'
  <1>1. JobInv(j)
    BY Zenon DEF IInv
  <1>2. PendingIsIdle(j)'
    BY Zenon, <1>1 DEF JobInv, PendingIsIdle
  <1>3. OneWorker(j)'
    BY Zenon, <1>1 DEF JobInv, OneWorker, Executes
  <1>4. WorkerInv(j)'
    BY Zenon, <1>1 DEF JobInv, WorkerInv, LoopInv
  <1>5. EventInv(j)'
    BY Zenon, <1>1 DEF JobInv, EventInv, PushedBy
  <1>6. FlowInv(j)'
    BY Zenon, <1>1 DEF JobInv, FlowInv
  <1>7. \A k \in Job \ {j} : JobInv(k)'
    BY Zenon, OtherJob DEF IInv
  <1> QED
    BY Zenon, <1>2, <1>3, <1>4, <1>5, <1>6, <1>7 DEF IInv, JobInv

\* The goroutine goes on to pc.
LEMMA LoopGoesFacts ==
    ASSUME TypeOK, NEW j \in Job, NEW pc \in LoopPc, pc \notin {"none", "get", "stamp", "save"}, LoopGoes(j, pc)
    PROVE  /\ loop' \in [Job -> LoopRec]
           /\ loop'[j].pc = pc /\ \A k \in Job \ {j} : loop'[k] = loop[k]
           /\ \A k \in Job : loop'[k] # NoLoop <=> loop'[k].pc # "none"
           /\ \A k \in Job : loop'[k].pc \in {"get", "stamp", "save"} => loop'[k].then \in {"exec", "select", "fail"}
  <1> DEFINE l == [loop[j] EXCEPT !.pc = pc]
  <1>1. loop' = [loop EXCEPT ![j] = l]
    BY Zenon DEF LoopGoes
  <1>2. l \in LoopRec /\ l.pc = pc
    BY Zenon DEF TypeOK, LoopRec
  <1> HIDE DEF l
  <1> QED
    BY Zenon, <1>1, <1>2, RowTypes DEF TypeOK

\* The goroutine reports the status of its task.
LEMMA ReportFacts ==
    ASSUME TypeOK, NEW j \in Job, NEW then \in {"exec", "select", "fail"},
           run[j].crt \in Node, Report(j, then)
    PROVE  /\ loop' \in [Job -> LoopRec]
           /\ loop'[j].pc = "get" /\ loop'[j].then = then /\ \A k \in Job \ {j} : loop'[k] = loop[k]
           /\ \A k \in Job : loop'[k] # NoLoop <=> loop'[k].pc # "none"
           /\ \A k \in Job : loop'[k].pc \in {"get", "stamp", "save"} => loop'[k].then \in {"exec", "select", "fail"}
  <1> DEFINE l == [pc |-> "get", then |-> then, node |-> run[j].crt, copy |-> NoRow]
  <1>1. loop' = [loop EXCEPT ![j] = l]
    BY Zenon DEF Report
  <1>2. l \in LoopRec /\ l.pc = "get" /\ l.then = then
    BY Zenon, RowTypes DEF TypeOK, LoopRec, LoopPc, LoopEvent, RunType
  <1> HIDE DEF l
  <1> QED
    BY Zenon, <1>1, <1>2, RowTypes DEF TypeOK

\* triggerFlow begins with a new context.
LEMMA BeginIInv ==
    ASSUME IInv, NEW j \in Job, Begin(j)
    PROVE  IInv'
  <1> DEFINE r == [run[j] EXCEPT !.shotDone = FALSE]
  <1>1. /\ TypeOK /\ JobInv(j) /\ loop[j].pc = "begin"
        /\ UNCHANGED <<row, runners, event, worker, client, requests, faults>>
    BY Zenon DEF IInv, Begin
  <1>2. /\ loop' \in [Job -> LoopRec]
        /\ loop'[j].pc = "select" /\ \A k \in Job \ {j} : loop'[k] = loop[k]
        /\ \A k \in Job : loop'[k] # NoLoop <=> loop'[k].pc # "none"
        /\ \A k \in Job : loop'[k].pc \in {"get", "stamp", "save"} => loop'[k].then \in {"exec", "select", "fail"}
    BY Zenon, <1>1, LoopGoesFacts DEF Begin, LoopPc
  <1>3. /\ r \in RunType /\ r.fsm = run[j].fsm /\ r.status = run[j].status /\ r.started = run[j].started
        /\ r.wasPaused = run[j].wasPaused /\ r.crt = run[j].crt /\ r.isFinished = run[j].isFinished
    BY <1>1, ZenonT(60) DEF TypeOK, RunType
  <1>4. run' = [run EXCEPT ![j] = r]
    BY Zenon DEF Begin
  <1> HIDE DEF r
  <1>5. run' \in [Job -> RunType] /\ run'[j] = r /\ \A k \in Job \ {j} : run'[k] = run[k]
    BY Zenon, <1>1, <1>3, <1>4 DEF TypeOK
  <1>6. TypeOK'
    BY Zenon, <1>1, <1>2, <1>5 DEF TypeOK
  <1>7. SaveIsNotPending(j)' /\ LoopInv(j)' /\ SucceedInv(j)' /\ RecordInv(j)'
    BY Zenon, <1>1, <1>2, <1>3, <1>5 DEF JobInv, SaveIsNotPending, LoopInv, SucceedInv, RecordInv
  <1> QED
    BY Zenon, <1>1, <1>2, <1>3, <1>5, <1>6, <1>7, LoopStepIInv DEF LoopEvent

\* triggerFlow looks at the status of the flow.
LEMMA SelectIInv ==
    ASSUME IInv, NEW j \in Job, Select(j)
    PROVE  IInv'
  <1>1. /\ TypeOK /\ JobInv(j) /\ loop[j].pc = "select"
        /\ UNCHANGED <<row, runners, run, event, worker, client, requests, faults>>
    BY Zenon DEF IInv, Select
  <1>2. PICK pc \in {"batch", "paused", "return"} : LoopGoes(j, pc) /\ (pc = "batch" => run[j].status = "running")
                                                     /\ (pc = "paused" => run[j].status = "pausing")
    BY Zenon DEF Select
  <1>3. /\ loop' \in [Job -> LoopRec]
        /\ loop'[j].pc = pc /\ \A k \in Job \ {j} : loop'[k] = loop[k]
        /\ \A k \in Job : loop'[k] # NoLoop <=> loop'[k].pc # "none"
        /\ \A k \in Job : loop'[k].pc \in {"get", "stamp", "save"} => loop'[k].then \in {"exec", "select", "fail"}
    BY Zenon, <1>1, <1>2, LoopGoesFacts DEF LoopPc, LoopEvent
  <1>4. TypeOK'
    BY Zenon, <1>1, <1>3 DEF TypeOK
  <1>5. SaveIsNotPending(j)' /\ LoopInv(j)' /\ SucceedInv(j)' /\ RecordInv(j)'
    BY Zenon, <1>1, <1>2, <1>3 DEF JobInv, SaveIsNotPending, LoopInv, SucceedInv, RecordInv
  <1> QED
    BY Zenon, <1>1, <1>3, <1>4, <1>5, LoopStepIInv DEF LoopEvent
\* The coordinator has no node left only after a last node, or after a failure
\* that is reported.
LEMMA NextBatchIInv ==
    ASSUME IInv, NEW j \in Job, NextBatch(j)
    PROVE  IInv'
  <1> DEFINE fin == Ended(run[j])
             r == [run[j] EXCEPT !.isFinished = fin]
  <1>1. /\ TypeOK /\ JobInv(j) /\ loop[j].pc = "batch"
        /\ UNCHANGED <<row, runners, event, worker, client, requests, faults>>
    BY Zenon DEF IInv, NextBatch
  <1>2. PICK pc \in {"task", "pause", "return", "finish"} :
           LoopGoes(j, pc) /\ (pc = "task" => run[j].crt # End) /\ (pc = "finish" => fin)
    BY Zenon DEF NextBatch
  <1>3. /\ loop' \in [Job -> LoopRec]
        /\ loop'[j].pc = pc /\ \A k \in Job \ {j} : loop'[k] = loop[k]
        /\ \A k \in Job : loop'[k] # NoLoop <=> loop'[k].pc # "none"
        /\ \A k \in Job : loop'[k].pc \in {"get", "stamp", "save"} => loop'[k].then \in {"exec", "select", "fail"}
    BY Zenon, <1>1, <1>2, LoopGoesFacts DEF LoopPc, LoopEvent
  <1>4. run' = [run EXCEPT ![j] = r]
    BY Zenon DEF NextBatch
  <1>5. fin \in BOOLEAN /\ (fin <=> run[j].isFinished \/ run[j].crt = End)
    BY Zenon, <1>1 DEF TypeOK, RunType, Ended
  <1> HIDE DEF fin
  <1>6. /\ r \in RunType /\ r.fsm = run[j].fsm /\ r.status = run[j].status /\ r.started = run[j].started
        /\ r.wasPaused = run[j].wasPaused /\ r.crt = run[j].crt /\ r.isFinished = fin
    BY <1>1, <1>5, ZenonT(60) DEF TypeOK, RunType
  <1> HIDE DEF r
  <1>7. run' \in [Job -> RunType] /\ run'[j] = r /\ \A k \in Job \ {j} : run'[k] = run[k]
    BY Zenon, <1>1, <1>4, <1>6 DEF TypeOK
  <1>8. TypeOK'
    BY Zenon, <1>1, <1>3, <1>7 DEF TypeOK
  <1>9. LoopInv(j)'
    BY Zenon, <1>1, <1>2, <1>3, <1>5, <1>6, <1>7 DEF JobInv, LoopInv
  <1>10. SaveIsNotPending(j)' /\ SucceedInv(j)' /\ RecordInv(j)'
    BY Zenon, <1>1, <1>2, <1>3, <1>6, <1>7 DEF JobInv, SaveIsNotPending, SucceedInv, RecordInv
  <1> QED
    BY Zenon, <1>1, <1>3, <1>6, <1>7, <1>8, <1>9, <1>10, LoopStepIInv DEF LoopEvent

\* A task starts, or returns because its context is done.
LEMMA TaskStartIInv ==
    ASSUME IInv, NEW j \in Job, TaskStart(j)
    PROVE  IInv'
  <1>1. /\ TypeOK /\ JobInv(j) /\ loop[j].pc = "task" /\ run[j].crt \in Node
        /\ UNCHANGED <<row, runners, event, worker, client, requests, faults>>
    BY Zenon DEF IInv, TaskStart, JobInv, LoopInv, TypeOK, RunType
  <1>2. CASE UNCHANGED run /\ \E pc \in {"select", "exec"} : LoopGoes(j, pc)
    <2>1. PICK pc \in {"select", "exec"} : LoopGoes(j, pc)
      BY Zenon, <1>2
    <2>2. /\ loop' \in [Job -> LoopRec]
          /\ loop'[j].pc = pc /\ \A k \in Job \ {j} : loop'[k] = loop[k]
          /\ \A k \in Job : loop'[k] # NoLoop <=> loop'[k].pc # "none"
          /\ \A k \in Job : loop'[k].pc \in {"get", "stamp", "save"} => loop'[k].then \in {"exec", "select", "fail"}
      BY Zenon, <1>1, <2>1, LoopGoesFacts DEF LoopPc
    <2>3. TypeOK'
      BY Zenon, <1>1, <1>2, <2>2 DEF TypeOK
    <2>4. SaveIsNotPending(j)' /\ LoopInv(j)' /\ SucceedInv(j)' /\ RecordInv(j)'
      BY Zenon, <1>1, <1>2, <2>1, <2>2 DEF JobInv, SaveIsNotPending, LoopInv, SucceedInv, RecordInv
    <2> QED
      BY Zenon, <1>1, <1>2, <2>2, <2>3, <2>4, LoopStepIInv DEF LoopEvent
  <1>3. CASE Report(j, "exec") /\ run' = [run EXCEPT ![j].node[run[j].crt] = "running"]
    <2> DEFINE nd == [run[j].node EXCEPT ![run[j].crt] = "running"]
               r == [run[j] EXCEPT !.node = nd]
    <2>1. /\ loop' \in [Job -> LoopRec]
          /\ loop'[j].pc = "get" /\ loop'[j].then = "exec" /\ \A k \in Job \ {j} : loop'[k] = loop[k]
          /\ \A k \in Job : loop'[k] # NoLoop <=> loop'[k].pc # "none"
          /\ \A k \in Job : loop'[k].pc \in {"get", "stamp", "save"} => loop'[k].then \in {"exec", "select", "fail"}
      BY Zenon, <1>1, <1>3, ReportFacts
    <2>2. nd \in [Node -> Status]
      BY Zenon, <1>1 DEF TypeOK, RunType, Status
    <2>3. run' = [run EXCEPT ![j] = r]
      BY Zenon, <1>3
    <2> HIDE DEF nd
    <2>4. /\ r \in RunType /\ r.fsm = run[j].fsm /\ r.status = run[j].status /\ r.started = run[j].started
          /\ r.wasPaused = run[j].wasPaused /\ r.crt = run[j].crt /\ r.isFinished = run[j].isFinished
      BY <1>1, <2>2, ZenonT(60) DEF TypeOK, RunType
    <2> HIDE DEF r
    <2>5. run' \in [Job -> RunType] /\ run'[j] = r /\ \A k \in Job \ {j} : run'[k] = run[k]
      BY Zenon, <1>1, <2>3, <2>4 DEF TypeOK
    <2>6. TypeOK'
      BY Zenon, <1>1, <2>1, <2>5 DEF TypeOK
    <2>7. SaveIsNotPending(j)' /\ LoopInv(j)' /\ SucceedInv(j)' /\ RecordInv(j)'
      BY Zenon, <1>1, <2>1, <2>4, <2>5, NodeAssumption DEF JobInv, SaveIsNotPending, LoopInv, SucceedInv, RecordInv
    <2> QED
      BY Zenon, <1>1, <2>1, <2>4, <2>5, <2>6, <2>7, LoopStepIInv DEF LoopEvent
  <1> QED
    BY Zenon, <1>2, <1>3 DEF TaskStart

\* A task succeeds, and the coordinator moves on.
LEMMA TaskSucceedIInv ==
    ASSUME IInv, NEW j \in Job, TaskSucceed(j)
    PROVE  IInv'
  <1>1. /\ TypeOK /\ JobInv(j) /\ loop[j].pc = "exec" /\ run[j].crt \in Node
        /\ UNCHANGED <<row, runners, event, worker, client, requests, faults>>
    BY Zenon DEF IInv, TaskSucceed, JobInv, LoopInv, TypeOK, RunType
  <1>2. PICK next \in NextOf(run[j].crt) :
           run' = [run EXCEPT ![j].node[run[j].crt] = "succeed", ![j].crt = next]
    BY Zenon DEF TaskSucceed
  <1> DEFINE nd == [run[j].node EXCEPT ![run[j].crt] = "succeed"]
             r == [run[j] EXCEPT !.node = nd, !.crt = next]
  <1>3. next \in Node \cup {End}
    BY Zenon, <1>1, NodeAssumption DEF NextOf
  <1>4. nd \in [Node -> Status]
    BY Zenon, <1>1 DEF TypeOK, RunType, Status, Finished
  <1>5. run' = [run EXCEPT ![j] = r]
    BY Zenon, <1>2
  <1> HIDE DEF nd
  <1>6. /\ r \in RunType /\ r.fsm = run[j].fsm /\ r.status = run[j].status /\ r.started = run[j].started
        /\ r.wasPaused = run[j].wasPaused /\ r.isFinished = run[j].isFinished
    BY <1>1, <1>3, <1>4, ZenonT(60) DEF TypeOK, RunType
  <1> HIDE DEF r
  <1>7. run' \in [Job -> RunType] /\ run'[j] = r /\ \A k \in Job \ {j} : run'[k] = run[k]
    BY Zenon, <1>1, <1>5, <1>6 DEF TypeOK
  <1>8. /\ loop' \in [Job -> LoopRec]
        /\ loop'[j].pc = "get" /\ loop'[j].then = "select" /\ \A k \in Job \ {j} : loop'[k] = loop[k]
        /\ \A k \in Job : loop'[k] # NoLoop <=> loop'[k].pc # "none"
        /\ \A k \in Job : loop'[k].pc \in {"get", "stamp", "save"} => loop'[k].then \in {"exec", "select", "fail"}
    BY Zenon, <1>1, ReportFacts DEF TaskSucceed
  <1>9. TypeOK'
    BY Zenon, <1>1, <1>7, <1>8 DEF TypeOK
  <1>10. SaveIsNotPending(j)' /\ LoopInv(j)' /\ SucceedInv(j)' /\ RecordInv(j)'
    BY Zenon, <1>1, <1>6, <1>7, <1>8, NodeAssumption DEF JobInv, SaveIsNotPending, LoopInv, SucceedInv, RecordInv
  <1> QED
    BY Zenon, <1>1, <1>6, <1>7, <1>8, <1>9, <1>10, LoopStepIInv DEF LoopEvent

\* A task fails: the coordinator is finished and the failure is on its way.
LEMMA TaskFailIInv ==
    ASSUME IInv, NEW j \in Job, TaskFail(j)
    PROVE  IInv'
  <1> DEFINE nd == [run[j].node EXCEPT ![run[j].crt] = "failed"]
             r == [run[j] EXCEPT !.node = nd, !.isFinished = TRUE]
  <1>1. /\ TypeOK /\ JobInv(j) /\ loop[j].pc = "exec" /\ run[j].crt \in Node
        /\ UNCHANGED <<row, runners, event, worker, client, requests, faults>>
    BY Zenon DEF IInv, TaskFail, JobInv, LoopInv, TypeOK, RunType
  <1>2. nd \in [Node -> Status]
    BY Zenon, <1>1 DEF TypeOK, RunType, Status, Finished
  <1>3. run' = [run EXCEPT ![j] = r]
    BY Zenon DEF TaskFail
  <1> HIDE DEF nd
  <1>4. /\ r \in RunType /\ r.fsm = run[j].fsm /\ r.status = run[j].status /\ r.started = run[j].started
        /\ r.wasPaused = run[j].wasPaused /\ r.crt = run[j].crt
    BY <1>1, <1>2, ZenonT(60) DEF TypeOK, RunType
  <1> HIDE DEF r
  <1>5. run' \in [Job -> RunType] /\ run'[j] = r /\ \A k \in Job \ {j} : run'[k] = run[k]
    BY Zenon, <1>1, <1>3, <1>4 DEF TypeOK
  <1>6. /\ loop' \in [Job -> LoopRec]
        /\ loop'[j].pc = "get" /\ loop'[j].then = "fail" /\ \A k \in Job \ {j} : loop'[k] = loop[k]
        /\ \A k \in Job : loop'[k] # NoLoop <=> loop'[k].pc # "none"
        /\ \A k \in Job : loop'[k].pc \in {"get", "stamp", "save"} => loop'[k].then \in {"exec", "select", "fail"}
    BY Zenon, <1>1, ReportFacts DEF TaskFail
  <1>7. TypeOK'
    BY Zenon, <1>1, <1>5, <1>6 DEF TypeOK
  <1>8. SaveIsNotPending(j)' /\ LoopInv(j)' /\ SucceedInv(j)' /\ RecordInv(j)'
    BY Zenon, <1>1, <1>4, <1>5, <1>6 DEF JobInv, SaveIsNotPending, LoopInv, SucceedInv, RecordInv
  <1> QED
    BY Zenon, <1>1, <1>4, <1>5, <1>6, <1>7, <1>8, LoopStepIInv DEF LoopEvent
\* A task's observer call reads the row.
LEMMA TaskGetIInv ==
    ASSUME IInv, NEW j \in Job, TaskGet(j)
    PROVE  IInv'
  <1> DEFINE l == [loop[j] EXCEPT !.pc = "stamp", !.copy = row[j]]
  <1>1. /\ TypeOK /\ JobInv(j) /\ loop[j].pc = "get" /\ loop' = [loop EXCEPT ![j] = l]
        /\ UNCHANGED <<row, runners, run, event, worker, client, requests, faults>>
    BY Zenon DEF IInv, TaskGet
  <1>2. l \in LoopRec /\ l.pc = "stamp" /\ l.then = loop[j].then
    BY <1>1, ZenonT(60) DEF TypeOK, LoopRec, LoopPc
  <1> HIDE DEF l
  <1>3. loop' \in [Job -> LoopRec] /\ loop'[j] = l /\ \A k \in Job \ {j} : loop'[k] = loop[k]
    BY Zenon, <1>1, <1>2 DEF TypeOK
  <1>4. TypeOK'
    BY Zenon, <1>1, <1>2, <1>3, RowTypes DEF TypeOK
  <1>5. SaveIsNotPending(j)' /\ LoopInv(j)' /\ SucceedInv(j)' /\ RecordInv(j)'
    BY Zenon, <1>1, <1>2, <1>3 DEF JobInv, SaveIsNotPending, LoopInv, SucceedInv, RecordInv
  <1> QED
    BY Zenon, <1>1, <1>2, <1>3, <1>4, <1>5, LoopStepIInv DEF LoopEvent

\* The copy gets the status the flow has by now, which is not pending.
LEMMA TaskStampIInv ==
    ASSUME IInv, NEW j \in Job, TaskStamp(j)
    PROVE  IInv'
  <1> DEFINE n == loop[j].node
             c0 == Stamp(loop[j].copy, run[j].status)
             nd == [c0.node EXCEPT ![n] = run[j].node[n]]
             c == [c0 EXCEPT !.node = nd]
             l == [loop[j] EXCEPT !.pc = "save", !.copy = c]
  <1>1. /\ TypeOK /\ JobInv(j) /\ loop[j].pc = "stamp" /\ loop' = [loop EXCEPT ![j] = l]
        /\ UNCHANGED <<row, runners, run, event, worker, client, requests, faults>>
    BY Zenon DEF IInv, TaskStamp
  <1>2. loop[j] \in LoopRec /\ run[j] \in RunType
    BY Zenon, <1>1 DEF TypeOK
  <1>3. c0 \in RowType /\ c0.status = run[j].status
    BY Zenon, <1>2, StampType DEF LoopRec, RunType
  <1> HIDE DEF c0
  <1>4. nd \in [Node -> Status]
    BY Zenon, <1>2, <1>3 DEF LoopRec, RunType, RowType
  <1> HIDE DEF nd
  <1>5. c \in RowType /\ c.status = run[j].status
    BY Zenon, <1>3, <1>4 DEF RowType
  <1> HIDE DEF c
  <1>6. l \in LoopRec /\ l.pc = "save" /\ l.then = loop[j].then /\ l.copy = c
    BY Zenon, <1>2, <1>5 DEF LoopRec, LoopPc
  <1> HIDE DEF l
  <1>7. loop' \in [Job -> LoopRec] /\ loop'[j] = l /\ \A k \in Job \ {j} : loop'[k] = loop[k]
    BY Zenon, <1>1, <1>6 DEF TypeOK
  <1>8. TypeOK'
    BY Zenon, <1>1, <1>6, <1>7, RowTypes DEF TypeOK
  <1>9. SaveIsNotPending(j)'
    BY Zenon, <1>1, <1>5, <1>6, <1>7 DEF JobInv, SaveIsNotPending, LoopInv, FlowInv
  <1>10. LoopInv(j)' /\ SucceedInv(j)' /\ RecordInv(j)'
    BY Zenon, <1>1, <1>6, <1>7 DEF JobInv, LoopInv, SucceedInv, RecordInv
  <1> QED
    BY Zenon, <1>1, <1>6, <1>7, <1>8, <1>9, <1>10, LoopStepIInv DEF LoopEvent

\* The copy is saved; the flow has not ended by itself before triggerFlow goes
\* on, so no record of an end is overwritten.
LEMMA TaskSaveIInv ==
    ASSUME IInv, NEW j \in Job, TaskSave(j)
    PROVE  IInv'
  <1> DEFINE l == [NoLoop EXCEPT !.pc = loop[j].then]
  <1>1. /\ TypeOK /\ JobInv(j) /\ loop[j].pc = "save" /\ loop' = [loop EXCEPT ![j] = l]
        /\ Save(j, loop[j].copy)
        /\ UNCHANGED <<run, event, worker, client, requests>>
    BY Zenon DEF IInv, TaskSave
  <1>2. loop[j] \in LoopRec /\ loop[j].then \in {"exec", "select", "fail"} /\ loop[j].copy.status \notin Pending
    BY Zenon, <1>1 DEF TypeOK, JobInv, SaveIsNotPending
  <1>3. l \in LoopRec /\ l.pc = loop[j].then
    BY Zenon, <1>2, RowTypes DEF LoopRec, LoopPc, LoopEvent
  <1> HIDE DEF l
  <1>4. loop' \in [Job -> LoopRec] /\ loop'[j] = l /\ \A k \in Job \ {j} : loop'[k] = loop[k]
    BY Zenon, <1>1, <1>3 DEF TypeOK
  <1>5. /\ row' \in [Job -> RowType] /\ faults' \in Nat
        /\ \A k \in Job \ {j} : row'[k] = row[k]
        /\ \/ row'[j] = loop[j].copy /\ faults' = faults
           \/ row'[j] = row[j] /\ faults' # 0
        /\ faults' = 0 => faults = 0
    BY Zenon, <1>1, <1>2, SaveFacts DEF LoopRec
  <1>6. TypeOK'
    BY Zenon, <1>1, <1>2, <1>3, <1>4, <1>5, RowTypes DEF TypeOK
  <1>7. SaveIsNotPending(j)' /\ LoopInv(j)' /\ SucceedInv(j)' /\ RecordInv(j)'
    BY Zenon, <1>1, <1>2, <1>3, <1>4 DEF JobInv, SaveIsNotPending, LoopInv, SucceedInv, RecordInv
  <1> QED
    BY Zenon, <1>1, <1>2, <1>4, <1>5, <1>6, <1>7, LoopStepIInv DEF LoopEvent

\* triggerFlow returns.
LEMMA LoopReturnIInv ==
    ASSUME IInv, NEW j \in Job, LoopReturn(j)
    PROVE  IInv'
  <1> DEFINE r == [run[j] EXCEPT !.shotDone = TRUE, !.started = FALSE]
  <1>1. /\ TypeOK /\ JobInv(j) /\ loop[j].pc = "return" /\ loop' = [loop EXCEPT ![j] = NoLoop]
        /\ run' = [run EXCEPT ![j] = r]
        /\ UNCHANGED <<row, runners, event, worker, client, requests, faults>>
    BY Zenon DEF IInv, LoopReturn
  <1>2. /\ r \in RunType /\ r.fsm = run[j].fsm /\ r.status = run[j].status /\ r.started = FALSE
        /\ r.wasPaused = run[j].wasPaused /\ r.crt = run[j].crt /\ r.isFinished = run[j].isFinished
    BY <1>1, ZenonT(60) DEF TypeOK, RunType
  <1> HIDE DEF r
  <1>3. run' \in [Job -> RunType] /\ run'[j] = r /\ \A k \in Job \ {j} : run'[k] = run[k]
    BY Zenon, <1>1, <1>2 DEF TypeOK
  <1>4. /\ loop' \in [Job -> LoopRec] /\ loop'[j] = NoLoop /\ loop'[j].pc = "none"
        /\ \A k \in Job \ {j} : loop'[k] = loop[k]
    BY Zenon, <1>1, RowTypes DEF TypeOK
  <1>5. TypeOK'
    BY Zenon, <1>1, <1>3, <1>4 DEF TypeOK
  <1>6. SaveIsNotPending(j)' /\ LoopInv(j)' /\ SucceedInv(j)' /\ RecordInv(j)'
    BY ZenonT(60), <1>1, <1>2, <1>3, <1>4 DEF JobInv, SaveIsNotPending, LoopInv, SucceedInv, RecordInv
  <1> QED
    BY Zenon, <1>1, <1>2, <1>3, <1>4, <1>5, <1>6, LoopStepIInv DEF LoopEvent

-----------------------------------------------------------------------------
(* The workers. *)

\* A job is created; nobody works on it.
LEMMA TriggerWorkflowIInv ==
    ASSUME IInv, NEW j \in Job, TriggerWorkflow(j)
    PROVE  IInv'
  <1> DEFINE r == [row[j] EXCEPT !.status = "initializing"]
  <1>1. /\ TypeOK /\ JobInv(j) /\ row[j].status = "none" /\ row' = [row EXCEPT ![j] = r]
        /\ UNCHANGED <<runners, run, event, loop, worker, client, requests, faults>>
    BY Zenon DEF IInv, TriggerWorkflow
  <1>2. r \in RowType /\ r.status = "initializing"
    BY Zenon, <1>1 DEF TypeOK, RowType, Status
  <1> HIDE DEF r
  <1>3. row' \in [Job -> RowType] /\ row'[j] = r /\ \A k \in Job \ {j} : row'[k] = row[k]
    BY Zenon, <1>1, <1>2 DEF TypeOK
  <1>4. TypeOK'
    BY Zenon, <1>1, <1>3 DEF TypeOK
  <1>5. JobInv(j)'
    <2>1. PendingIsIdle(j)' /\ RecordInv(j)' /\ OneWorker(j)'
      BY Zenon, <1>1, <1>2, <1>3 DEF JobInv, PendingIsIdle, RecordInv, OneWorker, Executes, Pending
    <2>2. WorkerInv(j)' /\ EventInv(j)'
      BY Zenon, <1>1 DEF JobInv, WorkerInv, EventInv, PushedBy
    <2>3. (SaveIsNotPending(j) /\ FlowInv(j) /\ LoopInv(j) /\ SucceedInv(j))'
      BY <1>1, FlowKept, SavesKept, Zenon
    <2> QED
      BY Zenon, <2>1, <2>2, <2>3 DEF JobInv
  <1>6. \A k \in Job \ {j} : JobInv(k)'
    BY Zenon, <1>1, <1>3, OtherJob DEF IInv
  <1> QED
    BY Zenon, <1>4, <1>5, <1>6 DEF IInv

\* A worker selects a pending job, which commits it to nothing.
LEMMA ClaimSelectIInv ==
    ASSUME IInv, NEW j \in Job, NEW w \in Worker, ClaimSelect(w, j)
    PROVE  IInv'
  <1> DEFINE x == [Idle EXCEPT !.pc = "claim", !.job = j]
  <1>1. /\ TypeOK /\ JobInv(j) /\ worker[w] = Idle /\ worker' = [worker EXCEPT ![w] = x]
        /\ UNCHANGED <<row, runners, run, event, loop, client, requests, faults>>
    BY Zenon DEF IInv, ClaimSelect
  <1>2. x \in WorkerRec /\ x.pc = "claim" /\ x.job = j
    BY Zenon, RowTypes DEF WorkerRec, WorkerPc
  <1> HIDE DEF x
  <1>3. worker' \in [Worker -> WorkerRec] /\ worker'[w] = x /\ \A v \in Worker \ {w} : worker'[v] = worker[v]
    BY Zenon, <1>1, <1>2 DEF TypeOK
  <1>4. worker[w].pc = "idle" /\ worker[w].job = NoJob
    BY Zenon, <1>1, RowTypes
  <1>5. TypeOK'
    BY Zenon, <1>1, <1>2, <1>3 DEF TypeOK
  <1>6. JobInv(j)'
    <2>1. PendingIsIdle(j)' /\ OneWorker(j)'
      BY Zenon, <1>1, <1>2, <1>3 DEF JobInv, PendingIsIdle, OneWorker, Executes
    <2>2. WorkerInv(j)'
      BY <1>1, <1>2, <1>3, ZenonT(60) DEF JobInv, WorkerInv
    <2>3. EventInv(j)'
      BY Zenon, <1>1, <1>2, <1>3, <1>4 DEF JobInv, EventInv, PushedBy
    <2>4. (SaveIsNotPending(j) /\ FlowInv(j) /\ LoopInv(j) /\ SucceedInv(j) /\ RecordInv(j))'
      BY <1>1, FlowKept, SavesKept, RecordKept, Zenon
    <2> QED
      BY Zenon, <2>1, <2>2, <2>3, <2>4 DEF JobInv
  <1>7. \A k \in Job \ {j} : JobInv(k)'
    BY Zenon, <1>1, <1>2, <1>3, <1>4, JobRunAssumption, OtherJob DEF IInv
  <1> QED
    BY Zenon, <1>5, <1>6, <1>7 DEF IInv

\* A worker that has not pushed its trigger goes on, and the flow is as before
\* to everybody else.
LEMMA WorkerStepIInv ==
    ASSUME IInv, TypeOK', NEW j \in Job, NEW w \in Worker,
           worker[w].job = j, worker[w].pc # "idle",
           event[j].pc # "none" => event[j].by # w,
           \A v \in Worker \ {w} : worker'[v] = worker[v],
           worker'[w].job \in {j, NoJob}, worker'[w].job = j => worker'[w].pc # "claim",
           worker[w].pc # "claim" \/ worker'[w].job = NoJob,
           UNCHANGED <<event, loop, client>>,
           \A k \in Job \ {j} : row'[k] = row[k] /\ run'[k] = run[k],
           faults' = 0 => faults = 0,
           PendingIsIdle(j)', WorkerInv(j)', FlowInv(j)', LoopInv(j)', SucceedInv(j)', RecordInv(j)',
           event[j].pc # "none" => run'[j].fsm = run[j].fsm /\ run'[j].status = run[j].status
                                   /\ run'[j].started = run[j].started
    PROVE  IInv'
  <1>1. JobInv(j)
    BY Zenon DEF IInv
  <1>2. SaveIsNotPending(j)'
    BY Zenon, <1>1 DEF JobInv, SaveIsNotPending
  <1>3. OneWorker(j)'
    <2>1. \A v \in Worker : Executes(v, j)' => Executes(v, j)
      BY JobRunAssumption, Zenon DEF Executes
    <2> QED
      BY <1>1, <2>1, Zenon DEF JobInv, OneWorker
  <1>4. EventInv(j)'
    <2>1. event[j].pc # "none" => PushedBy(j, event[j].type, event[j].by)'
      BY <1>1, ZenonT(60) DEF JobInv, EventInv, PushedBy
    <2> QED
      BY <1>1, <2>1, Zenon DEF JobInv, EventInv
  <1>5. \A k \in Job \ {j} : JobInv(k)'
    <2>1. \A k \in Job \ {j} : \A v \in Worker : worker[v].job = k \/ worker'[v].job = k => worker'[v] = worker[v]
      BY JobRunAssumption
    <2> QED
      BY <2>1, OtherJob, Zenon DEF IInv
  <1> QED
    BY Zenon, <1>2, <1>3, <1>4, <1>5 DEF IInv, JobInv

\* The conditional update succeeds for the first worker only: the row is
\* pending, so nobody executes the job.
LEMMA ClaimUpdateIInv ==
    ASSUME IInv, NEW j \in Job, NEW w \in Worker, ClaimUpdate(w, j)
    PROVE  IInv'
  <1>1. /\ TypeOK /\ JobInv(j) /\ worker[w].job = j /\ worker[w].pc = "claim" /\ worker[w] \in WorkerRec
        /\ UNCHANGED <<event, loop, client, requests, faults>>
    BY Zenon DEF IInv, ClaimUpdate, TypeOK
  <1>2. event[j].pc # "none" /\ event[j].by = w => FALSE
    BY <1>1, PusherAssumption, Zenon DEF JobInv, EventInv, PushedBy
  <1>3. CASE worker' = [worker EXCEPT ![w] = Idle] /\ UNCHANGED <<row, runners, run>>
    <2>1. worker' \in [Worker -> WorkerRec] /\ worker'[w] = Idle /\ \A v \in Worker \ {w} : worker'[v] = worker[v]
      BY Zenon, <1>1, <1>3, RowTypes DEF TypeOK
    <2>2. TypeOK'
      BY <1>1, <1>3, <2>1, RowTypes, Zenon DEF TypeOK
    <2>3. PendingIsIdle(j)'
      BY Zenon, <1>1, <1>3, <2>1, RowTypes, JobRunAssumption DEF JobInv, PendingIsIdle, Executes
    <2>4. WorkerInv(j)'
      BY <1>1, <1>3, <2>1, RowTypes, JobRunAssumption, ZenonT(60) DEF JobInv, WorkerInv
    <2>5. (FlowInv(j) /\ LoopInv(j) /\ SucceedInv(j) /\ RecordInv(j))'
      BY <1>1, <1>3, FlowKept, RecordKept, Zenon
    <2> QED
      BY <1>1, <1>2, <1>3, <2>1, <2>2, <2>3, <2>4, <2>5, RowTypes, JobRunAssumption, WorkerStepIInv, Zenon
  <1>4. CASE row[j].status = "initializing" /\ Claimed(w, j)
    <2> DEFINE r == [row[j] EXCEPT !.status = "running"]
               x == [worker[w] EXCEPT !.pc = "setup"]
               n == NewRun(row[j].node)
    <2>1. /\ row' = [row EXCEPT ![j] = r] /\ worker' = [worker EXCEPT ![w] = x]
          /\ run' = [run EXCEPT ![j] = n]
      BY Zenon, <1>4 DEF Claimed
    <2>2. r \in RowType /\ r.status = "running" /\ row[j].node \in [Node -> Status]
      BY <1>1, ZenonT(60) DEF TypeOK, RowType, Status
    <2>3. x \in WorkerRec /\ x.pc = "setup" /\ x.job = j
      BY Zenon, <1>1 DEF WorkerRec, WorkerPc
    <2>4. /\ n \in RunType /\ n.fsm = "none" /\ n.status = "initializing" /\ n.started = FALSE
          /\ n.wasPaused = FALSE /\ n.isFinished = FALSE
      BY Zenon, <2>2, RowTypes DEF NewRun
    <2> HIDE DEF r, x, n
    <2>5. /\ row' \in [Job -> RowType] /\ row'[j] = r /\ \A k \in Job \ {j} : row'[k] = row[k]
          /\ run' \in [Job -> RunType] /\ run'[j] = n /\ \A k \in Job \ {j} : run'[k] = run[k]
          /\ worker' \in [Worker -> WorkerRec] /\ worker'[w] = x /\ \A v \in Worker \ {w} : worker'[v] = worker[v]
      BY <1>1, <2>1, <2>2, <2>3, <2>4, Zenon DEF TypeOK
    <2>6. TypeOK'
      BY <1>1, <2>3, <2>5 DEF TypeOK
    <2>7. event[j].pc = "none" /\ loop[j].pc = "none" /\ \A v \in Worker : ~Executes(v, j)
      BY Zenon, <1>1, <1>4 DEF JobInv, PendingIsIdle, Pending
    <2>8. JobInv(j)'
      <3>1. PendingIsIdle(j)'
        BY Zenon, <2>2, <2>5 DEF PendingIsIdle, Pending
      <3>2. SaveIsNotPending(j)' /\ EventInv(j)'
        BY Zenon, <1>1, <2>7 DEF SaveIsNotPending, EventInv
      <3>3. OneWorker(j)'
        BY <2>3, <2>5, <2>7 DEF OneWorker, Executes
      <3>4. WorkerInv(j)'
        <4>1. \A v \in Worker : worker'[v].job = j => worker'[v].pc \in {"claim", "setup"}
          BY <2>3, <2>5, <2>7, ZenonT(60) DEF Executes
        <4>2. run'[j].fsm = "none" /\ run'[j].status = "initializing" /\ ~run'[j].started
          BY <2>4, <2>5, Zenon
        <4> QED
          BY <4>1, <4>2, Zenon DEF WorkerInv
      <3>5. FlowInv(j)' /\ SucceedInv(j)' /\ RecordInv(j)'
        BY Zenon, <2>4, <2>5 DEF FlowInv, SucceedInv, RecordInv, Finished
      <3>6. LoopInv(j)'
        BY Zenon, <1>1, <2>4, <2>5, <2>7 DEF LoopInv
      <3> QED
        BY Zenon, <3>1, <3>2, <3>3, <3>4, <3>5, <3>6 DEF JobInv
    <2>9. \A k \in Job \ {j} : JobInv(k)'
      BY Zenon, <1>1, <2>3, <2>5, OtherJob DEF IInv
    <2> QED
      BY Zenon, <2>6, <2>8, <2>9 DEF IInv
  <1> QED
    BY Zenon, <1>3, <1>4 DEF ClaimUpdate
\* A worker that has claimed its job is the only one, and the row is not pending.
LEMMA WorkerAlone ==
    ASSUME IInv, NEW j \in Job, NEW w \in Worker,
           worker[w].job = j, worker[w].pc \notin {"idle", "claim", "trigger"}
    PROVE  /\ row[j].status \notin Pending
           /\ \A v \in Worker \ {w} : worker[v].job = j => worker[v].pc = "claim"
           /\ event[j].pc # "none" => event[j].by # w
  <1>1. JobInv(j)
    BY Zenon DEF IInv
  <1> QED
    BY <1>1, PusherAssumption, ZenonT(60) DEF JobInv, PendingIsIdle, OneWorker, Executes, EventInv, PushedBy

\* A worker's step of which the row and the flow's status do not depend.
LEMMA WorkerMovesIInv ==
    ASSUME IInv, NEW j \in Job, NEW w \in Worker, NEW x \in WorkerRec,
           worker[w].job = j, worker[w].pc \notin {"idle", "claim", "trigger"},
           worker' = [worker EXCEPT ![w] = x],
           x = Idle \/ (x.job = j /\ x.pc \notin {"idle", "claim"}),
           run' \in [Job -> RunType], \A k \in Job \ {j} : run'[k] = run[k],
           UNCHANGED <<event, loop, client>>,
           row' \in [Job -> RowType], \A k \in Job \ {j} : row'[k] = row[k], row'[j].status \notin Pending,
           faults' \in Nat, faults' = 0 => faults = 0,
           event[j].pc # "none" => run'[j].fsm = run[j].fsm /\ run'[j].status = run[j].status
                                   /\ run'[j].started = run[j].started,
           worker'[w].job = j => WorkerInv(j)',
           FlowInv(j)', LoopInv(j)', SucceedInv(j)', RecordInv(j)'
    PROVE  IInv'
  <1>1. TypeOK
    BY Zenon DEF IInv
  <1>2. worker' \in [Worker -> WorkerRec] /\ worker'[w] = x /\ \A v \in Worker \ {w} : worker'[v] = worker[v]
    BY Zenon, <1>1 DEF TypeOK
  <1>3. TypeOK'
    BY <1>1, <1>2, RowTypes, Zenon DEF TypeOK
  <1>4. PendingIsIdle(j)'
    BY Zenon DEF PendingIsIdle
  <1>5. WorkerInv(j)'
    <2>1. CASE worker'[w].job = j
      BY Zenon, <2>1
    <2>2. CASE x = Idle
      <3>1. \A v \in Worker : worker'[v].job = j => worker'[v].pc = "claim"
        BY <1>2, <2>2, RowTypes, JobRunAssumption, WorkerAlone
      <3> QED
        BY <3>1, Zenon DEF WorkerInv
    <2> QED
      BY Zenon, <1>2, <2>1, <2>2
  <1> QED
    <2>1. /\ worker[w].pc # "idle" /\ worker[w].pc # "claim" /\ (event[j].pc # "none" => event[j].by # w)
          /\ worker'[w].job \in {j, NoJob} /\ (worker'[w].job = j => worker'[w].pc # "claim")
      BY <1>2, RowTypes, JobRunAssumption, WorkerAlone
    <2> QED
      BY <1>2, <1>3, <1>4, <1>5, <2>1, WorkerStepIInv, ZenonT(60)

\* Setup builds the FSM or fails.
LEMMA SetupIInv ==
    ASSUME IInv, NEW j \in Job, NEW w \in Worker, Setup(w, j)
    PROVE  IInv'
  <1>1. /\ TypeOK /\ JobInv(j) /\ worker[w].job = j /\ worker[w].pc = "setup" /\ worker[w] \in WorkerRec
        /\ run[j] \in RunType
        /\ UNCHANGED <<row, runners, event, loop, client, requests, faults>>
    BY Zenon DEF IInv, Setup, TypeOK
  <1>2. run[j].fsm = "none" /\ run[j].status = "initializing" /\ ~run[j].started
    BY Zenon, <1>1 DEF JobInv, WorkerInv
  <1>3. event[j].pc = "none" /\ loop[j].pc = "none"
    BY Zenon, <1>1, <1>2, EdgeFacts DEF JobInv, EventInv, LoopInv
  <1>4. row[j].status \notin Pending /\ \A v \in Worker \ {w} : worker[v].job = j => worker[v].pc = "claim"
    BY Zenon, <1>1, WorkerAlone
  <1>5. CASE run' = run /\ worker' = [worker EXCEPT ![w].pc = "error"]
    <2> DEFINE x == [worker[w] EXCEPT !.pc = "error"]
    <2>1. x \in WorkerRec /\ x.pc = "error" /\ x.job = j /\ worker' = [worker EXCEPT ![w] = x]
      BY Zenon, <1>1, <1>5 DEF WorkerRec, WorkerPc
    <2> HIDE DEF x
    <2>2. worker'[w] = x /\ \A v \in Worker \ {w} : worker'[v] = worker[v]
      BY Zenon, <1>1, <2>1 DEF TypeOK
    <2>3. WorkerInv(j)'
      BY <1>1, <1>2, <1>3, <1>4, <1>5, <2>1, <2>2 DEF WorkerInv
    <2>4. FlowInv(j)' /\ LoopInv(j)' /\ SucceedInv(j)' /\ RecordInv(j)'
      BY <1>1, <1>5, FlowKept, RecordKept, Zenon
    <2> QED
      BY <1>1, <1>3, <1>4, <1>5, <2>1, <2>3, <2>4, WorkerMovesIInv, ZenonT(40) DEF TypeOK
  <1>6. CASE run' = [run EXCEPT ![j].fsm = "initializing"] /\ worker' = [worker EXCEPT ![w].pc = "wait"]
    <2> DEFINE x == [worker[w] EXCEPT !.pc = "wait"]
               r == [run[j] EXCEPT !.fsm = "initializing"]
    <2>1. x \in WorkerRec /\ x.pc = "wait" /\ x.job = j /\ worker' = [worker EXCEPT ![w] = x]
      BY Zenon, <1>1, <1>6 DEF WorkerRec, WorkerPc
    <2>2. /\ r \in RunType /\ r.fsm = "initializing" /\ r.status = run[j].status /\ r.started = run[j].started
          /\ r.wasPaused = run[j].wasPaused /\ r.crt = run[j].crt /\ r.isFinished = run[j].isFinished
          /\ run' = [run EXCEPT ![j] = r]
      BY Zenon, <1>1, <1>6 DEF RunType, Status
    <2> HIDE DEF x, r
    <2>3. worker'[w] = x /\ \A v \in Worker \ {w} : worker'[v] = worker[v]
      BY Zenon, <1>1, <2>1 DEF TypeOK
    <2>4. run' \in [Job -> RunType] /\ run'[j] = r /\ \A k \in Job \ {j} : run'[k] = run[k]
      BY Zenon, <1>1, <2>2 DEF TypeOK
    <2>5. WorkerInv(j)'
      <3>1. \A v \in Worker : worker'[v].job = j => worker'[v].pc \in {"claim", "wait"}
        BY <1>4, <2>1, <2>3, Zenon
      <3>2. loop'[j].pc = "none" /\ run'[j].fsm = "initializing" /\ ~run'[j].started
        BY <1>1, <1>2, <1>3, <2>2, <2>4, Zenon
      <3> QED
        BY <3>1, <3>2, Zenon DEF WorkerInv
    <2>6. FlowInv(j)'
      BY Zenon, <1>2, <2>2, <2>4 DEF FlowInv, Finished
    <2>7. LoopInv(j)'
      BY <1>1, <1>2, <1>3, <2>2, <2>4, Zenon DEF JobInv, LoopInv
    <2>8. SucceedInv(j)' /\ RecordInv(j)'
      BY Zenon, <1>2, <2>2, <2>4 DEF SucceedInv, RecordInv
    <2> QED
      BY Zenon, <1>1, <1>3, <1>4, <2>1, <2>4, <2>5, <2>6, <2>7, <2>8, WorkerMovesIInv DEF TypeOK
  <1> QED
    BY Zenon, <1>5, <1>6 DEF Setup

\* Start returns: the worker is idle, and the context of the flow is done.
LEMMA StartReturnIInv ==
    ASSUME IInv, NEW j \in Job, NEW w \in Worker, StartReturn(w, j),
           worker[w].job = j, worker[w].pc \notin {"idle", "claim", "trigger"},
           UNCHANGED <<event, loop, client>>,
           row' \in [Job -> RowType], \A k \in Job \ {j} : row'[k] = row[k], row'[j].status \notin Pending,
           faults' \in Nat, faults' = 0 => faults = 0,
           row'[j] = row[j] \/ run[j].status \notin {"succeed", "failed"}
    PROVE  IInv'
  <1> DEFINE r == [run[j] EXCEPT !.done = TRUE]
  <1>1. TypeOK /\ JobInv(j) /\ run[j] \in RunType
    BY Zenon DEF IInv, TypeOK
  <1>2. worker' = [worker EXCEPT ![w] = Idle] /\ run' = [run EXCEPT ![j] = r]
    BY Zenon DEF StartReturn
  <1>3. /\ r \in RunType /\ r.fsm = run[j].fsm /\ r.status = run[j].status /\ r.started = run[j].started
        /\ r.wasPaused = run[j].wasPaused /\ r.crt = run[j].crt /\ r.isFinished = run[j].isFinished
    BY Zenon, <1>1 DEF RunType
  <1> HIDE DEF r
  <1>4. run' \in [Job -> RunType] /\ run'[j] = r /\ \A k \in Job \ {j} : run'[k] = run[k]
    BY Zenon, <1>1, <1>2, <1>3 DEF TypeOK
  <1>5. FlowInv(j)' /\ LoopInv(j)' /\ SucceedInv(j)'
    BY <1>1, <1>3, <1>4, FlowKept, Zenon
  <1>6. RecordInv(j)'
    BY Zenon, <1>1, <1>3, <1>4 DEF JobInv, RecordInv
  <1>7. worker'[w].job # j
    BY Zenon, <1>1, <1>2, RowTypes, JobRunAssumption DEF TypeOK
  <1> QED
    BY <1>2, <1>3, <1>4, <1>5, <1>6, <1>7, RowTypes, WorkerMovesIInv, Zenon

\* Start pushes its trigger, or returns because the flow is over.
LEMMA WaitingForRunningIInv ==
    ASSUME IInv, NEW j \in Job, NEW w \in Worker, WaitingForRunning(w, j)
    PROVE  IInv'
  <1>1. /\ TypeOK /\ JobInv(j) /\ worker[w].job = j /\ worker[w].pc = "wait" /\ worker[w] \in WorkerRec
        /\ UNCHANGED <<row, runners, event, loop, client, requests, faults>>
    BY Zenon DEF IInv, WaitingForRunning, TypeOK
  <1>2. row[j].status \notin Pending /\ \A v \in Worker \ {w} : worker[v].job = j => worker[v].pc = "claim"
    BY <1>1, WorkerAlone, Zenon
  <1>3. CASE StartReturn(w, j)
    BY Zenon, <1>1, <1>2, <1>3, StartReturnIInv DEF TypeOK
  <1>4. CASE run' = run /\ worker' = [worker EXCEPT ![w].pc = "trigger"]
    <2> DEFINE x == [worker[w] EXCEPT !.pc = "trigger"]
    <2>1. x \in WorkerRec /\ x.pc = "trigger" /\ x.job = j /\ worker' = [worker EXCEPT ![w] = x]
      BY Zenon, <1>1, <1>4 DEF WorkerRec, WorkerPc
    <2> HIDE DEF x
    <2>2. worker'[w] = x /\ \A v \in Worker \ {w} : worker'[v] = worker[v]
      BY Zenon, <1>1, <2>1 DEF TypeOK
    <2>3. WorkerInv(j)'
      BY <1>1, <1>2, <1>4, <2>1, <2>2 DEF JobInv, WorkerInv
    <2>4. FlowInv(j)' /\ LoopInv(j)' /\ SucceedInv(j)' /\ RecordInv(j)'
      BY <1>1, <1>4, FlowKept, RecordKept, Zenon
    <2>5. /\ run' \in [Job -> RunType] /\ row' \in [Job -> RowType] /\ faults' \in Nat
          /\ \A k \in Job \ {j} : run'[k] = run[k] /\ row'[k] = row[k]
          /\ UNCHANGED <<event, loop, client, run, row, faults>>
      BY Zenon, <1>1, <1>4 DEF TypeOK
    <2> QED
      BY <1>1, <1>2, <2>1, <2>3, <2>4, <2>5, WorkerMovesIInv, Zenon
  <1> QED
    BY Zenon, <1>3, <1>4 DEF WaitingForRunning

\* Start reports an error of a flow that never ran.
LEMMA SetErrorIInv ==
    ASSUME IInv, NEW j \in Job, NEW w \in Worker, SetError(w, j)
    PROVE  IInv'
  <1> DEFINE x == [worker[w] EXCEPT !.pc = "get"]
             r == [run[j] EXCEPT !.status = "error"]
  <1>1. /\ TypeOK /\ JobInv(j) /\ worker[w].job = j /\ worker[w].pc = "error" /\ worker[w] \in WorkerRec
        /\ run[j] \in RunType /\ worker' = [worker EXCEPT ![w] = x] /\ run' = [run EXCEPT ![j] = r]
        /\ UNCHANGED <<row, runners, event, loop, client, requests, faults>>
    BY Zenon DEF IInv, SetError, TypeOK
  <1>2. row[j].status \notin Pending /\ \A v \in Worker \ {w} : worker[v].job = j => worker[v].pc = "claim"
    BY <1>1, WorkerAlone, ZenonT(60)
  <1>3. event[j].pc = "none" /\ run[j].fsm \in {"none", "canceled"}
    BY Zenon, <1>1 DEF JobInv, WorkerInv
  <1>4. x \in WorkerRec /\ x.pc = "get" /\ x.job = j
    BY Zenon, <1>1 DEF WorkerRec, WorkerPc
  <1>5. /\ r \in RunType /\ r.fsm = run[j].fsm /\ r.status = "error" /\ r.started = run[j].started
        /\ r.wasPaused = run[j].wasPaused /\ r.crt = run[j].crt /\ r.isFinished = run[j].isFinished
    BY <1>1, Zenon DEF RunType, Status, Finished
  <1> HIDE DEF x, r
  <1>6. worker'[w] = x /\ \A v \in Worker \ {w} : worker'[v] = worker[v]
    BY Zenon, <1>1 DEF TypeOK
  <1>7. run' \in [Job -> RunType] /\ run'[j] = r /\ \A k \in Job \ {j} : run'[k] = run[k]
    BY Zenon, <1>1, <1>5 DEF TypeOK
  <1>8. WorkerInv(j)'
    <2>1. \A v \in Worker : worker'[v].job = j => worker'[v].pc \in {"claim", "get"}
      BY <1>2, <1>4, <1>6, Zenon
    <2>2. event'[j].pc = "none" /\ run'[j].fsm \in {"none", "canceled"}
      BY <1>1, <1>3, <1>5, <1>7, Zenon
    <2> QED
      BY <2>1, <2>2, Zenon DEF WorkerInv
  <1>9. FlowInv(j)'
    BY Zenon, <1>1, <1>3, <1>5, <1>7 DEF JobInv, FlowInv, Finished, Pending
  <1>10. LoopInv(j)'
    BY <1>1, <1>5, <1>7, ZenonT(60) DEF JobInv, LoopInv
  <1>11. SucceedInv(j)' /\ RecordInv(j)'
    BY Zenon, <1>5, <1>7 DEF SucceedInv, RecordInv
  <1> QED
    BY <1>1, <1>2, <1>3, <1>4, <1>7, <1>8, <1>9, <1>10, <1>11, WorkerMovesIInv, Zenon DEF TypeOK

\* The observer call for the error reads and stamps the row.
LEMMA ErrorGetIInv ==
    ASSUME IInv, NEW j \in Job, NEW w \in Worker, ErrorGet(w, j)
    PROVE  IInv'
  <1> DEFINE c == Stamp(row[j], "error")
             x == [worker[w] EXCEPT !.pc = "save", !.copy = c]
  <1>1. /\ TypeOK /\ JobInv(j) /\ worker[w].job = j /\ worker[w].pc = "get" /\ worker[w] \in WorkerRec
        /\ worker' = [worker EXCEPT ![w] = x]
        /\ UNCHANGED <<row, runners, run, event, loop, client, requests, faults>>
    BY Zenon DEF IInv, ErrorGet, TypeOK
  <1>2. c \in RowType /\ c.status \notin Pending
    BY <1>1, StampType DEF TypeOK, Status, Finished, Pending
  <1> HIDE DEF c
  <1>3. row[j].status \notin Pending /\ \A v \in Worker \ {w} : worker[v].job = j => worker[v].pc = "claim"
    BY Zenon, <1>1, WorkerAlone
  <1>4. event[j].pc = "none" /\ run[j].fsm \in {"none", "canceled"}
    BY Zenon, <1>1 DEF JobInv, WorkerInv
  <1>5. x \in WorkerRec /\ x.pc = "save" /\ x.job = j /\ x.copy = c
    BY Zenon, <1>1, <1>2 DEF WorkerRec, WorkerPc
  <1> HIDE DEF x
  <1>6. worker'[w] = x /\ \A v \in Worker \ {w} : worker'[v] = worker[v]
    BY Zenon, <1>1 DEF TypeOK
  <1>7. WorkerInv(j)'
    BY <1>1, <1>2, <1>3, <1>4, <1>5, <1>6, ZenonT(60) DEF WorkerInv
  <1>8. FlowInv(j)' /\ LoopInv(j)' /\ SucceedInv(j)' /\ RecordInv(j)'
    BY <1>1, FlowKept, RecordKept, Zenon
  <1> QED
    BY <1>1, <1>3, <1>4, <1>5, <1>7, <1>8, WorkerMovesIInv, Zenon DEF TypeOK

\* It saves the row; the flow had not ended by itself.
LEMMA ErrorSaveIInv ==
    ASSUME IInv, NEW j \in Job, NEW w \in Worker, ErrorSave(w, j)
    PROVE  IInv'
  <1>1. /\ TypeOK /\ JobInv(j) /\ worker[w].job = j /\ worker[w].pc = "save"
        /\ worker[w].copy \in RowType /\ Save(j, worker[w].copy) /\ StartReturn(w, j)
        /\ UNCHANGED <<event, loop, client, requests>>
    BY Zenon DEF IInv, ErrorSave, TypeOK, WorkerRec
  <1>2. row[j].status \notin Pending
    BY Zenon, <1>1, WorkerAlone
  <1>3. worker[w].copy.status \notin Pending /\ run[j].fsm \in {"none", "canceled"}
    BY Zenon, <1>1 DEF JobInv, WorkerInv
  <1>4. run[j].status \notin {"succeed", "failed"}
    BY Zenon, <1>1, <1>3 DEF JobInv, FlowInv, Finished
  <1>5. /\ row' \in [Job -> RowType] /\ faults' \in Nat /\ \A k \in Job \ {j} : row'[k] = row[k]
        /\ row'[j] \in {worker[w].copy, row[j]} /\ (faults' = 0 => faults = 0)
    BY Zenon, <1>1, SaveFacts
  <1> QED
    BY Zenon, <1>1, <1>2, <1>3, <1>4, <1>5, StartReturnIInv

\* Start returns when the flow has been closed.
LEMMA StoppedIInv ==
    ASSUME IInv, NEW j \in Job, NEW w \in Worker, Stopped(w, j)
    PROVE  IInv'
  <1>1. /\ TypeOK /\ worker[w].job = j /\ worker[w].pc = "stop" /\ StartReturn(w, j)
        /\ UNCHANGED <<row, runners, event, loop, client, requests, faults>>
    BY Zenon DEF IInv, Stopped
  <1>2. row[j].status \notin Pending
    BY Zenon, <1>1, WorkerAlone
  <1> QED
    BY Zenon, <1>1, <1>2, StartReturnIInv DEF TypeOK

----------------------------------------------------------------------------
(* Requests, time and restarts. *)

\* A client that is not pushing is no concern of any job.
LEMMA ClientStepIInv ==
    ASSUME IInv, NEW c \in Client, NEW x \in ClientRec, client[c].pc # "push",
           x.pc # "idle" => x.op # "none",
           client' = [client EXCEPT ![c] = x],
           UNCHANGED <<row, run, event, loop, worker, faults>>
    PROVE  IInv'
  <1>1. TypeOK
    BY Zenon DEF IInv
  <1>2. /\ client' \in [Client -> ClientRec] /\ client'[c] = x
        /\ \A d \in Client \ {c} : client'[d] = client[d]
    BY Zenon, <1>1 DEF TypeOK
  <1>3. TypeOK'
    BY Zenon, <1>1, <1>2 DEF TypeOK
  <1>4. ASSUME NEW j \in Job
        PROVE  JobInv(j)'
    <2>1. JobInv(j)
      BY Zenon DEF IInv
    <2>2. PendingIsIdle(j)' /\ OneWorker(j)'
      BY Zenon, <2>1 DEF JobInv, PendingIsIdle, OneWorker, Executes
    <2>3. WorkerInv(j)'
      BY Zenon, <2>1 DEF JobInv, WorkerInv
    <2>4. EventInv(j)'
      BY Zenon, <1>2, <2>1 DEF JobInv, EventInv, PushedBy
    <2>5. (SaveIsNotPending(j) /\ FlowInv(j) /\ LoopInv(j) /\ SucceedInv(j) /\ RecordInv(j))'
      BY <2>1, FlowKept, SavesKept, RecordKept, Zenon
    <2> QED
      BY Zenon, <2>2, <2>3, <2>4, <2>5 DEF JobInv
  <1> QED
    BY Zenon, <1>3, <1>4 DEF IInv

\* A request passes the manager's check.
LEMMA RequestIInv ==
    ASSUME IInv, NEW j \in Job, NEW c \in Client, NEW op \in {"pause", "resume", "cancel"}, Request(c, j, op)
    PROVE  IInv'
  <1> DEFINE x == [pc |-> "runner", job |-> j, op |-> op, copy |-> NoRow]
  <1>1. x \in ClientRec /\ x.op # "none"
    BY Zenon, RowTypes DEF ClientRec
  <1>2. client[c].pc # "push" /\ client' = [client EXCEPT ![c] = x]
        /\ UNCHANGED <<row, run, event, loop, worker, faults>>
    BY Zenon, RowTypes DEF Request
  <1> HIDE DEF x
  <1> QED
    BY Zenon, <1>1, <1>2, ClientStepIInv

\* The request finds the Runner, or fails.
LEMMA CallRunnerIInv ==
    ASSUME IInv, NEW j \in Job, NEW c \in Client, CallRunner(c, j)
    PROVE  IInv'
  <1> DEFINE y == [client[c] EXCEPT !.pc = "push"]
  <1>1. /\ client[c].pc = "runner" /\ client[c] \in ClientRec /\ client[c].op # "none"
        /\ UNCHANGED <<row, run, event, loop, worker, faults>>
    BY Zenon DEF IInv, TypeOK, CallRunner
  <1>2. y \in ClientRec /\ y.op # "none"
    BY Zenon, <1>1 DEF ClientRec
  <1>3. client' = [client EXCEPT ![c] = y] \/ client' = [client EXCEPT ![c] = Idle]
    BY Zenon DEF CallRunner
  <1> HIDE DEF y
  <1> QED
    BY Zenon, <1>1, <1>2, <1>3, RowTypes, ClientStepIInv

\* The context of the job times out.
LEMMA TimeoutIInv ==
    ASSUME IInv, NEW j \in Job, Timeout(j)
    PROVE  IInv'
  <1> DEFINE r == [run[j] EXCEPT !.done = TRUE]
  <1>1. /\ TypeOK /\ JobInv(j) /\ run[j] \in RunType /\ run' = [run EXCEPT ![j] = r]
        /\ UNCHANGED <<row, runners, event, loop, worker, client, requests, faults>>
    BY Zenon DEF IInv, TypeOK, Timeout
  <1>2. /\ r \in RunType /\ r.fsm = run[j].fsm /\ r.status = run[j].status /\ r.started = run[j].started
        /\ r.wasPaused = run[j].wasPaused /\ r.crt = run[j].crt /\ r.isFinished = run[j].isFinished
    BY Zenon, <1>1 DEF RunType
  <1> HIDE DEF r
  <1>3. run' \in [Job -> RunType] /\ run'[j] = r /\ \A k \in Job \ {j} : run'[k] = run[k]
    BY Zenon, <1>1, <1>2 DEF TypeOK
  <1>4. TypeOK'
    BY Zenon, <1>1, <1>3 DEF TypeOK
  <1>5. JobInv(j)'
    <2>1. PendingIsIdle(j)' /\ OneWorker(j)'
      BY Zenon, <1>1, <1>2, <1>3 DEF JobInv, PendingIsIdle, OneWorker, Executes
    <2>2. WorkerInv(j)'
      BY Zenon, <1>1, <1>2, <1>3 DEF JobInv, WorkerInv
    <2>3. EventInv(j)'
      BY Zenon, <1>1, <1>2, <1>3 DEF JobInv, EventInv, PushedBy
    <2>4. (FlowInv(j) /\ LoopInv(j) /\ SucceedInv(j))'
      BY <1>1, <1>2, <1>3, FlowKept, Zenon
    <2>5. SaveIsNotPending(j)' /\ RecordInv(j)'
      BY Zenon, <1>1, <1>2, <1>3 DEF JobInv, SaveIsNotPending, RecordInv
    <2> QED
      BY <2>1, <2>2, <2>3, <2>4, <2>5, Zenon DEF JobInv
  <1>6. \A k \in Job \ {j} : JobInv(k)'
    BY Zenon, <1>1, <1>3, OtherJob DEF IInv
  <1> QED
    BY Zenon, <1>4, <1>5, <1>6 DEF IInv

\* Nothing runs, for any job: Init, and the state a restart makes.
Blank ==
    /\ row \in [Job -> RowType] /\ faults \in Nat
    /\ run = [j \in Job |-> NewRun(NoRow.node)]
    /\ event = [j \in Job |-> NoEvent]
    /\ loop = [j \in Job |-> NoLoop]
    /\ worker = [w \in Worker |-> Idle]
    /\ client = [c \in Client |-> Idle]

\* The invariant holds when nothing runs, whatever is in the table.
LEMMA BlankIInv == Blank => IInv
  <1> SUFFICES ASSUME Blank PROVE IInv
    BY Zenon
  <1> DEFINE r == NewRun(NoRow.node)
  <1>1. /\ r \in RunType /\ r.fsm = "none" /\ r.status = "initializing" /\ r.started = FALSE
        /\ r.wasPaused = FALSE /\ r.isFinished = FALSE
    BY Zenon, RowTypes DEF RowType, NoRow, NewRun
  <1> HIDE DEF r
  <1>2. /\ \A j \in Job : run[j] = r /\ event[j] = NoEvent /\ loop[j] = NoLoop
        /\ \A w \in Worker : worker[w] = Idle
        /\ \A c \in Client : client[c] = Idle
    BY Zenon DEF Blank, r
  <1>3. TypeOK
    BY Zenon, <1>1, <1>2, RowTypes DEF TypeOK, Blank, r
  <1>4. ASSUME NEW j \in Job
        PROVE  JobInv(j)
    <2>1. /\ run[j] = r /\ event[j].pc = "none" /\ loop[j].pc = "none"
          /\ \A w \in Worker : worker[w].job # j
      BY Zenon, <1>2, RowTypes, JobRunAssumption
    <2>2. PendingIsIdle(j) /\ OneWorker(j) /\ WorkerInv(j)
      BY Zenon, <1>1, <2>1 DEF PendingIsIdle, OneWorker, WorkerInv, Executes
    <2>3. SaveIsNotPending(j) /\ EventInv(j) /\ FlowInv(j)
      BY Zenon, <1>1, <2>1 DEF SaveIsNotPending, EventInv, FlowInv, Finished
    <2>4. LoopInv(j) /\ SucceedInv(j) /\ RecordInv(j)
      BY Zenon, <1>1, <2>1 DEF LoopInv, SucceedInv, RecordInv
    <2> QED
      BY Zenon, <2>2, <2>3, <2>4 DEF JobInv
  <1> QED
    BY Zenon, <1>3, <1>4 DEF IInv

\* It holds at the beginning ...
LEMMA InitIInv ==
    ASSUME Init
    PROVE  IInv
  <1>1. Blank
    BY Zenon, RowTypes DEF Init, Blank
  <1> QED
    BY Zenon, <1>1, BlankIInv

\* ... and after a restart.
LEMMA RestartIInv ==
    ASSUME IInv, Restart
    PROVE  IInv'
  <1>1. row \in [Job -> RowType] /\ faults \in Nat
    BY Zenon DEF IInv, TypeOK
  <1>2. ASSUME NEW j \in Job
        PROVE  Recovered(row[j]) \in RowType
    BY Zenon, <1>1 DEF Recovered, RowType, Status
  <1>3. row' \in [Job -> RowType] /\ faults' \in Nat
    BY <1>1, <1>2 DEF Restart, Fault
  <1>4. Blank'
    BY Zenon, <1>3 DEF Restart, Blank
  <1> QED
    BY <1>4, BlankIInv, PTL

-----------------------------------------------------------------------------

\* Every step keeps it.
LEMMA NextIInv ==
    ASSUME IInv, [Next]_vars
    PROVE  IInv'
  <1>1. CASE Restart
    BY Zenon, <1>1, RestartIInv
  <1>2. ASSUME NEW j \in Job, TriggerWorkflow(j) \/ Event(j) \/ Timeout(j)
        PROVE  IInv'
    BY <1>2, TriggerWorkflowIInv, EventGetIInv, EventSaveIInv, EventEndIInv, TimeoutIInv, Zenon DEF Event
  <1>3. ASSUME NEW j \in Job, Push(j)
        PROVE  IInv'
    BY <1>3, RefuseIInv, NotAgainIInv, AcceptIInv, Zenon DEF Push
  <1>4. ASSUME NEW j \in Job, TriggerFlow(j)
        PROVE  IInv'
    BY Zenon, <1>4, BeginIInv, SelectIInv, NextBatchIInv, TaskStartIInv, TaskSucceedIInv, TaskFailIInv,
       TaskGetIInv, TaskStampIInv, TaskSaveIInv, LoopReturnIInv DEF TriggerFlow
  <1>5. ASSUME NEW j \in Job, NEW w \in Worker, ClaimSelect(w, j) \/ Work(w, j)
        PROVE  IInv'
    BY Zenon, <1>5, ClaimSelectIInv, ClaimUpdateIInv, SetupIInv, WaitingForRunningIInv, SetErrorIInv,
       ErrorGetIInv, ErrorSaveIInv, StoppedIInv DEF Work
  <1>6. ASSUME NEW j \in Job, NEW c \in Client,
               CallRunner(c, j) \/ \E op \in {"pause", "resume", "cancel"} : Request(c, j, op)
        PROVE  IInv'
    BY Zenon, <1>6, CallRunnerIInv, RequestIInv
  <1>7. CASE UNCHANGED vars
    <2>1. UNCHANGED <<row, run, event, loop, worker, client, faults>>
      BY Zenon, <1>7 DEF vars
    <2>2. TypeOK'
      BY Zenon, <2>1 DEF IInv, TypeOK
    <2>3. \A j \in Job : JobInv(j)'
      BY Zenon, <2>1, OtherJob DEF IInv
    <2> QED
      BY Zenon, <2>2, <2>3 DEF IInv
  <1> QED
    BY <1>1, <1>2, <1>3, <1>4, <1>5, <1>6, <1>7, Zenon DEF Next

\* The invariant always holds.
THEOREM Invariance == Spec => []IInv
  <1>1. Init => IInv
    BY Zenon, InitIInv
  <1>2. IInv /\ [Next]_vars => IInv'
    BY Zenon, NextIInv
  <1> QED
    BY <1>1, <1>2, PTL DEF Spec

\* At most one worker is at a job, whichever of the pcs after the claim it is
\* at (ClaimNextJob, executeJob).
THEOREM OneWorkerCorrect == Spec => []OneWorkerPerJob
  <1>1. IInv => OneWorkerPerJob
    BY Zenon DEF OneWorkerPerJob, IInv, JobInv, OneWorker
  <1> QED
    BY <1>1, Invariance, PTL

\* A flow that was never paused succeeds only after a last node has succeeded,
\* and without faults its row is the record of how it ended
\* (coordinator.NextBatch, Controller.Handle).
THEOREM EndCorrect == Spec => []EndIsTrue
  <1>1. IInv => SucceededIsDone
    BY Zenon DEF IInv, JobInv, SucceedInv, SucceededIsDone
  <1>2. IInv => EndedIsRecorded
    BY Zenon, RowTypes DEF IInv, JobInv, RecordInv, EndedIsRecorded
  <1> QED
    BY <1>1, <1>2, Invariance, PTL DEF EndIsTrue

\* No step but a restart takes a flow out of a finished status: not a request
\* accepted before, and not the worker that reports an error.
THEOREM FinishedCorrect == Spec => FinishedStaysFinished
  <1> DEFINE Stays(j) == run[j].status \in Finished => run'[j].status \in Finished \/ faults' # faults
  <1>1. ASSUME IInv, NEW j \in Job, Next
        PROVE  Stays(j)
    <2>1. run \in [Job -> RunType] /\ faults \in Nat
      BY Zenon, <1>1 DEF IInv, TypeOK
    <2>2. /\ run[j].status \in Finished => run[j].fsm \notin {"initializing", "running", "pausing", "paused"}
          /\ row[j].status = "initializing" => run[j].status = "initializing"
      BY Zenon, <1>1 DEF IInv, JobInv, FlowInv, PendingIsIdle, Pending, Finished
    <2>3. CASE Restart
      BY <2>1, <2>3 DEF Restart, Fault
    <2>4. CASE run' = run
      BY Zenon, <2>4
    <2>5. ASSUME NEW k \in Job, NEW p \in Pushes(k), NotAgain(k, p) \/ Accept(k, p)
          PROVE  Stays(j)
      <3>1. p.type \in EventType /\ run[k].fsm \in Edges[p.type].from /\ \A i \in Job \ {k} : run'[i] = run[i]
        BY <1>1, <2>1, <2>5, PushFacts, Zenon DEF IInv, NotAgain, Accept
      <3> QED
        BY Zenon, <2>2, <3>1, EdgeFacts
    <2>6. ASSUME NEW k \in Job, NEW w \in Worker, ClaimUpdate(w, k)
          PROVE  Stays(j)
      BY Zenon, <2>1, <2>2, <2>6 DEF ClaimUpdate, Claimed, Finished
    <2>7. ASSUME NEW k \in Job,
                 \/ EventEnd(k) \/ Timeout(k)
                 \/ \E w \in Worker : Setup(w, k) \/ WaitingForRunning(w, k) \/ ErrorSave(w, k) \/ Stopped(w, k)
          PROVE  Stays(j)
      <3>1. CASE EventEnd(k)
        BY <2>1, <3>1 DEF RunType, EventEnd
      <3>2. CASE Timeout(k)
        BY Zenon, <2>1, <3>2 DEF RunType, Timeout
      <3>3. ASSUME NEW w \in Worker, Setup(w, k)
            PROVE  Stays(j)
        <4>1. run' = run \/ run' = [run EXCEPT ![k].fsm = "initializing"]
          BY Zenon, <3>3 DEF Setup
        <4>2. CASE run' = [run EXCEPT ![k].fsm = "initializing"]
          BY Zenon, <2>1, <4>2 DEF RunType
        <4> QED
          BY Zenon, <2>4, <4>1, <4>2
      <3>4. ASSUME NEW w \in Worker, StartReturn(w, k)
            PROVE  Stays(j)
        BY Zenon, <2>1, <3>4 DEF RunType, StartReturn
      <3>5. ASSUME NEW w \in Worker, WaitingForRunning(w, k), run' # run
            PROVE  StartReturn(w, k)
        BY Zenon, <3>5 DEF WaitingForRunning
      <3>6. ASSUME NEW w \in Worker, ErrorSave(w, k) \/ Stopped(w, k)
            PROVE  StartReturn(w, k)
        BY Zenon, <3>6 DEF ErrorSave, Stopped
      <3> HIDE DEF Stays
      <3> QED
        BY <2>4, <2>7, <3>1, <3>2, <3>3, <3>4, <3>5, <3>6, Zenon
    <2>8. ASSUME NEW k \in Job,
                 \/ Begin(k) \/ NextBatch(k) \/ TaskStart(k) \/ TaskSucceed(k) \/ TaskFail(k) \/ LoopReturn(k)
          PROVE  Stays(j)
      <3>1. CASE Begin(k)
        BY Zenon, <2>1, <3>1 DEF RunType, Begin
      <3>6. CASE LoopReturn(k)
        BY <2>1, <3>6, ZenonT(60) DEF RunType, LoopReturn
      <3>5. CASE NextBatch(k)
        <4>1. run' = [run EXCEPT ![k].isFinished = Ended(run[k])]
          BY Zenon, <3>5 DEF NextBatch
        <4> QED
          BY Zenon, <2>1, <4>1 DEF RunType
      <3>2. CASE TaskStart(k)
        BY <2>1, <3>2 DEF RunType, TaskStart
      <3>3. CASE TaskSucceed(k)
        BY <2>1, <3>3 DEF RunType, TaskSucceed
      <3>4. CASE TaskFail(k)
        BY <2>1, <3>4, Zenon DEF RunType, TaskFail
      <3> QED
        BY <2>8, <3>1, <3>2, <3>3, <3>4, <3>5, <3>6, Zenon
    <2>9. ASSUME NEW k \in Job, NEW w \in Worker, SetError(w, k)
          PROVE  Stays(j)
      BY Zenon, <2>1, <2>9 DEF RunType, SetError, Finished
    <2>10. ASSUME NEW k \in Job, TriggerWorkflow(k) \/ EventGet(k) \/ EventSave(k) \/ Select(k)
                                  \/ TaskGet(k) \/ TaskStamp(k) \/ TaskSave(k)
           PROVE  run' = run
      BY Zenon, <2>10 DEF TriggerWorkflow, EventGet, EventSave, Select, TaskGet, TaskStamp, TaskSave
    <2>11. ASSUME NEW k \in Job, NEW w \in Worker, ClaimSelect(w, k) \/ ErrorGet(w, k)
           PROVE  run' = run
      BY Zenon, <2>11 DEF ClaimSelect, ErrorGet
    <2>12. ASSUME NEW k \in Job, NEW c \in Client,
                  CallRunner(c, k) \/ \E op \in {"pause", "resume", "cancel"} : Request(c, k, op)
           PROVE  run' = run
      BY Zenon, <2>12 DEF CallRunner, Request
    <2>13. ASSUME NEW k \in Job, NEW p \in Pushes(k), Refuse(k, p)
           PROVE  run' = run
      BY Zenon, <2>13 DEF Refuse
    <2> HIDE DEF Stays
    <2>14. ASSUME NEW k \in Job, TriggerWorkflow(k) \/ Event(k) \/ Push(k) \/ TriggerFlow(k) \/ Timeout(k)
           PROVE  Stays(j)
      BY <2>4, <2>5, <2>7, <2>8, <2>10, <2>13, <2>14, Zenon DEF Event, Push, TriggerFlow
    <2>15. ASSUME NEW k \in Job, NEW w \in Worker, ClaimSelect(w, k) \/ Work(w, k)
           PROVE  Stays(j)
      BY <2>4, <2>6, <2>7, <2>9, <2>11, <2>15, Zenon DEF Work
    <2> QED
      BY <1>1, <2>3, <2>4, <2>12, <2>14, <2>15, Zenon DEF Next
  <1>2. IInv /\ [Next]_vars => [\A j \in Job : Stays(j)]_vars
    BY Zenon, <1>1
  <1> QED
    BY <1>2, Invariance, PTL DEF Spec, FinishedStaysFinished
=============================================================================
