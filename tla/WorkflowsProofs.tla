-------------------------- MODULE WorkflowsProofs --------------------------
(***************************************************************************)
(* Proofs about workflows, their triggers and their jobs, for any number   *)
(* of requests, workflows and jobs, with the timers, the handler of a      *)
(* created entry, the runner and the routine task next to them.            *)
(*                                                                         *)
(* A writer changes the row of a workflow and tells the triggers later, so *)
(* in between the two differ: the invariants say what each request has     *)
(* still to do at its place (UpdateInv, MatchInv) and that nobody else is  *)
(* at work on the same workflow, or it is in mixed.  What a timer will run *)
(* with is the last interval that was sent to it (ScheduleInv).  What the  *)
(* routine task has listed cannot change any more (CleanInv), which is why *)
(* it deletes what it saw.                                                 *)
(***************************************************************************)
EXTENDS Workflows, TLAPS

HandlerPc == {"enter", "create", "get", "insert", "control", "save", "list", "delete", "update", "send", "done"}
TimerPc == {"none", "select", "tick", "get", "save", "exit"}
JobFields == {"wf", "status", "by", "age"}
Ended == {"succeed", "failed"}

RowTyped(row) == row.trig.interval \in Nat

\* What the variables hold.
HandlersTyped ==
  /\ pc \in [Procs -> HandlerPc] /\ DOMAIN at = Procs
  /\ \A p \in Procs : DOMAIN at[p] = {"wf", "row", "send", "code"} /\ RowTyped(at[p].row) /\ at[p].send \in Nat
  /\ \A p \in Procs : Op(p) \in {"wfcreate", "wfupdate"} => req[p].trig.interval \in Nat

RowsTyped ==
  /\ DOMAIN wf \subseteq Wfs /\ \A w \in DOMAIN wf : RowTyped(wf[w])
  /\ drawn \in Nat /\ DOMAIN job \subseteq 1 .. drawn /\ \A j \in DOMAIN job : DOMAIN job[j] = JobFields

TimersTyped ==
  /\ DOMAIN trg \subseteq Wfs /\ \A w \in DOMAIN trg : trg[w].interval \in Nat
  /\ mux \in Procs \cup {Free}
  /\ DOMAIN waiter \subseteq Wfs /\ \A w \in DOMAIN waiter : waiter[w] \in Seq(Nat)
  /\ timer \in [Wfs -> [pc : TimerPc, period : Nat]]

ActorsTyped ==
  /\ DOMAIN event = {"pc", "kind", "seen", "cur", "failed", "old", "steady"} /\ event.steady \subseteq Wfs
  /\ DOMAIN runner = {"pc", "job", "rec", "row", "found"} /\ DOMAIN runner.rec = JobFields /\ RowTyped(runner.row)
  /\ runner.found => runner.rec.wf \in Wfs
  /\ DOMAIN cleaner = {"pc", "all", "list", "phase"}
  /\ removed \subseteq Wfs

WorkflowTyped == HandlersTyped /\ RowsTyped /\ TimersTyped /\ ActorsTyped

----------------------------------------------------------------------------
(* Requests and rows. *)

\* The workflow a request works on goes with its place; who waits for room in a channel
\* has the mutex.
PlaceInv(p) ==
  /\ pc[p] \in {"enter", "create", "get", "insert", "control"} => at[p].wf = ""
  /\ pc[p] \in {"save", "list", "delete", "update", "send"} => at[p].wf \in Wfs
  /\ pc[p] \in {"save", "list", "delete"} => at[p].wf = W(p)
  /\ pc[p] = "send" => mux = p /\ at[p].wf \in DOMAIN waiter

MuxInv == mux # Free => pc[mux] = "send"

\* Nobody knows the id a creation is going to draw.
FreshInv(p) ==
  (Op(p) = "wfcreate" /\ pc[p] \in {"enter", "create"}) =>
    /\ NewWf[p] \notin DOMAIN wf /\ NewWf[p] \notin removed
    /\ \A q \in Procs : at[q].wf # NewWf[p]
    /\ runner.found => runner.rec.wf # NewWf[p]

\* A request that has still to tell the triggers has just written the row, or others
\* work on the workflow, too.
UpdateInv(p) ==
  (pc[p] = "update" /\ at[p].wf \notin mixed) =>
    IF Op(p) = "wfdelete" THEN ~HasWf(at[p].wf) ELSE HasWf(at[p].wf) /\ wf[at[p].wf] = at[p].row

\* Nobody works on a workflow that was deleted.
GoneInv ==
  \A w \in removed \ mixed : ~HasWf(w) /\ \A p \in Procs : at[p].wf = w => pc[p] = "done"

\* A workflow with a trigger has a row, or a request has worked on it.
Touched(w) == \E p \in Procs : at[p].wf = w
TrgInv == \A w \in DOMAIN trg : HasWf(w) \/ Touched(w)

\* The triggers have what the row says, or will be told.
Telling(w) == \E p \in Procs : pc[p] = "update" /\ at[p].wf = w
Matches(w) ==
  /\ w \in DOMAIN trg <=> w \in Wanted
  /\ w \in DOMAIN trg => trg[w] = wf[w].trig
MatchInv == boot = "listed" => \A w \in Wfs \ mixed : Telling(w) \/ Matches(w)

RowInv == (\A p \in Procs : FreshInv(p) /\ UpdateInv(p)) /\ GoneInv /\ TrgInv /\ MatchInv

----------------------------------------------------------------------------
(* Timers. *)

TimerInv == \A w \in Wfs : w \in DOMAIN waiter <=> timer[w].pc # "none"

Sends(w) == mux # Free /\ at[mux].wf = w

\* The last interval sent to a timer: its sender still waits, it is in the channel, or
\* the timer runs with it.
LastSent(w, i) ==
  \/ Sends(w) /\ at[mux].send = i
  \/ ~Sends(w) /\ w \in DOMAIN waiter /\ waiter[w] # <<>> /\ waiter[w][Len(waiter[w])] = i
  \/ ~Sends(w) /\ w \in DOMAIN waiter /\ waiter[w] = <<>> /\ timer[w].pc # "exit" /\ timer[w].period = i

ScheduleInv ==
  \A w \in DOMAIN trg \ missed, i \in Nat :
    (trg[w].rss /\ trg[w].interval = i /\ Deref(i) > 0) => LastSent(w, i)

----------------------------------------------------------------------------
(* Jobs. *)

\* Whoever is about to delete a workflow has seen no busy job of it, or it became busy
\* since.
BusyInv(p) ==
  (Op(p) = "wfdelete" /\ pc[p] = "delete") => \A j \in JobsOf(W(p)) : job[j].status \in Active => j \in moved

\* The job a runner is about to save has not ended.
RunnerInv ==
  runner.pc \in {"read", "save"} =>
    /\ runner.job \in 1 .. drawn
    /\ runner.job \in DOMAIN job =>
         /\ job[runner.job].status \notin Ended
         /\ job[runner.job].wf = runner.rec.wf /\ job[runner.job].by = runner.rec.by

\* What the routine task has listed stays as it is, or is deleted.
CleanInv ==
  /\ \A j \in DOMAIN cleaner.all :
       /\ j \in 1 .. drawn /\ cleaner.all[j].status \in Ended
       /\ j \in DOMAIN job => job[j] = cleaner.all[j]
       /\ runner.pc \in {"read", "save"} => runner.job # j
  /\ cleaner.phase \in Ended
  /\ cleaner.pc = "list" => cleaner.list = {}
  /\ \A j \in cleaner.list : j \in DOMAIN cleaner.all /\ cleaner.all[j].status = cleaner.phase

JobInv == JobHasWorkflow /\ (\A p \in Procs : BusyInv(p)) /\ RunnerInv /\ CleanInv

----------------------------------------------------------------------------
(* The creation of an entry, and the whole. *)

\* A workflow that watches for the entry, and on which no request has worked, is in the
\* triggers as it was, and is started when its turn comes.
EventTurn(w) ==
  /\ w \in event.old /\ w \in DOMAIN trg /\ HasWf(w) /\ Matching(event, trg[w])
  /\ w \in event.seen => event.failed \/ HasEventJob(w) \/ (event.pc \in {"get", "save"} /\ event.cur = w)
  /\ event.pc = "done" => w \in event.seen

EventInv ==
  /\ event.pc \in {"new", "load"} => event.steady = {} /\ event.seen = {}
  /\ \A w \in event.steady : Touched(w) \/ EventTurn(w)

\* Nothing happens before the start.
StartInv == boot = "no" => (\A p \in Procs : pc[p] = "enter") /\ event.steady = {}

WorkflowInv ==
  /\ WorkflowTyped /\ (\A p \in Procs : PlaceInv(p)) /\ MuxInv
  /\ RowInv /\ TimerInv /\ ScheduleInv /\ JobInv /\ EventInv /\ StartInv

----------------------------------------------------------------------------
(* What is kept when the variables it is about are. *)

\* A table with one more row, or without some (the tables of the model).
LEMMA PutIs ==
    ASSUME NEW f, NEW g, NEW k, NEW v, g = Put(f, k, v)
    PROVE  DOMAIN g = DOMAIN f \cup {k} /\ g[k] = v /\ \A x \in DOMAIN f : x # k => g[x] = f[x]
  BY DEF Put

\* A row is saved (SaveWorkflow).
LEMMA SaveIs ==
    ASSUME NEW w, NEW row, SaveWorkflow(w, row)
    PROVE  /\ DOMAIN wf' = DOMAIN wf \cup {w} /\ wf'[w] = row
           /\ \A v \in DOMAIN wf : v # w => wf'[v] = wf[v]
  BY DEF SaveWorkflow, Put

\* The rows that are left.
LEMMA DropIs ==
    ASSUME NEW f, NEW g, NEW ks, g = Drop(f, ks)
    PROVE  DOMAIN g = DOMAIN f \ ks /\ \A x \in DOMAIN f \ ks : g[x] = f[x]
  BY DEF Drop

\* A workflow is deleted with its jobs (DeleteWorkflowRow).
LEMMA DeleteIs ==
    ASSUME NEW w, DeleteWorkflowRow(w)
    PROVE  /\ DOMAIN wf' = DOMAIN wf \ {w} /\ \A v \in DOMAIN wf \ {w} : wf'[v] = wf[v]
           /\ DOMAIN job' = DOMAIN job \ JobsOf(w) /\ \A j \in DOMAIN job \ JobsOf(w) : job'[j] = job[j]
  BY DEF DeleteWorkflowRow, Drop

\* A step of a handler moves one process (Goto).
LEMMA PcGoes ==
    ASSUME HandlersTyped, NEW p \in Procs, NEW l \in HandlerPc, Goto(p, l)
    PROVE  /\ pc' \in [Procs -> HandlerPc] /\ pc'[p] = l
           /\ \A q \in Procs : q # p => pc'[q] = pc[q]
  BY DEF HandlersTyped, Goto

\* A handler has noted the workflow it works on.
Noted(p, w, row) ==
  /\ DOMAIN at' = Procs
  /\ \A q \in Procs : DOMAIN at'[q] = {"wf", "row", "send", "code"} /\ RowTyped(at'[q].row) /\ at'[q].send \in Nat
  /\ at'[p].wf = w /\ at'[p].row = row
  /\ \A q \in Procs : q # p => at'[q] = at[q]

\* So it is after its assignment (CreateWorkflow, UpdateWorkflow, DeleteWorkflow).
LEMMA AtLoads ==
    ASSUME HandlersTyped, NEW p \in Procs, NEW w, NEW row, RowTyped(row),
           at' = [at EXCEPT ![p].wf = w, ![p].row = row]
    PROVE  Noted(p, w, row)
  <1>1. DOMAIN at = Procs /\ \A q \in Procs : DOMAIN at[q] = {"wf", "row", "send", "code"} /\ RowTyped(at[q].row) /\ at[q].send \in Nat
    BY Zenon DEF HandlersTyped
  <1>2. /\ DOMAIN at' = Procs /\ DOMAIN at'[p] = {"wf", "row", "send", "code"}
        /\ at'[p].wf = w /\ at'[p].row = row /\ at'[p].send = at[p].send
        /\ \A q \in Procs : q # p => at'[q] = at[q]
    BY <1>1
  <1> QED
    BY <1>1, <1>2, Zenon DEF Noted

\* A handler notes what it has to send.
LEMMA AtSends ==
    ASSUME HandlersTyped, NEW p \in Procs, NEW i \in Nat, NEW code,
           at' = [at EXCEPT ![p].send = i, ![p].code = code]
    PROVE  /\ DOMAIN at' = Procs
           /\ \A q \in Procs : DOMAIN at'[q] = {"wf", "row", "send", "code"} /\ RowTyped(at'[q].row) /\ at'[q].send \in Nat
           /\ at'[p].send = i /\ \A q \in Procs : at'[q].wf = at[q].wf /\ at'[q].row = at[q].row
  <1>1. DOMAIN at = Procs /\ \A q \in Procs : DOMAIN at[q] = {"wf", "row", "send", "code"} /\ RowTyped(at[q].row) /\ at[q].send \in Nat
    BY Zenon DEF HandlersTyped
  <1>2. /\ DOMAIN at' = Procs /\ DOMAIN at'[p] = {"wf", "row", "send", "code"}
        /\ at'[p].wf = at[p].wf /\ at'[p].row = at[p].row /\ at'[p].send = i
        /\ \A q \in Procs : q # p => at'[q] = at[q]
    BY <1>1
  <1> QED
    BY <1>1, <1>2, Zenon

\* A request that rests stays where it is.
LEMMA PlaceKept ==
    ASSUME NEW q \in Procs, PlaceInv(q), req' = req, pc'[q] = pc[q], at'[q].wf = at[q].wf,
           pc[q] = "send" => mux' = mux /\ at[q].wf \in DOMAIN waiter'
    PROVE  PlaceInv(q)'
  BY Zenon DEF PlaceInv, W

\* Only the id w becomes known.
LEMMA FreshKept ==
    ASSUME NEW q \in Procs, FreshInv(q), req' = req, NEW w,
           (Op(q) = "wfcreate" /\ pc'[q] \in {"enter", "create"}) => pc[q] \in {"enter", "create"} /\ NewWf[q] # w,
           DOMAIN wf' \subseteq DOMAIN wf \cup {w}, removed' \subseteq removed \cup {w},
           \A r \in Procs : at'[r].wf \in {at[r].wf, w},
           runner'.found => runner'.rec.wf = w \/ (runner.found /\ runner'.rec.wf = runner.rec.wf)
    PROVE  FreshInv(q)'
  <1>1. SUFFICES ASSUME Op(q) = "wfcreate", pc'[q] \in {"enter", "create"}
                 PROVE  /\ NewWf[q] \notin DOMAIN wf' /\ NewWf[q] \notin removed'
                        /\ \A r \in Procs : at'[r].wf # NewWf[q]
                        /\ runner'.found => runner'.rec.wf # NewWf[q]
    BY Zenon DEF FreshInv, Op
  <1>2. /\ NewWf[q] \notin DOMAIN wf /\ NewWf[q] \notin removed /\ NewWf[q] # w
        /\ \A r \in Procs : at[r].wf # NewWf[q]
        /\ runner.found => runner.rec.wf # NewWf[q]
    BY <1>1, Zenon DEF FreshInv
  <1> QED
    BY <1>2, Zenon

\* The row of a request that has still to tell the triggers is as it was.
LEMMA UpdateKept ==
    ASSUME NEW q \in Procs, UpdateInv(q), req' = req, pc'[q] = "update" => pc[q] = "update",
           at'[q].wf = at[q].wf, at'[q].row = at[q].row, mixed \subseteq mixed', NEW w,
           pc[q] = "update" /\ at[q].wf = w => w \in mixed',
           \A v : v # w => (v \in DOMAIN wf' <=> v \in DOMAIN wf),
           \A v \in DOMAIN wf : v # w => wf'[v] = wf[v]
    PROVE  UpdateInv(q)'
  <1>1. SUFFICES ASSUME pc'[q] = "update", at[q].wf \notin mixed'
                 PROVE  IF Op(q) = "wfdelete" THEN at[q].wf \notin DOMAIN wf'
                        ELSE at[q].wf \in DOMAIN wf' /\ wf'[at[q].wf] = at[q].row
    BY Zenon DEF UpdateInv, Op, HasWf
  <1>2. at[q].wf # w /\ IF Op(q) = "wfdelete" THEN at[q].wf \notin DOMAIN wf
                       ELSE at[q].wf \in DOMAIN wf /\ wf[at[q].wf] = at[q].row
    BY <1>1, Zenon DEF UpdateInv, HasWf
  <1> QED
    BY <1>2, Zenon

\* A step that is none of a handler, and takes no channel from one that waits.
LEMMA PlacesKeep ==
    ASSUME \A p \in Procs : PlaceInv(p), MuxInv, WorkflowAssumption, UNCHANGED <<req, pc, at, mux>>,
           mux # Free => \A w \in DOMAIN waiter : w \in DOMAIN waiter'
    PROVE  (\A p \in Procs : PlaceInv(p)') /\ MuxInv'
  <1>1. req' = req /\ pc' = pc /\ at' = at /\ mux' = mux
    OBVIOUS
  <1>2. \A p \in Procs : p # Free
    BY WorkflowAssumption, Zenon DEF Free
  <1> QED
    BY <1>1, <1>2, Zenon DEF PlaceInv, MuxInv, W

\* Handlers, rows and triggers are as they were, and a runner looks at rows there are.
LEMMA RowsKeep ==
    ASSUME RowInv, UNCHANGED <<req, pc, at, wf, trg, mixed, removed, boot>>,
           runner'.found => \/ runner'.rec.wf \in DOMAIN wf
                            \/ runner.found /\ runner'.rec.wf = runner.rec.wf
    PROVE  RowInv'
  <1>1. req' = req /\ pc' = pc /\ at' = at /\ wf' = wf /\ trg' = trg /\ mixed' = mixed /\ removed' = removed /\ boot' = boot
    OBVIOUS
  <1>2. ASSUME NEW p \in Procs
        PROVE  FreshInv(p)' /\ UpdateInv(p)'
    BY <1>1, Zenon DEF RowInv, FreshInv, UpdateInv, Op, HasWf
  <1>3. GoneInv' /\ TrgInv'
    <2>1. GoneInv'
      BY <1>1, Zenon DEF RowInv, GoneInv, HasWf
    <2>2. TrgInv'
      BY <1>1, Zenon DEF RowInv, TrgInv, Touched, HasWf
    <2> QED
      BY <2>1, <2>2, Zenon
  <1>4. MatchInv'
    <2>1. \A w \in Wfs : (Telling(w) => Telling(w)') /\ (Matches(w) => Matches(w)')
      BY <1>1, Zenon DEF Telling, Matches, Wanted, Triggered
    <2> QED
      BY <1>1, <2>1, Zenon DEF RowInv, MatchInv
  <1> QED
    BY <1>2, <1>3, <1>4, Zenon DEF RowInv

\* Triggers, channels and timers are as they were.
LEMMA ScheduleKeep ==
    ASSUME TimerInv, ScheduleInv, UNCHANGED <<trg, mux, waiter, timer, missed>>,
           mux # Free => at'[mux] = at[mux]
    PROVE  TimerInv' /\ ScheduleInv'
  <1>1. trg' = trg /\ mux' = mux /\ waiter' = waiter /\ timer' = timer /\ missed' = missed
    OBVIOUS
  <1>2. ASSUME NEW w, NEW i, LastSent(w, i)
        PROVE  LastSent(w, i)'
    BY <1>1, <1>2, Zenon DEF LastSent, Sends
  <1> QED
    BY <1>1, <1>2, Zenon DEF TimerInv, ScheduleInv

\* Jobs, runner and routine task are as they were, no workflow is deleted and nobody is
\* about to delete one who was not.
LEMMA JobsKeep ==
    ASSUME JobInv, UNCHANGED <<req, job, drawn, runner, cleaner, serial>>,
           DOMAIN wf \subseteq DOMAIN wf', moved \subseteq moved',
           \A p \in Procs : pc'[p] = "delete" => pc[p] = "delete"
    PROVE  JobInv'
  <1>1. req' = req /\ job' = job /\ drawn' = drawn /\ runner' = runner /\ cleaner' = cleaner /\ serial' = serial
    OBVIOUS
  <1>2. JobHasWorkflow'
    <2>1. serial => \A j \in DOMAIN job : job[j].wf \in DOMAIN wf
      BY Zenon DEF JobInv, JobHasWorkflow, HasWf
    <2>2. serial => \A j \in DOMAIN job : job[j].wf \in DOMAIN wf'
      BY <2>1, Zenon
    <2> QED
      BY <1>1, <2>2 DEF JobHasWorkflow, HasWf
  <1>3. \A p \in Procs : BusyInv(p)'
    BY <1>1, Zenon DEF JobInv, BusyInv, JobsOf, Op, W
  <1>4. RunnerInv' /\ CleanInv'
    BY <1>1, Zenon DEF JobInv, RunnerInv, CleanInv
  <1> QED
    BY <1>2, <1>3, <1>4, Zenon DEF JobInv

\* The handler of a created entry rests; what it found changes only where a request has
\* been at work.
LEMMA EventsKeep ==
    ASSUME EventInv, ActorsTyped, event' = event,
           \A w \in Wfs : Touched(w) => Touched(w)',
           \A w \in Wfs : Touched(w)' \/ (w \in DOMAIN trg => w \in DOMAIN trg' /\ trg'[w] = trg[w]),
           \A w \in Wfs : Touched(w)' \/ (HasWf(w) => HasWf(w)'),
           \A w \in Wfs : Touched(w)' \/ (HasEventJob(w) => HasEventJob(w)')
    PROVE  EventInv'
  <1>1. ASSUME NEW w \in event.steady, ~Touched(w)'
        PROVE  EventTurn(w)'
    <2>1. w \in Wfs /\ EventTurn(w)
      BY <1>1, Zenon DEF EventInv, ActorsTyped
    <2>2. /\ w \in DOMAIN trg => w \in DOMAIN trg' /\ trg'[w] = trg[w]
          /\ HasWf(w) => HasWf(w)'
          /\ HasEventJob(w) => HasEventJob(w)'
      BY <1>1, <2>1, Zenon
    <2> QED
      BY <2>1, <2>2, Zenon DEF EventTurn, Matching
  <1> QED
    BY <1>1, Zenon DEF EventInv

\* The same when a table of jobs or rows did not change at all.
LEMMA EventsRest ==
    ASSUME EventInv, ActorsTyped, UNCHANGED <<event, trg, job, cleaner>>, DOMAIN wf \subseteq DOMAIN wf',
           \A p \in Procs : at[p].wf \in Wfs => at'[p].wf = at[p].wf
    PROVE  EventInv'
  <1>1. event' = event /\ trg' = trg /\ job' = job /\ cleaner' = cleaner
    OBVIOUS
  <1>2. \A w \in Wfs : Touched(w) => Touched(w)'
    BY Zenon DEF Touched
  <1>3. \A w \in Wfs : (HasWf(w) => HasWf(w)') /\ (HasEventJob(w) => HasEventJob(w)')
    BY <1>1, Zenon DEF HasWf, HasEventJob
  <1> QED
    BY <1>1, <1>2, <1>3, EventsKeep, Zenon

\* Nothing but the state of the handlers changes (KeepAll).
LEMMA AllKept ==
    ASSUME KeepAll
    PROVE  /\ wf' = wf /\ job' = job /\ drawn' = drawn
           /\ trg' = trg /\ mux' = mux /\ waiter' = waiter /\ timer' = timer
           /\ event' = event /\ runner' = runner /\ cleaner' = cleaner /\ boot' = boot /\ serial' = serial
           /\ mixed' = mixed /\ removed' = removed /\ missed' = missed /\ moved' = moved
  BY DEF KeepAll, workflowVars, rows, timers, actors, ghosts

\* The types that are not of handlers.
LEMMA TypesKept ==
    ASSUME WorkflowTyped, KeepAll
    PROVE  RowsTyped' /\ TimersTyped' /\ ActorsTyped'
  BY AllKept, Zenon DEF WorkflowTyped, RowsTyped, TimersTyped, ActorsTyped

----------------------------------------------------------------------------
(* Handlers. *)

\* Places at which a handler has no workflow in hand, and the last one.
Plain == {"create", "get", "insert", "control", "done"}

\* A handler goes on without a change of anything else: it looks at rows, or ends.
LEMMA PcStep ==
    ASSUME WorkflowInv, WorkflowAssumption, NEW p \in Procs, NEW l \in Plain \cup {"delete"}, Goto(p, l),
           UNCHANGED <<req, at>>, KeepAll, boot # "no", pc[p] \notin {"update", "send", "done"},
           l = "create" => pc[p] = "enter",
           l \in Plain \ {"done"} => at[p].wf = "",
           l = "delete" => pc[p] = "list" /\ ~Busy(W(p))
    PROVE  WorkflowInv'
  <1>1. req' = req /\ at' = at
    OBVIOUS
  <1>2. l \in HandlerPc \ {"enter", "save", "list", "update", "send"}
    BY Zenon DEF Plain, HandlerPc
  <1>3. /\ pc' \in [Procs -> HandlerPc] /\ pc'[p] = l
        /\ \A q \in Procs : q # p => pc'[q] = pc[q]
    BY <1>2, PcGoes, Zenon DEF WorkflowInv, WorkflowTyped
  <1>4. WorkflowTyped'
    <2>1. HandlersTyped'
      BY <1>1, <1>3, Zenon DEF WorkflowInv, WorkflowTyped, HandlersTyped, Op
    <2> QED
      BY <2>1, TypesKept, Zenon DEF WorkflowInv, WorkflowTyped
  <1>5. (\A q \in Procs : PlaceInv(q)') /\ MuxInv'
    <2>1. mux # p
      BY WorkflowAssumption, Zenon DEF WorkflowInv, MuxInv, Free
    <2>2. PlaceInv(p)'
      BY <1>1, <1>2, <1>3, Zenon DEF WorkflowInv, PlaceInv, W, Plain
    <2>3. \A q \in Procs : q # p => PlaceInv(q)'
      BY <1>1, <1>3, AllKept, ZenonT(60) DEF WorkflowInv, PlaceInv, W
    <2>4. MuxInv'
      BY <1>3, <2>1, AllKept, Zenon DEF WorkflowInv, MuxInv, WorkflowTyped, TimersTyped
    <2> QED
      BY <2>2, <2>3, <2>4, Zenon
  <1>6. RowInv'
    <2>1. \A q \in Procs : FreshInv(q)'
      <3>1. ASSUME NEW q \in Procs, Op(q)' = "wfcreate", pc'[q] \in {"enter", "create"}
            PROVE  FreshInv(q)'
        <4>1. Op(q) = "wfcreate" /\ pc[q] \in {"enter", "create"}
          BY <1>1, <1>2, <1>3, <3>1, Zenon DEF Op
        <4>2. /\ NewWf[q] \notin DOMAIN wf /\ NewWf[q] \notin removed
              /\ \A r \in Procs : at[r].wf # NewWf[q]
              /\ runner.found => runner.rec.wf # NewWf[q]
          BY <4>1, Zenon DEF WorkflowInv, RowInv, FreshInv
        <4> QED
          BY <1>1, <4>2, AllKept, Zenon DEF FreshInv
      <3> QED
        BY <3>1, Zenon DEF FreshInv
    <2>2. \A q \in Procs : UpdateInv(q)'
      BY <1>1, <1>2, <1>3, AllKept, Zenon DEF WorkflowInv, RowInv, UpdateInv, Op, HasWf
    <2>3. GoneInv'
      <3>1. wf' = wf /\ mixed' = mixed /\ removed' = removed
        BY AllKept, Zenon
      <3>2. ASSUME NEW v \in removed \ mixed
            PROVE  ~HasWf(v) /\ \A q \in Procs : at'[q].wf = v => pc'[q] = "done"
        <4>1. ~HasWf(v) /\ \A q \in Procs : at[q].wf = v => pc[q] = "done"
          BY <3>2, Zenon DEF WorkflowInv, RowInv, GoneInv
        <4> QED
          BY <1>1, <1>3, <4>1, Zenon
      <3> QED
        BY <3>1, <3>2, Zenon DEF GoneInv, HasWf
    <2>4. TrgInv'
      BY <1>1, AllKept, Zenon DEF WorkflowInv, RowInv, TrgInv, HasWf, Touched
    <2>5. MatchInv'
      <3>1. \A w \in Wfs : Telling(w) => Telling(w)'
        BY <1>1, <1>3, Zenon DEF Telling
      <3>2. \A w \in Wfs : Matches(w) => Matches(w)'
        BY AllKept, Zenon DEF Matches, Wanted, Triggered
      <3> QED
        BY <3>1, <3>2, AllKept, Zenon DEF WorkflowInv, RowInv, MatchInv
    <2> QED
      BY <2>1, <2>2, <2>3, <2>4, <2>5, Zenon DEF RowInv
  <1>7. TimerInv' /\ ScheduleInv'
    BY <1>1, AllKept, ScheduleKeep, Zenon DEF WorkflowInv
  <1>8. JobInv'
    <2>1. JobHasWorkflow' /\ RunnerInv' /\ CleanInv'
      <3>1. JobHasWorkflow'
        BY AllKept, Zenon DEF WorkflowInv, JobInv, JobHasWorkflow, HasWf
      <3>2. RunnerInv' /\ CleanInv'
        BY AllKept, ZenonT(60) DEF WorkflowInv, JobInv, RunnerInv, CleanInv
      <3> QED
        BY <3>1, <3>2, Zenon
    <2>2. \A q \in Procs : q # p => BusyInv(q)'
      BY <1>1, <1>3, AllKept, Zenon DEF WorkflowInv, JobInv, BusyInv, JobsOf, Op, W
    <2>3. BusyInv(p)'
      BY <1>1, <1>3, AllKept, Zenon DEF BusyInv, Busy, JobsOf, W
    <2> QED
      BY <2>1, <2>2, <2>3, Zenon DEF JobInv
  <1>9. EventInv'
    BY <1>1, AllKept, EventsRest, Zenon DEF WorkflowInv, WorkflowTyped
  <1>10. StartInv'
    BY AllKept, Zenon DEF StartInv
  <1> QED
    BY <1>4, <1>5, <1>6, <1>7, <1>8, <1>9, <1>10, Zenon DEF WorkflowInv

\* A handler gives up, or only reads (GiveUp, ReadOnly).
LEMMA GiveUpInv ==
    ASSUME WorkflowInv, WorkflowAssumption, NEW p \in Procs, boot # "no", NEW code,
           Reply(p, code), UNCHANGED <<req, at>>, KeepAll, pc[p] \notin {"update", "send", "done"}
    PROVE  WorkflowInv'
  <1>1. Goto(p, "done") /\ "done" \in Plain \cup {"delete"}
    BY Zenon DEF Reply, Plain
  <1> QED
    BY <1>1, PcStep, Zenon DEF Plain

\* A writer has found the workflow of its request (the first steps of UpdateWorkflow and
\* of DeleteWorkflow).
LEMMA LoadInv ==
    ASSUME WorkflowInv, WorkflowAssumption, NEW p \in Procs, NEW l \in {"save", "list"}, NEW row,
           boot # "no", pc[p] = "enter", Goto(p, l), req' = req, KeepAll, HasWf(W(p)), Noted(p, W(p), row)
    PROVE  WorkflowInv'
  <1>1. l \in HandlerPc /\ W(p) \in Wfs
    BY Zenon DEF HandlerPc, WorkflowInv, WorkflowTyped, RowsTyped, HasWf
  <1>2. /\ pc' \in [Procs -> HandlerPc] /\ pc'[p] = l
        /\ \A q \in Procs : q # p => pc'[q] = pc[q]
    BY <1>1, PcGoes, Zenon DEF WorkflowInv, WorkflowTyped
  <1>3. /\ DOMAIN at' = Procs
        /\ \A q \in Procs : DOMAIN at'[q] = {"wf", "row", "send", "code"} /\ RowTyped(at'[q].row) /\ at'[q].send \in Nat
        /\ at'[p].wf = W(p)
        /\ \A q \in Procs : q # p => at'[q] = at[q]
    BY Zenon DEF Noted
  <1>4. at[p].wf = "" /\ mux # p /\ "" \notin Wfs
    BY WorkflowAssumption, Zenon DEF WorkflowInv, PlaceInv, MuxInv, Free
  <1>5. WorkflowTyped'
    <2>1. HandlersTyped'
      BY <1>2, <1>3, Zenon DEF WorkflowInv, WorkflowTyped, HandlersTyped, Op
    <2> QED
      BY <2>1, TypesKept, Zenon DEF WorkflowInv, WorkflowTyped
  <1>6. (\A q \in Procs : PlaceInv(q)') /\ MuxInv'
    <2>1. PlaceInv(p)'
      BY <1>1, <1>2, <1>3, Zenon DEF PlaceInv, W
    <2>2. \A q \in Procs : q # p => PlaceInv(q)'
      <3>1. ASSUME NEW q \in Procs, q # p
            PROVE  PlaceInv(q)'
        <4>1. pc'[q] = pc[q] /\ at'[q] = at[q]
          BY <1>2, <1>3, <3>1, Zenon
        <4>2. PlaceInv(q) /\ mux' = mux /\ (pc[q] = "send" => at[q].wf \in DOMAIN waiter')
          BY AllKept, Zenon DEF WorkflowInv, PlaceInv
        <4> QED
          BY <4>1, <4>2, PlaceKept, Zenon
      <3> QED
        BY <3>1, Zenon
    <2>3. MuxInv'
      BY <1>2, <1>4, AllKept, Zenon DEF WorkflowInv, MuxInv, WorkflowTyped, TimersTyped
    <2> QED
      BY <2>1, <2>2, <2>3, Zenon
  <1>7. RowInv'
    <2>1. ASSUME NEW q \in Procs
          PROVE  FreshInv(q)' /\ UpdateInv(q)'
      <3>1. (Op(q) = "wfcreate" /\ pc'[q] \in {"enter", "create"}) => pc[q] \in {"enter", "create"} /\ NewWf[q] # W(p)
        BY <1>2, Zenon DEF WorkflowInv, RowInv, FreshInv, HasWf
      <3>2. \A r \in Procs : at'[r].wf \in {at[r].wf, W(p)}
        BY <1>3, Zenon
      <3>3. FreshInv(q)'
        BY <3>1, <3>2, AllKept, FreshKept, Zenon DEF WorkflowInv, RowInv
      <3>4. pc'[q] = "update" => q # p
        BY <1>2, Zenon
      <3>5. UpdateInv(q)'
        <4>1. CASE q = p
          BY <1>2, <4>1, Zenon DEF UpdateInv
        <4>2. CASE q # p
          BY <1>2, <1>3, <4>2, AllKept, Zenon DEF WorkflowInv, RowInv, UpdateInv, Op, HasWf
        <4> QED
          BY <4>1, <4>2
      <3> QED
        BY <3>3, <3>5, Zenon
    <2>3. GoneInv'
      <3>1. ASSUME NEW v \in removed \ mixed
            PROVE  ~HasWf(v) /\ \A q \in Procs : at'[q].wf = v => pc'[q] = "done"
        <4>1. ~HasWf(v) /\ \A q \in Procs : at[q].wf = v => pc[q] = "done"
          BY <3>1, Zenon DEF WorkflowInv, RowInv, GoneInv
        <4>2. v # W(p)
          BY <4>1, Zenon
        <4> QED
          <5>1. ASSUME NEW q \in Procs, at'[q].wf = v
                PROVE  pc'[q] = "done"
            <6>1. q # p
              BY <1>3, <4>2, <5>1, Zenon
            <6>2. at'[q] = at[q] /\ pc'[q] = pc[q]
              BY <1>2, <1>3, <6>1, Zenon
            <6> QED
              BY <4>1, <5>1, <6>2, Zenon
          <5> QED
            BY <4>1, <5>1, Zenon
      <3> QED
        BY <3>1, AllKept, Zenon DEF GoneInv, HasWf
    <2>4. TrgInv'
      <3>1. \A v \in Wfs : Touched(v) => Touched(v)'
        BY <1>3, <1>4, ZenonT(60) DEF Touched
      <3> QED
        BY <3>1, AllKept, Zenon DEF WorkflowInv, RowInv, TrgInv, HasWf, WorkflowTyped, TimersTyped
    <2>5. MatchInv'
      <3>1. \A w \in Wfs : Telling(w) => Telling(w)'
        BY <1>2, <1>3, Zenon DEF Telling
      <3>2. \A w \in Wfs : Matches(w) => Matches(w)'
        BY AllKept, Zenon DEF Matches, Wanted, Triggered
      <3> QED
        BY <3>1, <3>2, AllKept, Zenon DEF WorkflowInv, RowInv, MatchInv
    <2> QED
      BY <2>1, <2>3, <2>4, <2>5, Zenon DEF RowInv
  <1>8. TimerInv' /\ ScheduleInv'
    <2>1. mux # Free => at'[mux] = at[mux]
      BY <1>3, <1>4, Zenon DEF WorkflowInv, WorkflowTyped, TimersTyped
    <2> QED
      BY <2>1, AllKept, ScheduleKeep, Zenon DEF WorkflowInv
  <1>9. JobInv'
    <2>1. \A q \in Procs : pc'[q] = "delete" => pc[q] = "delete"
      BY <1>2, Zenon
    <2> QED
      BY <2>1, AllKept, JobsKeep, Zenon DEF WorkflowInv
  <1>10. EventInv'
    <2>1. \A q \in Procs : at[q].wf \in Wfs => at'[q].wf = at[q].wf
      BY <1>3, <1>4, Zenon
    <2> QED
      BY <2>1, AllKept, EventsRest, Zenon DEF WorkflowInv, WorkflowTyped
  <1>11. StartInv'
    BY AllKept, Zenon DEF StartInv
  <1> QED
    BY <1>5, <1>6, <1>7, <1>8, <1>9, <1>10, <1>11, Zenon DEF WorkflowInv

\* Whoever else works on a workflow is seen by Mix.
MixedBy(p, w) == mixed \subseteq mixed' /\ mixed' \subseteq mixed \cup {w} /\ (Shared(p, w) => w \in mixed')

\* A workflow that is not gone, and not of another's making.
Known(p, w) ==
  /\ w \in removed => w \in mixed
  /\ \A q \in Procs : q # p /\ Op(q) = "wfcreate" /\ pc[q] \in {"enter", "create"} => NewWf[q] # w

\* A writer saves the row of a workflow and goes on to tell the triggers (CreateWorkflow,
\* UpdateWorkflow): whoever else works on it is seen by Mix.
LEMMA WriteInv ==
    ASSUME WorkflowInv, WorkflowAssumption, NEW p \in Procs, NEW w \in Wfs, NEW row, RowTyped(row), boot # "no",
           pc[p] \in {"create", "save"}, Op(p) # "wfdelete", Goto(p, "update"), req' = req, SaveWorkflow(w, row),
           UNCHANGED <<job, drawn, timers, actors, removed, missed, moved>>,
           Noted(p, w, row), at[p].wf \in {"", w}, MixedBy(p, w), Known(p, w)
    PROVE  WorkflowInv'
  <1>1. /\ job' = job /\ drawn' = drawn /\ trg' = trg /\ mux' = mux /\ waiter' = waiter /\ timer' = timer
        /\ event' = event /\ runner' = runner /\ cleaner' = cleaner /\ boot' = boot /\ serial' = serial
        /\ removed' = removed /\ missed' = missed /\ moved' = moved
    BY DEF timers, actors
  <1>2. /\ pc' \in [Procs -> HandlerPc] /\ pc'[p] = "update"
        /\ \A q \in Procs : q # p => pc'[q] = pc[q]
    <2>1. "update" \in HandlerPc
      BY Zenon DEF HandlerPc
    <2> QED
      BY <2>1, PcGoes, Zenon DEF WorkflowInv, WorkflowTyped
  <1>3. /\ DOMAIN wf' = DOMAIN wf \cup {w} /\ wf'[w] = row
        /\ \A v \in DOMAIN wf : v # w => wf'[v] = wf[v]
    BY SaveIs, Zenon
  <1>4. mux # p /\ "" \notin Wfs
    BY WorkflowAssumption, Zenon DEF WorkflowInv, MuxInv, Free
  <1>a. /\ DOMAIN at' = Procs
        /\ \A q \in Procs : DOMAIN at'[q] = {"wf", "row", "send", "code"} /\ RowTyped(at'[q].row) /\ at'[q].send \in Nat
    BY Zenon DEF Noted
  <1>b. at'[p].wf = w /\ at'[p].row = row /\ \A q \in Procs : q # p => at'[q] = at[q]
    BY Zenon DEF Noted
  <1>c. mixed \subseteq mixed' /\ mixed' \subseteq mixed \cup {w} /\ (Shared(p, w) => w \in mixed')
    BY Zenon DEF MixedBy
  <1>5. WorkflowTyped'
    <2>1. HandlersTyped'
      BY <1>2, <1>a, Zenon DEF WorkflowInv, WorkflowTyped, HandlersTyped, Op
    <2>2. RowsTyped'
      BY <1>1, <1>3, Zenon DEF WorkflowInv, WorkflowTyped, RowsTyped
    <2>3. TimersTyped' /\ ActorsTyped'
      BY <1>1, Zenon DEF WorkflowInv, WorkflowTyped, TimersTyped, ActorsTyped
    <2> QED
      BY <2>1, <2>2, <2>3, Zenon DEF WorkflowTyped
  <1>6. (\A q \in Procs : PlaceInv(q)') /\ MuxInv'
    <2>1. PlaceInv(p)'
      BY <1>2, <1>b, Zenon DEF PlaceInv
    <2>2. \A q \in Procs : q # p => PlaceInv(q)'
      <3>1. ASSUME NEW q \in Procs, q # p
            PROVE  PlaceInv(q)'
        <4>1. pc'[q] = pc[q] /\ at'[q] = at[q]
          BY <1>2, <1>b, <3>1, Zenon
        <4>2. PlaceInv(q) /\ (pc[q] = "send" => at[q].wf \in DOMAIN waiter')
          BY <1>1, Zenon DEF WorkflowInv, PlaceInv
        <4> QED
          BY <1>1, <4>1, <4>2, PlaceKept, Zenon
      <3> QED
        BY <3>1, Zenon
    <2>3. MuxInv'
      BY <1>1, <1>2, <1>4, Zenon DEF WorkflowInv, MuxInv, WorkflowTyped, TimersTyped
    <2> QED
      BY <2>1, <2>2, <2>3, Zenon
  <1>7. RowInv'
    <2>1. \A q \in Procs : FreshInv(q)'
      <3>1. ASSUME NEW q \in Procs, Op(q)' = "wfcreate", pc'[q] \in {"enter", "create"}
            PROVE  FreshInv(q)'
        <4>1. q # p /\ pc'[q] = pc[q] /\ Op(q) = "wfcreate"
          BY <1>2, <3>1, Zenon DEF Op
        <4>2. /\ NewWf[q] \notin DOMAIN wf /\ NewWf[q] \notin removed
              /\ \A r \in Procs : at[r].wf # NewWf[q]
              /\ runner.found => runner.rec.wf # NewWf[q]
          BY <3>1, <4>1, Zenon DEF WorkflowInv, RowInv, FreshInv
        <4>3. NewWf[q] # w
          BY <3>1, <4>1, Zenon DEF Known
        <4> QED
          BY <1>1, <1>3, <1>b, <4>2, <4>3, Zenon DEF FreshInv
      <3> QED
        BY <3>1, Zenon DEF FreshInv
    <2>2. \A q \in Procs : UpdateInv(q)'
      <3>1. UpdateInv(p)'
        BY <1>2, <1>3, <1>b, Zenon DEF UpdateInv, HasWf, Op
      <3>2. ASSUME NEW q \in Procs, q # p, pc'[q] = "update", at'[q].wf \notin mixed'
            PROVE  UpdateInv(q)'
        <4>1. pc[q] = "update" /\ at'[q] = at[q] /\ at[q].wf \notin mixed
          BY <1>2, <1>b, <1>c, <3>2, Zenon
        <4>2. at[q].wf # w
          BY <1>c, <3>2, <4>1, Zenon DEF Shared
        <4>3. IF Op(q) = "wfdelete" THEN ~HasWf(at[q].wf) ELSE HasWf(at[q].wf) /\ wf[at[q].wf] = at[q].row
          BY <4>1, Zenon DEF WorkflowInv, RowInv, UpdateInv
        <4> QED
          BY <1>3, <4>1, <4>2, <4>3, Zenon DEF UpdateInv, HasWf, Op
      <3> QED
        BY <3>1, <3>2, Zenon DEF UpdateInv
    <2>3. GoneInv'
      <3>1. ASSUME NEW v \in removed' \ mixed'
            PROVE  ~HasWf(v)' /\ \A q \in Procs : at'[q].wf = v => pc'[q] = "done"
        <4>1. v \in removed \ mixed /\ v # w
          BY <1>1, <1>c, <3>1, Zenon DEF Known
        <4>2. ~HasWf(v) /\ \A q \in Procs : at[q].wf = v => pc[q] = "done"
          BY <4>1, Zenon DEF WorkflowInv, RowInv, GoneInv
        <4> QED
          <5>1. v \notin DOMAIN wf'
            BY <1>3, <4>1, <4>2, Zenon DEF HasWf
          <5>2. \A q \in Procs : at'[q].wf = v => pc'[q] = "done"
            BY <1>2, <1>b, <4>1, <4>2, ZenonT(60)
          <5> QED
            BY <5>1, <5>2, Zenon DEF HasWf
      <3> QED
        BY <3>1, Zenon DEF GoneInv
    <2>4. TrgInv'
      <3>1. \A v \in DOMAIN trg : Touched(v) => Touched(v)'
        BY <1>4, <1>b, Zenon DEF WorkflowInv, WorkflowTyped, TimersTyped, Touched
      <3> QED
        BY <1>1, <1>3, <3>1, Zenon DEF WorkflowInv, RowInv, TrgInv, HasWf
    <2>5. MatchInv'
      <3>1. \A v \in Wfs : Telling(v) => Telling(v)'
        BY <1>2, <1>b, Zenon DEF Telling
      <3>2. Telling(w)'
        BY <1>2, <1>b, Zenon DEF Telling
      <3>3. \A v \in Wfs : v # w /\ Matches(v) => Matches(v)'
        BY <1>1, <1>3, Zenon DEF Matches, Wanted, Triggered
      <3> QED
        BY <1>1, <1>c, <3>1, <3>2, <3>3, Zenon DEF WorkflowInv, RowInv, MatchInv
    <2> QED
      BY <2>1, <2>2, <2>3, <2>4, <2>5, Zenon DEF RowInv
  <1>8. TimerInv' /\ ScheduleInv'
    <2>1. mux # Free => at'[mux] = at[mux]
      BY <1>4, <1>b, Zenon DEF WorkflowInv, WorkflowTyped, TimersTyped
    <2> QED
      BY <1>1, <2>1, ScheduleKeep, Zenon DEF WorkflowInv
  <1>9. JobInv'
    <2>1. \A q \in Procs : pc'[q] = "delete" => pc[q] = "delete"
      BY <1>2, Zenon
    <2> QED
      BY <1>1, <1>3, <2>1, JobsKeep, Zenon DEF WorkflowInv
  <1>10. EventInv'
    <2>1. \A q \in Procs : at[q].wf \in Wfs => at'[q].wf = at[q].wf
      BY <1>4, <1>b, Zenon
    <2> QED
      BY <1>1, <1>3, <2>1, EventsRest, Zenon DEF WorkflowInv, WorkflowTyped
  <1>11. StartInv'
    BY <1>1, Zenon DEF StartInv
  <1> QED
    BY <1>5, <1>6, <1>7, <1>8, <1>9, <1>10, <1>11, Zenon DEF WorkflowInv

\* The row of a workflow and its jobs are deleted (DeleteWorkflow): a busy one among
\* them became so after the look at them.
LEMMA DeleteRowInv ==
    ASSUME WorkflowInv, WorkflowAssumption, NEW p \in Procs, NEW w \in Wfs, W(p) = w, boot # "no", pc[p] = "delete", Op(p) = "wfdelete",
           DeleteWorkflowRow(w), MixedBy(p, w), Goto(p, "update"),
           UNCHANGED <<req, at, drawn, timers, actors, removed, missed, moved>>
    PROVE  WorkflowInv' /\ \A j \in DOMAIN job \ DOMAIN job' : job[j].status \in Active => j \in moved
  <1>1. /\ drawn' = drawn /\ trg' = trg /\ mux' = mux /\ waiter' = waiter /\ timer' = timer
        /\ event' = event /\ runner' = runner /\ cleaner' = cleaner /\ boot' = boot /\ serial' = serial
        /\ req' = req /\ at' = at /\ removed' = removed /\ missed' = missed /\ moved' = moved
    BY DEF timers, actors
  <1>2. /\ pc' \in [Procs -> HandlerPc] /\ pc'[p] = "update"
        /\ \A q \in Procs : q # p => pc'[q] = pc[q]
    <2>1. "update" \in HandlerPc
      BY Zenon DEF HandlerPc
    <2> QED
      BY <2>1, PcGoes, Zenon DEF WorkflowInv, WorkflowTyped
  <1>3. w \in Wfs /\ at[p].wf = w
    BY Zenon DEF WorkflowInv, PlaceInv
  <1>4. /\ DOMAIN wf' = DOMAIN wf \ {w} /\ \A v \in DOMAIN wf \ {w} : wf'[v] = wf[v]
        /\ DOMAIN job' = DOMAIN job \ JobsOf(w) /\ \A j \in DOMAIN job \ JobsOf(w) : job'[j] = job[j]
    BY DeleteIs, Zenon
  <1>5. mixed \subseteq mixed' /\ mixed' \subseteq mixed \cup {w} /\ (Shared(p, w) => w \in mixed')
    BY Zenon DEF MixedBy
  <1>6. mux # p
    BY WorkflowAssumption, Zenon DEF WorkflowInv, MuxInv, Free
  <1>7. WorkflowTyped'
    <2>1. HandlersTyped'
      BY <1>1, <1>2, Zenon DEF WorkflowInv, WorkflowTyped, HandlersTyped, Op
    <2>2. RowsTyped'
      BY <1>1, <1>4, Zenon DEF WorkflowInv, WorkflowTyped, RowsTyped
    <2>3. TimersTyped' /\ ActorsTyped'
      BY <1>1, Zenon DEF WorkflowInv, WorkflowTyped, TimersTyped, ActorsTyped
    <2> QED
      BY <2>1, <2>2, <2>3, Zenon DEF WorkflowTyped
  <1>8. (\A q \in Procs : PlaceInv(q)') /\ MuxInv'
    <2>1. PlaceInv(p)'
      BY <1>1, <1>2, <1>3, Zenon DEF PlaceInv
    <2>2. \A q \in Procs : q # p => PlaceInv(q)'
      BY <1>1, <1>2, ZenonT(60) DEF WorkflowInv, PlaceInv, W
    <2>3. MuxInv'
      BY <1>1, <1>2, <1>6, Zenon DEF WorkflowInv, MuxInv, WorkflowTyped, TimersTyped
    <2> QED
      BY <2>1, <2>2, <2>3, Zenon
  <1>9. RowInv'
    <2>1. \A q \in Procs : FreshInv(q)'
      <3>1. ASSUME NEW q \in Procs
            PROVE  FreshInv(q)'
        <4>1. (Op(q) = "wfcreate" /\ pc'[q] \in {"enter", "create"}) => pc[q] \in {"enter", "create"} /\ NewWf[q] # w
          BY <1>2, <1>3, Zenon DEF WorkflowInv, RowInv, FreshInv
        <4>2. FreshInv(q) /\ DOMAIN wf' \subseteq DOMAIN wf \cup {w} /\ \A r \in Procs : at'[r].wf \in {at[r].wf, w}
          BY <1>1, <1>4, Zenon DEF WorkflowInv, RowInv
        <4> QED
          BY <1>1, <4>1, <4>2, FreshKept, Zenon
      <3> QED
        BY <3>1, Zenon
    <2>2. \A q \in Procs : UpdateInv(q)'
      <3>1. UpdateInv(p)'
        BY <1>1, <1>3, <1>4, Zenon DEF UpdateInv, HasWf, Op
      <3>2. ASSUME NEW q \in Procs, q # p, pc'[q] = "update", at'[q].wf \notin mixed'
            PROVE  UpdateInv(q)'
        <4>1. pc[q] = "update" /\ at'[q] = at[q] /\ at[q].wf \notin mixed
          BY <1>1, <1>2, <1>5, <3>2, Zenon
        <4>2. at[q].wf # w
          BY <1>5, <3>2, <4>1, Zenon DEF Shared
        <4>3. IF Op(q) = "wfdelete" THEN ~HasWf(at[q].wf) ELSE HasWf(at[q].wf) /\ wf[at[q].wf] = at[q].row
          BY <4>1, Zenon DEF WorkflowInv, RowInv, UpdateInv
        <4> QED
          BY <1>1, <1>4, <4>1, <4>2, <4>3, ZenonT(60) DEF UpdateInv, HasWf, Op
      <3> QED
        BY <3>1, <3>2, Zenon DEF UpdateInv
    <2>3. GoneInv'
      <3>1. ASSUME NEW v \in removed' \ mixed'
            PROVE  ~HasWf(v)' /\ \A q \in Procs : at'[q].wf = v => pc'[q] = "done"
        <4>1. v \in removed \ mixed
          BY <1>1, <1>5, <3>1, Zenon
        <4>2. ~HasWf(v) /\ \A q \in Procs : at[q].wf = v => pc[q] = "done"
          BY <4>1, Zenon DEF WorkflowInv, RowInv, GoneInv
        <4> QED
          BY <1>1, <1>2, <1>4, <4>2, ZenonT(60) DEF HasWf
      <3> QED
        BY <3>1, Zenon DEF GoneInv
    <2>4. TrgInv'
      <3>1. Touched(w)' /\ \A v : Touched(v) => Touched(v)'
        BY <1>1, <1>3, Zenon DEF Touched
      <3> QED
        BY <1>1, <1>4, <3>1, Zenon DEF WorkflowInv, RowInv, TrgInv, HasWf
    <2>5. MatchInv'
      <3>1. \A v \in Wfs : Telling(v) => Telling(v)'
        BY <1>1, <1>2, Zenon DEF Telling
      <3>2. Telling(w)'
        BY <1>1, <1>2, <1>3, Zenon DEF Telling
      <3>3. \A v \in Wfs : v # w /\ Matches(v) => Matches(v)'
        BY <1>1, <1>4, Zenon DEF Matches, Wanted, Triggered
      <3> QED
        BY <1>1, <1>5, <3>1, <3>2, <3>3, Zenon DEF WorkflowInv, RowInv, MatchInv
    <2> QED
      BY <2>1, <2>2, <2>3, <2>4, <2>5, Zenon DEF RowInv
  <1>10. TimerInv' /\ ScheduleInv'
    BY <1>1, ScheduleKeep, Zenon DEF WorkflowInv
  <1>11. JobInv'
    <2>1. JobHasWorkflow'
      BY <1>1, <1>4, Zenon DEF WorkflowInv, JobInv, JobHasWorkflow, HasWf, JobsOf
    <2>2. \A q \in Procs : BusyInv(q)'
      <3>1. ASSUME NEW q \in Procs, Op(q)' = "wfdelete", pc'[q] = "delete", NEW j \in JobsOf(W(q))', job'[j].status \in Active
            PROVE  j \in moved'
        <4>1. Op(q) = "wfdelete" /\ pc[q] = "delete"
          BY <1>1, <1>2, <3>1, Zenon DEF Op
        <4>2. j \in JobsOf(W(q)) /\ job'[j] = job[j]
          BY <1>1, <1>4, <3>1, Zenon DEF JobsOf, W
        <4> QED
          BY <1>1, <3>1, <4>1, <4>2, Zenon DEF WorkflowInv, JobInv, BusyInv
      <3> QED
        BY <3>1, Zenon DEF BusyInv
    <2>3. RunnerInv'
      BY <1>1, <1>4, Zenon DEF WorkflowInv, JobInv, RunnerInv
    <2>4. CleanInv'
      BY <1>1, <1>4, Zenon DEF WorkflowInv, JobInv, CleanInv
    <2> QED
      BY <2>1, <2>2, <2>3, <2>4, Zenon DEF JobInv
  <1>12. EventInv'
    <2>1. Touched(w)' /\ \A v : Touched(v) => Touched(v)'
      BY <1>1, <1>3, Zenon DEF Touched
    <2>2. \A v \in Wfs : v # w => (HasWf(v) => HasWf(v)') /\ (HasEventJob(v) => HasEventJob(v)')
      BY <1>1, <1>4, Zenon DEF HasWf, HasEventJob, JobsOf
    <2> QED
      BY <1>1, <2>1, <2>2, EventsKeep, Zenon DEF WorkflowInv, WorkflowTyped
  <1>13. StartInv'
    BY <1>1, Zenon DEF StartInv
  <1>14. \A j \in DOMAIN job \ DOMAIN job' : job[j].status \in Active => j \in moved
    <2>1. \A j \in JobsOf(w) : job[j].status \in Active => j \in moved
      BY Zenon DEF WorkflowInv, JobInv, BusyInv
    <2> QED
      BY <1>4, <2>1, Zenon
  <1> QED
    BY <1>7, <1>8, <1>9, <1>10, <1>11, <1>12, <1>13, <1>14, Zenon DEF WorkflowInv

\* What handleWorkflowUpdate does to the requests, to the rows and to the triggers.
TellPlaces(p, isDelete) ==
  /\ pc'[p] \in {"done", "send"} /\ (isDelete => pc'[p] = "done") /\ \A q \in Procs : q # p => pc'[q] = pc[q]
  /\ \A q \in Procs : at'[q].wf = at[q].wf /\ at'[q].row = at[q].row

TellKeeps(w, isDelete) ==
  /\ req' = req /\ wf' = wf /\ runner' = runner /\ boot' = boot
  /\ removed' = IF isDelete THEN removed \cup {w} ELSE removed

Told(w, row, isDelete) ==
  /\ \A v \in Wfs : v # w => (v \in DOMAIN trg' <=> v \in DOMAIN trg) /\ (v \in DOMAIN trg => trg'[v] = trg[v])
  /\ DOMAIN trg' \subseteq DOMAIN trg \cup {w}
  /\ w \in DOMAIN trg' <=> ~isDelete /\ Triggered(row)
  /\ w \in DOMAIN trg' => trg'[w] = row.trig

\* The triggers are told of a row: afterwards they have what the row says, and a workflow
\* that was deleted is in nobody's hands, unless others worked on it (handleWorkflowUpdate).
LEMMA TellRows ==
    ASSUME WorkflowInv, WorkflowAssumption, NEW p \in Procs, NEW w \in Wfs, NEW row, NEW isDelete \in BOOLEAN,
           at[p].wf = w, at[p].row = row, pc[p] = "update", isDelete <=> Op(p) = "wfdelete", MixedBy(p, w),
           TellPlaces(p, isDelete), TellKeeps(w, isDelete), Told(w, row, isDelete)
    PROVE  RowInv'
  <1>1. req' = req /\ wf' = wf /\ runner' = runner /\ boot' = boot
    BY Zenon DEF TellKeeps
  <1>2. mixed \subseteq mixed' /\ mixed' \subseteq mixed \cup {w} /\ (Shared(p, w) => w \in mixed')
    BY Zenon DEF MixedBy
  <1>a. /\ pc'[p] \in {"done", "send"} /\ (isDelete => pc'[p] = "done") /\ \A q \in Procs : q # p => pc'[q] = pc[q]
        /\ \A q \in Procs : at'[q].wf = at[q].wf /\ at'[q].row = at[q].row
    BY Zenon DEF TellPlaces
  <1>b. removed' = IF isDelete THEN removed \cup {w} ELSE removed
    BY Zenon DEF TellKeeps
  <1>c. /\ \A v \in Wfs : v # w => (v \in DOMAIN trg' <=> v \in DOMAIN trg) /\ (v \in DOMAIN trg => trg'[v] = trg[v])
        /\ DOMAIN trg' \subseteq DOMAIN trg \cup {w}
        /\ w \in DOMAIN trg' <=> ~isDelete /\ Triggered(row)
        /\ w \in DOMAIN trg' => trg'[w] = row.trig
    BY Zenon DEF Told
  <1>3. (w \notin mixed') => IF isDelete THEN ~HasWf(w) ELSE HasWf(w) /\ wf[w] = row
    BY <1>2, Zenon DEF WorkflowInv, RowInv, UpdateInv
  <1>4. \A q \in Procs : FreshInv(q)'
    <2>1. ASSUME NEW q \in Procs, Op(q)' = "wfcreate", pc'[q] \in {"enter", "create"}
          PROVE  FreshInv(q)'
      <3>1. q # p /\ pc'[q] = pc[q] /\ Op(q) = "wfcreate"
        BY <1>1, <1>a, <2>1, Zenon DEF Op
      <3>2. /\ NewWf[q] \notin DOMAIN wf /\ NewWf[q] \notin removed
            /\ \A r \in Procs : at[r].wf # NewWf[q]
            /\ runner.found => runner.rec.wf # NewWf[q]
        BY <2>1, <3>1, Zenon DEF WorkflowInv, RowInv, FreshInv
      <3>3. NewWf[q] # w
        BY <3>2, Zenon
      <3> QED
        BY <1>1, <1>a, <1>b, <3>2, <3>3, Zenon DEF FreshInv
    <2> QED
      BY <2>1, Zenon DEF FreshInv
  <1>5. \A q \in Procs : UpdateInv(q)'
    <2>1. ASSUME NEW q \in Procs, pc'[q] = "update", at'[q].wf \notin mixed'
          PROVE  UpdateInv(q)'
      <3>1. q # p /\ pc[q] = "update" /\ at[q].wf \notin mixed
        BY <1>2, <1>a, <2>1, Zenon
      <3>2. IF Op(q) = "wfdelete" THEN ~HasWf(at[q].wf) ELSE HasWf(at[q].wf) /\ wf[at[q].wf] = at[q].row
        BY <3>1, Zenon DEF WorkflowInv, RowInv, UpdateInv
      <3> QED
        BY <1>1, <1>a, <3>2, Zenon DEF UpdateInv, HasWf, Op
    <2> QED
      BY <2>1, Zenon DEF UpdateInv
  <1>6. GoneInv'
    <2>1. ASSUME NEW v \in removed' \ mixed', v # w
          PROVE  ~HasWf(v)' /\ \A q \in Procs : at'[q].wf = v => pc'[q] = "done"
      <3>1. v \in removed \ mixed
        BY <1>2, <1>b, <2>1, Zenon
      <3>2. ~HasWf(v) /\ \A q \in Procs : at[q].wf = v => pc[q] = "done"
        BY <3>1, Zenon DEF WorkflowInv, RowInv, GoneInv
      <3> QED
        BY <1>1, <1>a, <3>2, ZenonT(60) DEF HasWf
    <2>2. ASSUME w \in removed' \ mixed'
          PROVE  ~HasWf(w)' /\ \A q \in Procs : at'[q].wf = w => pc'[q] = "done"
      <3>1. w \notin removed
        BY <1>2, <2>2, Zenon DEF WorkflowInv, RowInv, GoneInv
      <3>2. isDelete /\ pc'[p] = "done"
        BY <1>a, <1>b, <2>2, <3>1, Zenon
      <3>3. ~HasWf(w)'
        BY <1>1, <1>3, <2>2, <3>2, Zenon DEF HasWf
      <3>4. ASSUME NEW q \in Procs, q # p, at[q].wf = w
            PROVE  pc[q] = "done"
        <4>1. pc[q] \in {"enter", "done"}
          BY <1>2, <2>2, <3>4, Zenon DEF Shared
        <4>2. pc[q] # "enter"
          <5>1. pc[q] = "enter" => at[q].wf = ""
            BY Zenon DEF WorkflowInv, PlaceInv
          <5>2. w # ""
            BY WorkflowAssumption, Zenon
          <5> QED
            BY <3>4, <5>1, <5>2, Zenon
        <4> QED
          BY <4>1, <4>2, Zenon
      <3> QED
        <4>1. ASSUME NEW q \in Procs, at'[q].wf = w
              PROVE  pc'[q] = "done"
          BY <1>a, <3>2, <3>4, <4>1, Zenon
        <4> QED
          BY <3>3, <4>1, Zenon
    <2> QED
      BY <2>1, <2>2, Zenon DEF GoneInv
  <1>7. TrgInv'
    <2>1. Touched(w)' /\ \A v : Touched(v) => Touched(v)'
      BY <1>a, Zenon DEF Touched
    <2> QED
      BY <1>1, <1>c, <2>1, Zenon DEF WorkflowInv, RowInv, TrgInv, HasWf
  <1>8. MatchInv'
    <2>1. \A v \in Wfs : v # w /\ Telling(v) => Telling(v)'
      BY <1>a, Zenon DEF Telling
    <2>2. \A v \in Wfs : v # w /\ Matches(v) => Matches(v)'
      BY <1>1, <1>c, Zenon DEF Matches, Wanted, Triggered
    <2>3. w \notin mixed' => Matches(w)'
      <3>1. SUFFICES ASSUME w \notin mixed'
                     PROVE  Matches(w)'
        OBVIOUS
      <3>2. CASE isDelete
        BY <1>1, <1>3, <1>c, <3>1, <3>2, Zenon DEF Matches, Wanted, HasWf
      <3>3. CASE ~isDelete
        <4>1. w \in DOMAIN wf' /\ wf'[w] = row
          BY <1>1, <1>3, <3>1, <3>3, Zenon DEF HasWf
        <4>2. w \in Wanted' <=> Triggered(row)
          BY <4>1, Zenon DEF Wanted, Triggered
        <4> QED
          BY <1>c, <3>3, <4>1, <4>2, Zenon DEF Matches
      <3> QED
        BY <3>2, <3>3
    <2> QED
      BY <1>1, <1>2, <2>1, <2>2, <2>3, Zenon DEF WorkflowInv, RowInv, MatchInv
  <1> QED
    BY <1>4, <1>5, <1>6, <1>7, <1>8, Zenon DEF RowInv

\* What a positive interval is.
LEMMA Dereferenced ==
    ASSUME NEW i \in Nat
    PROVE  Deref(i) \in Nat /\ (Deref(i) > 0 => Deref(i) = i /\ i # 0) /\ ~(0 > 0)
  BY DEF Deref, Nil

\* Only the channel and the timer of one workflow change.
Channels(w) ==
  /\ \A v \in DOMAIN waiter : v # w => v \in DOMAIN waiter' /\ waiter'[v] = waiter[v]
  /\ DOMAIN waiter \subseteq DOMAIN waiter' /\ DOMAIN waiter' \subseteq DOMAIN waiter \cup {w}
  /\ \A v \in Wfs : v # w => timer'[v] = timer[v]
  /\ w \in DOMAIN waiter' <=> timer'[w].pc # "none"

\* A channel with one interval, with one more, and with one less.
LEMMA Single ==
    ASSUME NEW i \in Nat
    PROVE  <<i>> \in Seq(Nat) /\ <<i>> # <<>> /\ <<i>>[Len(<<i>>)] = i
  OBVIOUS

\* The sender puts its interval at the end (sendWorkflowUpdateInLock).
LEMMA Appended ==
    ASSUME NEW s \in Seq(Nat), NEW i \in Nat
    PROVE  Append(s, i) \in Seq(Nat) /\ Append(s, i) # <<>> /\ Append(s, i)[Len(Append(s, i))] = i
  OBVIOUS

\* The timer takes the first one (runWorkflowTimer).
LEMMA Taken ==
    ASSUME NEW s \in Seq(Nat), s # <<>>
    PROVE  /\ Head(s) \in Nat /\ Tail(s) \in Seq(Nat)
           /\ Tail(s) # <<>> => Tail(s)[Len(Tail(s))] = s[Len(s)]
           /\ Tail(s) = <<>> => s[Len(s)] = Head(s)
  <1>1. Len(s) \in Nat \ {0} /\ Len(Tail(s)) = Len(s) - 1 /\ Tail(s) \in Seq(Nat) /\ Head(s) = s[1] /\ s[1] \in Nat
    OBVIOUS
  <1>2. \A k \in 1 .. Len(Tail(s)) : Tail(s)[k] = s[k + 1]
    OBVIOUS
  <1>3. Tail(s) # <<>> => Len(Tail(s)) \in 1 .. Len(Tail(s))
    <2>1. Tail(s) # <<>> => Len(Tail(s)) # 0
      BY <1>1
    <2>2. Len(Tail(s)) \in Nat
      BY <1>1
    <2> QED
      BY <2>1, <2>2
  <1>4. Tail(s) = <<>> => Len(s) = 1
    <2>1. Tail(s) = <<>> => Len(Tail(s)) = 0
      <3>1. Len(<<>>) = 0
        OBVIOUS
      <3> QED
        BY <3>1, Zenon
    <2>2. Len(s) \in Nat /\ Len(Tail(s)) = Len(s) - 1
      BY <1>1
    <2> QED
      BY <2>1, <2>2
  <1> QED
    BY <1>1, <1>2, <1>3, <1>4, SMTT(30)

\* The configuration of a workflow was replaced, and its interval sent: the schedules of
\* the others are as they were (sendWorkflowUpdateInLock).
LEMMA ScheduleSent ==
    ASSUME WorkflowInv, WorkflowAssumption, NEW p \in Procs, NEW w \in Wfs, NEW row, NEW isDelete, mux = Free, at[p].wf = w,
           mux' \in {Free, p}, TellPlaces(p, isDelete), missed' = missed, Told(w, row, isDelete), Channels(w),
           \A i \in Nat : (w \in DOMAIN trg' \ missed /\ trg'[w].rss /\ trg'[w].interval = i /\ Deref(i) > 0) => LastSent(w, i)'
    PROVE  TimerInv' /\ ScheduleInv'
  <1>1. TimerInv'
    <2>1. \A v \in Wfs : v # w => (v \in DOMAIN waiter' <=> v \in DOMAIN waiter) /\ timer'[v] = timer[v]
      BY Zenon DEF Channels
    <2>2. w \in DOMAIN waiter' <=> timer'[w].pc # "none"
      BY Zenon DEF Channels
    <2> QED
      BY <2>1, <2>2, Zenon DEF WorkflowInv, TimerInv
  <1>2. ASSUME NEW v \in DOMAIN trg' \ missed', NEW i \in Nat, trg'[v].rss, trg'[v].interval = i, Deref(i) > 0, v # w
        PROVE  LastSent(v, i)'
    <2>1. v \in DOMAIN trg \ missed /\ trg'[v] = trg[v] /\ v \in Wfs
      BY <1>2, Zenon DEF WorkflowInv, WorkflowTyped, TimersTyped, Told
    <2>2. LastSent(v, i)
      BY <1>2, <2>1, Zenon DEF WorkflowInv, ScheduleInv
    <2>3. ~Sends(v) /\ ~Sends(v)'
      BY <1>2, Zenon DEF Sends, TellPlaces
    <2>4. v \in DOMAIN waiter /\ v \in DOMAIN waiter' /\ waiter'[v] = waiter[v] /\ timer'[v] = timer[v]
      <3>1. v \in DOMAIN waiter
        BY <2>2, <2>3, Zenon DEF LastSent
      <3> QED
        BY <1>2, <2>1, <3>1, Zenon DEF Channels
    <2> QED
      BY <2>1, <2>2, <2>3, <2>4, Zenon DEF LastSent
  <1> QED
    BY <1>1, <1>2, ZenonT(60) DEF ScheduleInv

\* The last step of a writer (TellTriggers): the configuration is replaced or removed and
\* the interval sent to the timer, or the handler waits for room in its channel.
LEMMA TellInv ==
    ASSUME WorkflowInv, WorkflowAssumption, NEW p \in Procs, NEW isDelete \in BOOLEAN, NEW code, boot # "no",
           isDelete <=> Op(p) = "wfdelete", TellTriggers(p, isDelete, code),
           NEW w \in Wfs, NEW row, NEW i \in Nat, at[p].wf = w, at[p].row = row, RowTyped(row),
           Deref(row.trig.interval) = i
    PROVE  WorkflowInv' /\ UNCHANGED <<job, cleaner>>
  <1>1. /\ wf' = wf /\ job' = job /\ drawn' = drawn /\ req' = req /\ missed' = missed /\ moved' = moved
        /\ event' = event /\ runner' = runner /\ cleaner' = cleaner /\ boot' = boot /\ serial' = serial
        /\ pc[p] = "update" /\ mux = Free /\ Mix(p, w)
        /\ removed' = IF isDelete THEN removed \cup {w} ELSE removed
    BY DEF TellTriggers, rows, actors, handleWorkflowUpdate
  <1>2. MixedBy(p, w) /\ TellKeeps(w, isDelete)
    BY <1>1, Zenon DEF Mix, MixedBy, TellKeeps
  <1> DEFINE Ends == pc' = [pc EXCEPT ![p] = "done"] /\ at' = at /\ mux' = Free
             Replaces == ~isDelete /\ Triggered(row) /\ trg' = Put(trg, w, row.trig)
  <1>3. \/ Ends /\ (isDelete \/ ~Triggered(row)) /\ trg' = Drop(trg, {w}) /\ waiter' = waiter /\ timer' = timer
        \/ Ends /\ ~isDelete /\ Triggered(row) /\ w \in DOMAIN trg /\ trg[w] = row.trig
                /\ trg' = trg /\ waiter' = waiter /\ timer' = timer
        \/ Ends /\ Replaces /\ w \notin DOMAIN waiter /\ i = 0 /\ waiter' = waiter /\ timer' = timer
        \/ Ends /\ Replaces /\ w \notin DOMAIN waiter /\ i # 0 /\ waiter' = Put(waiter, w, <<i>>)
                /\ timer' = [timer EXCEPT ![w] = [pc |-> "select", period |-> 60]]
        \/ Ends /\ Replaces /\ w \in DOMAIN waiter /\ waiter' = [waiter EXCEPT ![w] = Append(@, i)] /\ timer' = timer
        \/ /\ pc' = [pc EXCEPT ![p] = "send"] /\ at' = [at EXCEPT ![p].send = i, ![p].code = code] /\ mux' = p
           /\ Replaces /\ w \in DOMAIN waiter /\ waiter' = waiter /\ timer' = timer
    BY <1>1, ZenonT(60) DEF TellTriggers, handleWorkflowUpdate, sendWorkflowUpdateInLock, Reply, Goto
  <1>5. /\ pc' \in [Procs -> HandlerPc] /\ pc'[p] \in {"done", "send"} /\ (isDelete => pc'[p] = "done")
        /\ \A q \in Procs : q # p => pc'[q] = pc[q]
        /\ pc'[p] = "send" => mux' = p /\ w \in DOMAIN waiter'
        /\ mux' = p => pc'[p] = "send"
        /\ mux' \in {Free, p}
    <2>1. "done" \in HandlerPc /\ "send" \in HandlerPc /\ p # Free
      BY WorkflowAssumption, Zenon DEF HandlerPc, Free
    <2>2. Goto(p, "done") \/ Goto(p, "send")
      BY <1>3, Zenon DEF Goto
    <2>3. pc' \in [Procs -> HandlerPc] /\ \A q \in Procs : q # p => pc'[q] = pc[q]
      BY <2>1, <2>2, PcGoes, Zenon DEF WorkflowInv, WorkflowTyped
    <2>4. (Goto(p, "done") => pc'[p] = "done") /\ (Goto(p, "send") => pc'[p] = "send")
      BY <2>1, PcGoes, Zenon DEF WorkflowInv, WorkflowTyped
    <2>5. Ends => pc'[p] = "done" /\ mux' = Free
      BY <2>4, Zenon DEF Goto
    <2>6. ~Ends => pc'[p] = "send" /\ mux' = p /\ Replaces /\ w \in DOMAIN waiter'
      BY <1>3, <2>4, Zenon DEF Goto
    <2> HIDE DEF Ends
    <2> QED
      BY <2>1, <2>3, <2>5, <2>6, Zenon
  <1>6. /\ DOMAIN at' = Procs
        /\ \A q \in Procs : DOMAIN at'[q] = {"wf", "row", "send", "code"} /\ RowTyped(at'[q].row) /\ at'[q].send \in Nat
        /\ \A q \in Procs : at'[q].wf = at[q].wf /\ at'[q].row = at[q].row
        /\ mux' = p => at'[p].send = i
    <2>1. CASE at' = at /\ mux' = Free
      <3>1. p # Free
        BY WorkflowAssumption, Zenon DEF Free
      <3> QED
        BY <2>1, <3>1, Zenon DEF WorkflowInv, WorkflowTyped, HandlersTyped
    <2>2. CASE at' = [at EXCEPT ![p].send = i, ![p].code = code]
      BY <1>2, <2>2, AtSends, Zenon DEF WorkflowInv, WorkflowTyped
    <2> QED
      BY <1>3, <2>1, <2>2, Zenon
  <1>7. /\ \A v \in Wfs : v # w => (v \in DOMAIN trg' <=> v \in DOMAIN trg)
        /\ \A v \in DOMAIN trg : v # w => trg'[v] = trg[v]
        /\ DOMAIN trg' \subseteq DOMAIN trg \cup {w}
        /\ w \in DOMAIN trg' <=> ~isDelete /\ Triggered(row)
        /\ w \in DOMAIN trg' => trg'[w] = row.trig
    <2>1. CASE ~isDelete /\ Triggered(row) /\ trg' = Put(trg, w, row.trig)
      <3>1. /\ DOMAIN trg' = DOMAIN trg \cup {w} /\ trg'[w] = row.trig
            /\ \A v \in DOMAIN trg : v # w => trg'[v] = trg[v]
        BY <2>1 DEF Put
      <3> QED
        BY <2>1, <3>1, Zenon
    <2>2. CASE (isDelete \/ ~Triggered(row)) /\ trg' = Drop(trg, {w})
      <3>1. DOMAIN trg' = DOMAIN trg \ {w} /\ \A v \in DOMAIN trg \ {w} : trg'[v] = trg[v]
        BY <2>2 DEF Drop
      <3> QED
        BY <2>2, <3>1, Zenon
    <2>3. CASE ~isDelete /\ Triggered(row) /\ w \in DOMAIN trg /\ trg[w] = row.trig /\ trg' = trg
      BY <2>3, Zenon
    <2> QED
      BY <1>3, <2>1, <2>2, <2>3, Zenon
  <1>4. TellPlaces(p, isDelete) /\ Told(w, row, isDelete)
    BY <1>5, <1>6, <1>7, Zenon DEF TellPlaces, Told
  <1>8. /\ Channels(w) /\ DOMAIN waiter' \subseteq Wfs /\ \A v \in DOMAIN waiter' : waiter'[v] \in Seq(Nat)
        /\ timer' \in [Wfs -> [pc : TimerPc, period : Nat]]
    <2>1. /\ DOMAIN waiter \subseteq Wfs /\ \A v \in DOMAIN waiter : waiter[v] \in Seq(Nat)
          /\ timer \in [Wfs -> [pc : TimerPc, period : Nat]] /\ (w \in DOMAIN waiter <=> timer[w].pc # "none")
      BY <1>2, Zenon DEF WorkflowInv, WorkflowTyped, TimersTyped, TimerInv
    <2>2. CASE waiter' = waiter /\ timer' = timer
      BY <2>1, <2>2, Zenon DEF Channels
    <2>3. CASE waiter' = Put(waiter, w, <<i>>) /\ timer' = [timer EXCEPT ![w] = [pc |-> "select", period |-> 60]]
      <3>1. /\ DOMAIN waiter' = DOMAIN waiter \cup {w} /\ waiter'[w] = <<i>>
            /\ \A v \in DOMAIN waiter : v # w => waiter'[v] = waiter[v]
        BY <2>3 DEF Put
      <3>2. <<i>> \in Seq(Nat)
        BY Single, Zenon
      <3>3. /\ timer' \in [Wfs -> [pc : TimerPc, period : Nat]] /\ timer'[w].pc = "select"
            /\ \A v \in Wfs : v # w => timer'[v] = timer[v]
        BY <2>1, <2>3 DEF TimerPc
      <3> QED
        BY <2>1, <3>1, <3>2, <3>3, Zenon DEF Channels
    <2>4. CASE w \in DOMAIN waiter /\ waiter' = [waiter EXCEPT ![w] = Append(@, i)] /\ timer' = timer
      <3>1. /\ DOMAIN waiter' = DOMAIN waiter /\ waiter'[w] \in Seq(Nat)
            /\ \A v \in DOMAIN waiter : v # w => waiter'[v] = waiter[v]
        <4>1. Append(waiter[w], i) \in Seq(Nat)
          BY <2>1, <2>4, Appended, Zenon
        <4> QED
          BY <2>4, <4>1, Zenon
      <3> QED
        BY <2>1, <2>4, <3>1, Zenon DEF Channels
    <2> QED
      BY <1>3, <2>2, <2>3, <2>4, Zenon
  <1>9. WorkflowTyped'
    <2>1. HandlersTyped'
      BY <1>1, <1>5, <1>6, Zenon DEF WorkflowInv, WorkflowTyped, HandlersTyped, Op
    <2>2. TimersTyped'
      <3>1. \A v \in DOMAIN trg' : v \in Wfs /\ trg'[v].interval \in Nat
        BY <1>2, <1>7, Zenon DEF WorkflowInv, WorkflowTyped, TimersTyped, RowTyped
      <3> QED
        BY <1>2, <1>5, <1>8, <3>1, Zenon DEF WorkflowInv, WorkflowTyped, TimersTyped
    <2>3. RowsTyped' /\ ActorsTyped'
      BY <1>1, <1>2, Zenon DEF WorkflowInv, WorkflowTyped, RowsTyped, ActorsTyped
    <2> QED
      BY <2>1, <2>2, <2>3, Zenon DEF WorkflowTyped
  <1>10. (\A q \in Procs : PlaceInv(q)') /\ MuxInv'
    <2>1. PlaceInv(p)'
      BY <1>2, <1>5, <1>6, Zenon DEF PlaceInv
    <2>2. ASSUME NEW q \in Procs, q # p
          PROVE  PlaceInv(q)'
      <3>1. pc'[q] = pc[q] /\ pc[q] # "send" /\ at'[q].wf = at[q].wf
        BY <1>1, <1>5, <1>6, <2>2, WorkflowAssumption, Zenon DEF WorkflowInv, PlaceInv, Free
      <3> QED
        BY <1>1, <3>1, Zenon DEF WorkflowInv, PlaceInv, W
    <2> QED
      BY <1>5, <2>1, <2>2, Zenon DEF MuxInv
  <1>11. RowInv'
    BY <1>1, <1>2, <1>4, TellRows, Zenon
  <1>12. TimerInv' /\ ScheduleInv'
    <2>1. ASSUME NEW k \in Nat, w \in DOMAIN trg' \ missed, trg'[w].rss, trg'[w].interval = k, Deref(k) > 0
          PROVE  LastSent(w, k)'
      <3>1. row.trig.interval = k /\ i = k /\ i # 0
        BY <1>7, <2>1, Dereferenced, Zenon DEF RowTyped
      <3>2. CASE mux' = p
        BY <1>6, <3>1, <3>2, WorkflowAssumption, Zenon DEF LastSent, Sends, Free
      <3>3. CASE mux' = Free /\ trg' = trg /\ waiter' = waiter /\ timer' = timer
        <4>1. LastSent(w, k)
          BY <2>1, <3>3, Zenon DEF WorkflowInv, ScheduleInv
        <4> QED
          BY <1>1, <3>3, <4>1, Zenon DEF LastSent, Sends
      <3>4. CASE mux' = Free /\ waiter' = Put(waiter, w, <<i>>)
        <4>1. w \in DOMAIN waiter' /\ waiter'[w] = <<i>>
          BY <3>4 DEF Put
        <4>2. <<i>> # <<>> /\ <<i>>[Len(<<i>>)] = i
          BY Single, Zenon
        <4> QED
          BY <3>1, <3>4, <4>1, <4>2, Zenon DEF LastSent, Sends
      <3>5. CASE mux' = Free /\ w \in DOMAIN waiter /\ waiter' = [waiter EXCEPT ![w] = Append(@, i)]
        <4>1. waiter[w] \in Seq(Nat)
          BY <3>5, Zenon DEF WorkflowInv, WorkflowTyped, TimersTyped
        <4>2. /\ w \in DOMAIN waiter' /\ waiter'[w] = Append(waiter[w], i)
          BY <3>5, Zenon
        <4>3. Append(waiter[w], i) # <<>> /\ Append(waiter[w], i)[Len(Append(waiter[w], i))] = i
          BY <4>1, Appended, Zenon
        <4> QED
          BY <3>1, <3>5, <4>2, <4>3, Zenon DEF LastSent, Sends
      <3>6. ~((isDelete \/ ~Triggered(row)) /\ trg' = Drop(trg, {w}))
        BY <1>7, <2>1, Zenon
      <3> QED
        BY <1>3, <3>1, <3>2, <3>3, <3>4, <3>5, <3>6, Zenon
    <2> QED
      BY <1>1, <1>4, <1>5, <1>8, <2>1, ScheduleSent, Zenon
  <1>13. JobInv'
    <2>1. \A q \in Procs : pc'[q] = "delete" => pc[q] = "delete"
      BY <1>5, Zenon
    <2> QED
      BY <1>1, <2>1, JobsKeep, Zenon DEF WorkflowInv
  <1>14. EventInv'
    <2>1. Touched(w)' /\ \A v : Touched(v) => Touched(v)'
      BY <1>6, Zenon DEF Touched
    <2>2. \A v \in Wfs : (HasWf(v) => HasWf(v)') /\ (HasEventJob(v) => HasEventJob(v)')
      BY <1>1, Zenon DEF HasWf, HasEventJob
    <2> QED
      BY <1>1, <1>7, <2>1, <2>2, EventsKeep, Zenon DEF WorkflowInv, WorkflowTyped
  <1>15. StartInv'
    BY <1>1, Zenon DEF StartInv
  <1> QED
    BY <1>1, <1>9, <1>10, <1>11, <1>12, <1>13, <1>14, <1>15, Zenon DEF WorkflowInv

\* The channel has room again, and the sender ends (Send).
LEMMA SendInv ==
    ASSUME WorkflowInv, WorkflowAssumption, NEW p \in Procs, boot # "no", Send(p),
           NEW w \in Wfs, NEW i \in Nat, at[p].wf = w, at[p].send = i
    PROVE  WorkflowInv' /\ UNCHANGED <<job, cleaner>>
  <1>1. /\ wf' = wf /\ job' = job /\ drawn' = drawn /\ req' = req /\ at' = at /\ trg' = trg /\ timer' = timer
        /\ event' = event /\ runner' = runner /\ cleaner' = cleaner /\ boot' = boot /\ serial' = serial
        /\ mixed' = mixed /\ removed' = removed /\ missed' = missed /\ moved' = moved
        /\ pc[p] = "send" /\ mux' = Free
    BY DEF Send, rows, actors, ghosts
  <1>2. mux = p /\ w \in DOMAIN waiter /\ p # Free
    BY <1>1, WorkflowAssumption, Zenon DEF WorkflowInv, PlaceInv, Free
  <1>3. /\ pc' \in [Procs -> HandlerPc] /\ pc'[p] = "done"
        /\ \A q \in Procs : q # p => pc'[q] = pc[q]
    <2>1. "done" \in HandlerPc /\ Goto(p, "done")
      BY Zenon DEF HandlerPc, Send, Reply
    <2> QED
      BY <2>1, PcGoes, Zenon DEF WorkflowInv, WorkflowTyped
  <1>4. waiter[w] \in Seq(Nat) /\ DOMAIN waiter \subseteq Wfs /\ \A v \in DOMAIN waiter : waiter[v] \in Seq(Nat)
    BY <1>2, Zenon DEF WorkflowInv, WorkflowTyped, TimersTyped
  <1>5. /\ DOMAIN waiter' = DOMAIN waiter /\ waiter'[w] = Append(waiter[w], i)
        /\ \A v \in DOMAIN waiter : v # w => waiter'[v] = waiter[v]
    BY <1>2, Zenon DEF Send
  <1>6. \A q \in Procs : q # p => pc[q] # "send"
    BY <1>2, Zenon DEF WorkflowInv, PlaceInv
  <1>7. WorkflowTyped'
    <2>1. HandlersTyped'
      BY <1>1, <1>3, Zenon DEF WorkflowInv, WorkflowTyped, HandlersTyped, Op
    <2>2. TimersTyped'
      <3>1. \A v \in DOMAIN waiter' : waiter'[v] \in Seq(Nat)
        <4>1. Append(waiter[w], i) \in Seq(Nat)
          BY <1>4, Appended, Zenon
        <4> QED
          BY <1>4, <1>5, <4>1, Zenon
      <3> QED
        BY <1>1, <1>4, <1>5, <3>1, Zenon DEF WorkflowInv, WorkflowTyped, TimersTyped
    <2>3. RowsTyped' /\ ActorsTyped'
      BY <1>1, Zenon DEF WorkflowInv, WorkflowTyped, RowsTyped, ActorsTyped
    <2> QED
      BY <2>1, <2>2, <2>3, Zenon DEF WorkflowTyped
  <1>8. (\A q \in Procs : PlaceInv(q)') /\ MuxInv'
    <2>1. PlaceInv(p)'
      BY <1>3, Zenon DEF PlaceInv
    <2>2. ASSUME NEW q \in Procs, q # p
          PROVE  PlaceInv(q)'
      <3>1. pc'[q] = pc[q] /\ pc[q] # "send" /\ at'[q].wf = at[q].wf /\ PlaceInv(q)
        BY <1>1, <1>3, <1>6, <2>2, Zenon DEF WorkflowInv
      <3> QED
        BY <1>1, <3>1, PlaceKept, Zenon
    <2> QED
      BY <1>1, <2>1, <2>2, Zenon DEF MuxInv
  <1>9. RowInv'
    <2>1. ASSUME NEW q \in Procs
          PROVE  FreshInv(q)' /\ UpdateInv(q)'
      <3>1. /\ pc'[q] \in {"enter", "create"} => pc'[q] = pc[q]
            /\ pc'[q] = "update" => pc'[q] = pc[q]
        BY <1>3, Zenon
      <3> QED
        BY <1>1, <3>1, Zenon DEF WorkflowInv, RowInv, FreshInv, UpdateInv, Op, HasWf
    <2>2. GoneInv'
      BY <1>1, <1>3, Zenon DEF WorkflowInv, RowInv, GoneInv, HasWf
    <2>3. TrgInv'
      BY <1>1, Zenon DEF WorkflowInv, RowInv, TrgInv, HasWf, Touched
    <2>4. MatchInv'
      <3>1. \A v \in Wfs : (Telling(v) => Telling(v)') /\ (Matches(v) => Matches(v)')
        BY <1>1, <1>3, Zenon DEF Telling, Matches, Wanted, Triggered
      <3> QED
        BY <1>1, <3>1, Zenon DEF WorkflowInv, RowInv, MatchInv
    <2> QED
      BY <2>1, <2>2, <2>3, <2>4, Zenon DEF RowInv
  <1>10. TimerInv'
    BY <1>1, <1>5, Zenon DEF WorkflowInv, TimerInv
  <1>11. ScheduleInv'
    <2>1. ASSUME NEW v \in Wfs, NEW k \in Nat, LastSent(v, k)
          PROVE  LastSent(v, k)'
      <3>1. ~Sends(v)'
        BY <1>1, Zenon DEF Sends
      <3>2. CASE v = w
        <4>1. Sends(v) /\ at[mux].send = k
          BY <1>2, <2>1, <3>2, Zenon DEF LastSent, Sends
        <4>2. k = i
          BY <1>2, <4>1, Zenon
        <4>3. v \in DOMAIN waiter' /\ waiter'[v] # <<>> /\ waiter'[v][Len(waiter'[v])] = k
          <5>1. Append(waiter[w], i) # <<>> /\ Append(waiter[w], i)[Len(Append(waiter[w], i))] = i
            BY <1>4, Appended, Zenon
          <5>2. v \in DOMAIN waiter' /\ waiter'[v] = Append(waiter[w], i)
            BY <1>2, <1>5, <3>2, Zenon
          <5> QED
            BY <4>2, <5>1, <5>2, Zenon
        <4> QED
          BY <3>1, <4>3, Zenon DEF LastSent
      <3>3. CASE v # w
        <4>1. ~Sends(v)
          BY <1>2, <3>3, Zenon DEF Sends
        <4>2. v \in DOMAIN waiter /\ v \in DOMAIN waiter' /\ waiter'[v] = waiter[v]
          BY <1>5, <2>1, <3>3, <4>1, Zenon DEF LastSent
        <4> QED
          BY <1>1, <2>1, <3>1, <4>1, <4>2, Zenon DEF LastSent
      <3> QED
        BY <3>2, <3>3
    <2>2. DOMAIN trg \subseteq Wfs
      BY Zenon DEF WorkflowInv, WorkflowTyped, TimersTyped
    <2> QED
      BY <1>1, <2>1, <2>2, Zenon DEF WorkflowInv, ScheduleInv
  <1>12. JobInv'
    <2>1. \A q \in Procs : pc'[q] = "delete" => pc[q] = "delete"
      BY <1>3, Zenon
    <2> QED
      BY <1>1, <2>1, JobsKeep, Zenon DEF WorkflowInv
  <1>13. EventInv'
    BY <1>1, EventsRest, Zenon DEF WorkflowInv, WorkflowTyped
  <1>14. StartInv'
    BY <1>1, Zenon DEF StartInv
  <1> QED
    BY <1>1, <1>7, <1>8, <1>9, <1>10, <1>11, <1>12, <1>13, <1>14, Zenon DEF WorkflowInv

----------------------------------------------------------------------------
(* Timers, the created entry, runner and routine task. *)

\* No handler moves, and no row of a workflow or configuration of the triggers changes.
HandlersRest ==
  /\ req' = req /\ pc' = pc /\ at' = at /\ wf' = wf /\ trg' = trg /\ mux' = mux
  /\ boot' = boot /\ serial' = serial /\ mixed' = mixed /\ removed' = removed

JobsRest == job' = job /\ drawn' = drawn /\ runner' = runner /\ cleaner' = cleaner /\ moved' = moved

ChannelsRest == waiter' = waiter /\ timer' = timer /\ missed' = missed

\* What is left to show for such a step.
LEMMA OthersMove ==
    ASSUME WorkflowInv, WorkflowAssumption, HandlersRest, boot # "no",
           runner'.found => \/ runner'.rec.wf \in DOMAIN wf
                            \/ runner.found /\ runner'.rec.wf = runner.rec.wf,
           mux # Free => \A w \in DOMAIN waiter : w \in DOMAIN waiter',
           RowsTyped', TimersTyped', ActorsTyped', TimerInv', ScheduleInv', JobInv', EventInv'
    PROVE  WorkflowInv'
  <1>1. /\ UNCHANGED <<req, pc, at, mux>> /\ boot' = boot
        /\ UNCHANGED <<req, pc, at, wf, trg, mixed, removed, boot>>
    BY DEF HandlersRest
  <1>2. HandlersTyped'
    BY Zenon DEF HandlersRest, WorkflowInv, WorkflowTyped, HandlersTyped, Op
  <1>3. (\A p \in Procs : PlaceInv(p)') /\ MuxInv'
    BY <1>1, PlacesKeep, Zenon DEF WorkflowInv
  <1>4. RowInv'
    BY <1>1, RowsKeep, Zenon DEF WorkflowInv
  <1>5. StartInv'
    BY <1>1, Zenon DEF StartInv
  <1> QED
    BY <1>2, <1>3, <1>4, <1>5, Zenon DEF WorkflowInv, WorkflowTyped

\* Jobs, runner and routine task rest.
LEMMA JobsAside ==
    ASSUME WorkflowInv, HandlersRest, JobsRest
    PROVE  RowsTyped' /\ JobInv' /\ \A v \in Wfs : HasEventJob(v) => HasEventJob(v)'
  <1>1. RowsTyped'
    BY Zenon DEF WorkflowInv, WorkflowTyped, RowsTyped, HandlersRest, JobsRest
  <1>2. JobInv'
    <2>1. /\ UNCHANGED <<req, job, drawn, runner, cleaner, serial>> /\ DOMAIN wf \subseteq DOMAIN wf' /\ moved \subseteq moved'
          /\ \A p \in Procs : pc'[p] = "delete" => pc[p] = "delete"
      BY DEF HandlersRest, JobsRest
    <2> QED
      BY <2>1, JobsKeep, Zenon DEF WorkflowInv
  <1>3. \A v \in Wfs : HasEventJob(v) => HasEventJob(v)'
    BY Zenon DEF JobsRest, HasEventJob
  <1> QED
    BY <1>1, <1>2, <1>3, Zenon

\* The handler of a created entry rests.
LEMMA EventAside ==
    ASSUME WorkflowInv, HandlersRest, event' = event, \A v \in Wfs : HasEventJob(v) => HasEventJob(v)'
    PROVE  EventInv'
  <1>1. /\ \A v \in Wfs : Touched(v) => Touched(v)'
        /\ \A v \in Wfs : HasWf(v) => HasWf(v)'
        /\ \A v \in Wfs : v \in DOMAIN trg => v \in DOMAIN trg' /\ trg'[v] = trg[v]
    BY Zenon DEF HandlersRest, Touched, HasWf
  <1> QED
    BY <1>1, EventsKeep, Zenon DEF WorkflowInv, WorkflowTyped

\* Triggers, channels and timers rest.
LEMMA ChannelsAside ==
    ASSUME WorkflowInv, HandlersRest, ChannelsRest
    PROVE  TimersTyped' /\ TimerInv' /\ ScheduleInv' /\ \A w \in DOMAIN waiter : w \in DOMAIN waiter'
  <1>1. TimersTyped'
    BY Zenon DEF WorkflowInv, WorkflowTyped, TimersTyped, HandlersRest, ChannelsRest
  <1>2. UNCHANGED <<trg, mux, waiter, timer, missed>> /\ (mux # Free => at'[mux] = at[mux])
    BY DEF HandlersRest, ChannelsRest
  <1> QED
    BY <1>1, <1>2, ScheduleKeep, Zenon DEF WorkflowInv

\* Only one timer moves.
OneTimer(w) ==
  /\ \A v \in Wfs : v # w => (v \in DOMAIN waiter' <=> v \in DOMAIN waiter) /\ timer'[v] = timer[v]
  /\ \A v \in DOMAIN waiter : v # w => waiter'[v] = waiter[v]
  /\ missed \subseteq missed'
  /\ w \in DOMAIN waiter' <=> timer'[w].pc # "none"

\* Then what was sent to the others is as it was.
LEMMA TimerTurn ==
    ASSUME WorkflowInv, NEW w \in Wfs, HandlersRest, OneTimer(w),
           \A k \in Nat : (w \in DOMAIN trg \ missed' /\ trg[w].rss /\ trg[w].interval = k /\ Deref(k) > 0 /\ LastSent(w, k))
                            => LastSent(w, k)'
    PROVE  TimerInv' /\ ScheduleInv'
  <1>1. trg' = trg /\ mux' = mux /\ at' = at
    BY Zenon DEF HandlersRest
  <1>2. /\ \A v \in Wfs : v # w => (v \in DOMAIN waiter' <=> v \in DOMAIN waiter) /\ timer'[v] = timer[v]
        /\ \A v \in DOMAIN waiter : v # w => waiter'[v] = waiter[v]
        /\ missed \subseteq missed'
        /\ w \in DOMAIN waiter' <=> timer'[w].pc # "none"
    BY Zenon DEF OneTimer
  <1>3. TimerInv'
    BY <1>2, Zenon DEF WorkflowInv, TimerInv
  <1>4. ASSUME NEW v \in DOMAIN trg \ missed', NEW k \in Nat, trg[v].rss, trg[v].interval = k, Deref(k) > 0
        PROVE  LastSent(v, k)'
    <2>1. LastSent(v, k) /\ v \in Wfs
      BY <1>2, <1>4, Zenon DEF WorkflowInv, ScheduleInv, WorkflowTyped, TimersTyped
    <2>2. CASE v = w
      BY <1>4, <2>1, <2>2, Zenon
    <2>3. CASE v # w
      <3>1. Sends(v)' <=> Sends(v)
        BY <1>1, Zenon DEF Sends
      <3>2. /\ v \in DOMAIN waiter => v \in DOMAIN waiter' /\ waiter'[v] = waiter[v]
            /\ timer'[v] = timer[v]
        BY <1>2, <2>1, <2>3, Zenon
      <3> QED
        BY <1>1, <2>1, <3>1, <3>2, Zenon DEF LastSent
    <2> QED
      BY <2>2, <2>3
  <1> QED
    BY <1>1, <1>3, <1>4, Zenon DEF ScheduleInv

\* A timer goes to another place (At).
LEMMA AtIs ==
    ASSUME TimersTyped, NEW w \in Wfs, NEW l \in TimerPc, At(w, l)
    PROVE  /\ timer' \in [Wfs -> [pc : TimerPc, period : Nat]]
           /\ timer'[w].pc = l /\ timer'[w].period = timer[w].period
           /\ \A v \in Wfs : v # w => timer'[v] = timer[v]
  BY DEF TimersTyped, At

\* It keeps its interval on the way, and ends only when it has none to run with.
LEMMA TimerPlace ==
    ASSUME WorkflowInv, HandlersRest, NEW w \in Wfs, NEW l \in TimerPc \ {"none"}, At(w, l), timer[w].pc # "none",
           waiter' = waiter, missed' = missed,
           l = "exit" => ~(w \in DOMAIN trg /\ Deref(trg[w].interval) > 0 /\ trg[w].rss)
    PROVE  TimersTyped' /\ TimerInv' /\ ScheduleInv' /\ \A v \in DOMAIN waiter : v \in DOMAIN waiter'
  <1>1. /\ timer' \in [Wfs -> [pc : TimerPc, period : Nat]]
        /\ timer'[w].pc = l /\ timer'[w].period = timer[w].period
        /\ \A v \in Wfs : v # w => timer'[v] = timer[v]
    BY AtIs, Zenon DEF WorkflowInv, WorkflowTyped
  <1>2. w \in DOMAIN waiter
    BY Zenon DEF WorkflowInv, TimerInv
  <1>3. OneTimer(w)
    BY <1>1, <1>2, Zenon DEF OneTimer
  <1>4. ASSUME NEW k \in Nat, w \in DOMAIN trg, trg[w].rss, trg[w].interval = k, Deref(k) > 0, LastSent(w, k)
        PROVE  LastSent(w, k)'
    <2>1. mux' = mux /\ at' = at /\ l # "exit"
      BY <1>4, Zenon DEF HandlersRest
    <2> QED
      BY <1>1, <1>4, <2>1, Zenon DEF LastSent, Sends
  <1>5. TimersTyped'
    BY <1>1, Zenon DEF WorkflowInv, WorkflowTyped, TimersTyped, HandlersRest
  <1> QED
    BY <1>3, <1>4, <1>5, TimerTurn, Zenon

\* A new job, of a workflow that was there or, with Postgres, may have been deleted since
\* (SaveWorkflowJob): it has a number of its own and is not busy.
LEMMA JobAdded ==
    ASSUME WorkflowInv, NEW w, NEW by, CanSaveJob(w), InsertJob(w, by), wf' = wf, serial' = serial, req' = req,
           runner' = runner, cleaner' = cleaner, moved' = moved,
           \A p \in Procs : pc'[p] = "delete" => pc[p] = "delete"
    PROVE  /\ RowsTyped' /\ JobInv' /\ \A v : HasEventJob(v) => HasEventJob(v)'
           /\ by = "event" => HasEventJob(w)'
           /\ DOMAIN job \subseteq DOMAIN job'
  <1> DEFINE n == drawn + 1
  <1>1. drawn \in Nat /\ n \in Nat /\ drawn' = n /\ n \notin 1 .. drawn /\ 1 .. n = 1 .. drawn \cup {n}
    BY DEF WorkflowInv, WorkflowTyped, RowsTyped, InsertJob
  <1>2. DOMAIN job \subseteq 1 .. drawn /\ \A j \in DOMAIN job : DOMAIN job[j] = JobFields
    BY Zenon DEF WorkflowInv, WorkflowTyped, RowsTyped
  <1>3. /\ DOMAIN job' = DOMAIN job \cup {n} /\ \A j \in DOMAIN job : job'[j] = job[j]
        /\ DOMAIN job'[n] = JobFields /\ job'[n].wf = w /\ job'[n].status = "initializing" /\ job'[n].by = by
    <2>1. job' = Put(job, n, [wf |-> w, status |-> "initializing", by |-> by, age |-> 0]) /\ n \notin DOMAIN job
      BY <1>1, <1>2, Zenon DEF InsertJob
    <2> HIDE DEF n
    <2>2. /\ DOMAIN job' = DOMAIN job \cup {n} /\ \A j \in DOMAIN job : job'[j] = job[j]
          /\ job'[n] = [wf |-> w, status |-> "initializing", by |-> by, age |-> 0]
      BY <2>1 DEF Put
    <2> QED
      BY <2>2 DEF JobFields
  <1>4. serial => HasWf(w)
    BY Zenon DEF CanSaveJob
  <1> HIDE DEF n
  <1>5. RowsTyped'
    <2>1. DOMAIN job' \subseteq 1 .. drawn' /\ \A j \in DOMAIN job' : DOMAIN job'[j] = JobFields
      BY <1>1, <1>2, <1>3, Zenon
    <2> QED
      BY <1>1, <2>1, Zenon DEF WorkflowInv, WorkflowTyped, RowsTyped
  <1>6. JobHasWorkflow'
    <2>1. serial => \A j \in DOMAIN job : job[j].wf \in DOMAIN wf
      BY Zenon DEF WorkflowInv, JobInv, JobHasWorkflow, HasWf
    <2>2. serial => \A j \in DOMAIN job' : job'[j].wf \in DOMAIN wf
      BY <1>3, <1>4, <2>1, Zenon DEF HasWf
    <2> QED
      BY <2>2, Zenon DEF JobHasWorkflow, HasWf
  <1>7. ASSUME NEW p \in Procs
        PROVE  BusyInv(p)'
    <2>1. ASSUME Op(p) = "wfdelete", pc'[p] = "delete", NEW j \in DOMAIN job', job'[j].wf = W(p), job'[j].status \in Active
          PROVE  j \in moved
      <3>1. j \in DOMAIN job /\ job'[j] = job[j]
        BY <1>3, <2>1, Zenon DEF Active
      <3>2. pc[p] = "delete"
        BY <2>1, Zenon
      <3> QED
        BY <2>1, <3>1, <3>2, Zenon DEF WorkflowInv, JobInv, BusyInv, JobsOf
    <2> QED
      BY <2>1, Zenon DEF BusyInv, JobsOf, Op, W
  <1>8. RunnerInv'
    <2>1. runner.pc \in {"read", "save"} =>
            /\ runner.job \in 1 .. drawn
            /\ runner.job \in DOMAIN job =>
                 /\ job[runner.job].status \notin Ended
                 /\ job[runner.job].wf = runner.rec.wf /\ job[runner.job].by = runner.rec.by
      BY Zenon DEF WorkflowInv, JobInv, RunnerInv
    <2>2. runner.pc \in {"read", "save"} => runner.job \in 1 .. drawn' /\ (runner.job \in DOMAIN job' => runner.job \in DOMAIN job)
      BY <1>1, <1>3, <2>1, Zenon
    <2> QED
      BY <1>3, <2>1, <2>2, Zenon DEF RunnerInv
  <1>9. CleanInv'
    <2>1. ASSUME NEW j \in DOMAIN cleaner.all
          PROVE  /\ j \in 1 .. drawn' /\ cleaner.all[j].status \in Ended
                 /\ j \in DOMAIN job' => job'[j] = cleaner.all[j]
                 /\ runner.pc \in {"read", "save"} => runner.job # j
      <3>1. /\ j \in 1 .. drawn /\ cleaner.all[j].status \in Ended
            /\ j \in DOMAIN job => job[j] = cleaner.all[j]
            /\ runner.pc \in {"read", "save"} => runner.job # j
        BY Zenon DEF WorkflowInv, JobInv, CleanInv
      <3> QED
        BY <1>1, <1>3, <3>1, Zenon
    <2> QED
      BY <2>1, Zenon DEF WorkflowInv, JobInv, CleanInv
  <1>10. \A v : HasEventJob(v) => HasEventJob(v)'
    BY <1>3, Zenon DEF HasEventJob
  <1>11. by = "event" => HasEventJob(w)'
    BY <1>3, Zenon DEF HasEventJob
  <1> QED
    BY <1>3, <1>5, <1>6, <1>7, <1>8, <1>9, <1>10, <1>11, Zenon DEF JobInv

\* No job is lost in a step (the two halves of JobIsNotLost).
JobsSafe ==
  /\ \A j \in DOMAIN job \ DOMAIN job' : job[j].status \in Active => j \in moved
  /\ cleaner' # cleaner => \A j \in DOMAIN job \ DOMAIN job' :
       /\ job[j].status \in DOMAIN JobLiveTime
       /\ \/ job[j].age >= JobLiveTime[job[j].status]
          \/ Cardinality(Newer(j, cleaner.all)) >= MaxKept

\* Nothing is lost where no job is deleted.
LEMMA NoneLost ==
    ASSUME DOMAIN job \subseteq DOMAIN job'
    PROVE  JobsSafe
  BY Zenon DEF JobsSafe

\* A step of a timer that leaves the jobs alone.
LEMMA TimerOnly ==
    ASSUME WorkflowInv, WorkflowAssumption, boot # "no", HandlersRest, JobsRest, event' = event,
           TimersTyped', TimerInv', ScheduleInv', mux # Free => \A v \in DOMAIN waiter : v \in DOMAIN waiter'
    PROVE  WorkflowInv' /\ JobsSafe
  <1>1. RowsTyped' /\ JobInv' /\ EventInv'
    BY JobsAside, EventAside, Zenon
  <1>2. ActorsTyped'
    BY Zenon DEF WorkflowInv, WorkflowTyped, ActorsTyped, HandlersRest, JobsRest
  <1>3. runner' = runner /\ job' = job
    BY Zenon DEF JobsRest
  <1>4. WorkflowInv'
    BY <1>1, <1>2, <1>3, OthersMove, Zenon
  <1> QED
    BY <1>3, <1>4, NoneLost, Zenon

\* The timer fires and looks at the configuration (Tick, TimerConfig).
LEMMA TickInv ==
    ASSUME WorkflowInv, WorkflowAssumption, boot # "no", NEW w \in Wfs, Tick(w) \/ TimerConfig(w)
    PROVE  WorkflowInv' /\ JobsSafe
  <1>1. HandlersRest /\ JobsRest /\ event' = event /\ waiter' = waiter /\ missed' = missed
    <2>1. CASE Tick(w)
      BY <2>1 DEF Tick, HandlersRest, JobsRest, KeepHandler, rows, actors, ghosts
    <2>2. CASE TimerConfig(w)
      BY <2>2 DEF TimerConfig, HandlersRest, JobsRest, KeepHandler, KeepTimers, rows, actors
    <2> QED
      BY <2>1, <2>2
  <1>2. PICK l \in {"tick", "get", "exit"} :
          At(w, l) /\ (l = "exit" => ~(w \in DOMAIN trg /\ Deref(trg[w].interval) > 0 /\ trg[w].rss))
    BY Zenon DEF Tick, TimerConfig
  <1>3. l \in TimerPc \ {"none"} /\ timer[w].pc # "none"
    BY Zenon DEF Tick, TimerConfig, TimerPc
  <1>4. TimersTyped' /\ TimerInv' /\ ScheduleInv' /\ \A v \in DOMAIN waiter : v \in DOMAIN waiter'
    BY <1>1, <1>2, <1>3, TimerPlace, Zenon
  <1> QED
    BY <1>1, <1>4, TimerOnly, Zenon

\* The timer starts a job, or does not (runRSSWorkflow).
LEMMA RssInv ==
    ASSUME WorkflowInv, WorkflowAssumption, boot # "no", NEW w \in Wfs, runRSSWorkflow(w)
    PROVE  WorkflowInv' /\ JobsSafe
  <1>1. /\ HandlersRest /\ event' = event /\ waiter' = waiter /\ missed' = missed
        /\ runner' = runner /\ cleaner' = cleaner /\ moved' = moved
    <2>1. wf' = wf
      BY DEF runRSSWorkflow, rows
    <2> QED
      BY <2>1 DEF runRSSWorkflow, HandlersRest, KeepHandler, KeepTimers, actors
  <1>2. PICK l \in {"save", "select"} : At(w, l)
    BY Zenon DEF runRSSWorkflow
  <1>3. l \in TimerPc \ {"none", "exit"} /\ timer[w].pc # "none"
    BY Zenon DEF runRSSWorkflow, TimerPc
  <1>4. TimersTyped' /\ TimerInv' /\ ScheduleInv' /\ \A v \in DOMAIN waiter : v \in DOMAIN waiter'
    BY <1>1, <1>2, <1>3, TimerPlace, Zenon
  <1>5. CASE UNCHANGED rows
    <2>1. JobsRest
      BY <1>1, <1>5 DEF JobsRest, rows
    <2> QED
      BY <1>1, <1>4, <2>1, TimerOnly, Zenon
  <1>6. CASE CanSaveJob(w) /\ InsertJob(w, "timer")
    <2>1. wf' = wf /\ serial' = serial /\ req' = req /\ pc' = pc
      BY <1>1, Zenon DEF HandlersRest
    <2>2. /\ RowsTyped' /\ JobInv' /\ DOMAIN job \subseteq DOMAIN job'
          /\ \A v : HasEventJob(v) => HasEventJob(v)'
      BY <1>1, <1>6, <2>1, JobAdded, Zenon
    <2>3. ActorsTyped'
      BY <1>1, Zenon DEF WorkflowInv, WorkflowTyped, ActorsTyped, HandlersRest
    <2>4. EventInv'
      BY <1>1, <2>2, EventAside, Zenon
    <2>5. WorkflowInv'
      BY <1>1, <1>4, <2>2, <2>3, <2>4, OthersMove, Zenon
    <2> QED
      BY <2>2, <2>5, NoneLost, Zenon
  <1> QED
    BY <1>5, <1>6, Zenon DEF runRSSWorkflow

\* The timer takes an interval from its channel (TimerUpdate).
LEMMA IntervalInv ==
    ASSUME WorkflowInv, WorkflowAssumption, boot # "no", NEW w \in Wfs, TimerUpdate(w),
           NEW s \in Seq(Nat), waiter[w] = s
    PROVE  WorkflowInv' /\ JobsSafe
  <1>1. HandlersRest /\ JobsRest /\ event' = event /\ missed' = missed
    BY DEF TimerUpdate, HandlersRest, JobsRest, KeepHandler, KeepTimers, rows, actors
  <1>2. w \in DOMAIN waiter /\ s # <<>> /\ timer[w].pc = "select"
    BY Zenon DEF TimerUpdate
  <1>3. /\ Head(s) \in Nat /\ Tail(s) \in Seq(Nat)
        /\ Tail(s) # <<>> => Tail(s)[Len(Tail(s))] = s[Len(s)]
        /\ Tail(s) = <<>> => s[Len(s)] = Head(s)
    BY <1>2, Taken, Zenon
  <1>4. /\ DOMAIN waiter' = DOMAIN waiter /\ waiter'[w] = Tail(s)
        /\ \A v \in DOMAIN waiter : v # w => waiter'[v] = waiter[v]
    BY <1>2, Zenon DEF TimerUpdate
  <1>5. /\ timer' \in [Wfs -> [pc : TimerPc, period : Nat]]
        /\ \A v \in Wfs : v # w => timer'[v] = timer[v]
        /\ timer'[w].pc # "none"
        /\ Head(s) # 0 => timer'[w].pc = "select" /\ timer'[w].period = Head(s)
    <2>1. timer \in [Wfs -> [pc : TimerPc, period : Nat]]
      BY Zenon DEF WorkflowInv, WorkflowTyped, TimersTyped
    <2>2. CASE Head(s) = 0
      <3>1. At(w, "exit") /\ "exit" \in TimerPc
        BY <2>2, Zenon DEF TimerUpdate, TimerPc
      <3> QED
        BY <2>2, <3>1, AtIs, Zenon DEF WorkflowInv, WorkflowTyped
    <2>3. CASE Head(s) # 0
      <3>1. timer' = [timer EXCEPT ![w].period = Head(s)]
        BY <2>3, Zenon DEF TimerUpdate
      <3>2. /\ timer' \in [Wfs -> [pc : TimerPc, period : Nat]]
            /\ \A v \in Wfs : v # w => timer'[v] = timer[v]
            /\ timer'[w].pc = timer[w].pc /\ timer'[w].period = Head(s)
        BY <1>3, <2>1, <3>1
      <3> QED
        BY <1>2, <3>2, Zenon
    <2> QED
      BY <2>2, <2>3
  <1>6. OneTimer(w)
    BY <1>1, <1>2, <1>4, <1>5, Zenon DEF OneTimer
  <1>7. ASSUME NEW k \in Nat, Deref(k) > 0, LastSent(w, k)
        PROVE  LastSent(w, k)'
    <2>1. mux' = mux /\ at' = at /\ (Sends(w)' <=> Sends(w))
      BY <1>1, Zenon DEF HandlersRest, Sends
    <2>2. CASE Sends(w)
      BY <1>7, <2>1, <2>2, Zenon DEF LastSent
    <2>3. CASE ~Sends(w)
      <3>1. s[Len(s)] = k
        BY <1>2, <1>7, <2>3, Zenon DEF LastSent
      <3>2. CASE Tail(s) # <<>>
        <4>1. w \in DOMAIN waiter' /\ waiter'[w] # <<>> /\ waiter'[w][Len(waiter'[w])] = k
          BY <1>2, <1>3, <1>4, <3>1, <3>2, Zenon
        <4> QED
          BY <2>1, <2>3, <4>1, Zenon DEF LastSent
      <3>3. CASE Tail(s) = <<>>
        <4>1. Head(s) = k /\ k # 0
          BY <1>3, <1>7, <3>1, <3>3, Dereferenced, Zenon
        <4>2. w \in DOMAIN waiter' /\ waiter'[w] = <<>> /\ timer'[w].pc # "exit" /\ timer'[w].period = k
          BY <1>2, <1>4, <1>5, <3>3, <4>1, Zenon
        <4> QED
          BY <2>1, <2>3, <4>2, Zenon DEF LastSent
      <3> QED
        BY <3>2, <3>3
    <2> QED
      BY <2>2, <2>3
  <1>8. TimersTyped'
    <2>1. \A v \in DOMAIN waiter' : waiter'[v] \in Seq(Nat)
      BY <1>3, <1>4, Zenon DEF WorkflowInv, WorkflowTyped, TimersTyped
    <2> QED
      BY <1>1, <1>4, <1>5, <2>1, Zenon DEF WorkflowInv, WorkflowTyped, TimersTyped, HandlersRest
  <1>9. TimerInv' /\ ScheduleInv'
    BY <1>1, <1>6, <1>7, TimerTurn, Zenon
  <1> QED
    BY <1>1, <1>4, <1>8, <1>9, TimerOnly, Zenon

\* The timer ends, and takes what is in its channel with it (TimerExit).
LEMMA ExitInv ==
    ASSUME WorkflowInv, WorkflowAssumption, boot # "no", NEW w \in Wfs, TimerExit(w)
    PROVE  WorkflowInv' /\ JobsSafe
  <1>1. HandlersRest /\ JobsRest /\ event' = event /\ mux = Free /\ timer[w].pc = "exit"
    BY DEF TimerExit, HandlersRest, JobsRest, KeepHandler, KeepTimers, rows, actors
  <1>2. DOMAIN waiter' = DOMAIN waiter \ {w} /\ \A v \in DOMAIN waiter \ {w} : waiter'[v] = waiter[v]
    BY DEF TimerExit, Drop
  <1>3. /\ timer' \in [Wfs -> [pc : TimerPc, period : Nat]] /\ timer'[w].pc = "none"
        /\ \A v \in Wfs : v # w => timer'[v] = timer[v]
    BY DEF TimerExit, NoTimer, TimerPc, WorkflowInv, WorkflowTyped, TimersTyped
  <1>4. missed \subseteq missed' /\ (waiter[w] # <<>> => w \in missed')
    BY Zenon DEF TimerExit
  <1>5. OneTimer(w)
    BY <1>2, <1>3, <1>4, Zenon DEF OneTimer
  <1>6. \A k \in Nat : w \notin missed' => ~LastSent(w, k)
    BY <1>1, <1>4, Zenon DEF LastSent, Sends
  <1>7. TimersTyped'
    <2>1. DOMAIN waiter' \subseteq Wfs /\ \A v \in DOMAIN waiter' : waiter'[v] \in Seq(Nat)
      BY <1>2, Zenon DEF WorkflowInv, WorkflowTyped, TimersTyped
    <2> QED
      BY <1>1, <1>3, <2>1, Zenon DEF WorkflowInv, WorkflowTyped, TimersTyped, HandlersRest
  <1>8. TimerInv' /\ ScheduleInv'
    BY <1>1, <1>5, <1>6, TimerTurn, Zenon
  <1> QED
    BY <1>1, <1>7, <1>8, TimerOnly, Zenon

\* What the loop over the map leaves alone.
EventFields == {"pc", "kind", "seen", "cur", "failed", "old", "steady"}
EventSame == event'.steady = event.steady /\ event'.old = event.old /\ event'.kind = event.kind

\* A step of the handler of a created entry (KeepEvent).
LEMMA EventStays ==
    ASSUME KeepEvent
    PROVE  HandlersRest /\ ChannelsRest /\ runner' = runner /\ cleaner' = cleaner /\ moved' = moved
  BY DEF KeepEvent, KeepHandler, HandlersRest, ChannelsRest, timers, ghosts

\* What is left to show for such a step, without a new job ...
LEMMA EventOnly ==
    ASSUME WorkflowInv, WorkflowAssumption, boot # "no", KeepEvent, UNCHANGED <<job, drawn>>,
           DOMAIN event' = EventFields, event'.steady \subseteq Wfs, EventInv'
    PROVE  WorkflowInv' /\ JobsSafe
  <1>1. job' = job /\ drawn' = drawn
    BY Zenon
  <1>2. HandlersRest /\ ChannelsRest /\ JobsRest
    BY <1>1, EventStays, Zenon DEF JobsRest
  <1>3. RowsTyped' /\ JobInv' /\ runner' = runner
    BY <1>2, JobsAside, Zenon DEF JobsRest
  <1>4. TimersTyped' /\ TimerInv' /\ ScheduleInv' /\ \A w \in DOMAIN waiter : w \in DOMAIN waiter'
    BY <1>2, ChannelsAside, Zenon
  <1>5. ActorsTyped'
    BY <1>2, Zenon DEF WorkflowInv, WorkflowTyped, ActorsTyped, EventFields, HandlersRest, JobsRest
  <1>6. WorkflowInv'
    BY <1>2, <1>3, <1>4, <1>5, OthersMove, Zenon
  <1> QED
    BY <1>1, <1>6, NoneLost, Zenon

\* ... and with one.
LEMMA EventAdds ==
    ASSUME WorkflowInv, WorkflowAssumption, boot # "no", KeepEvent, NEW w, CanSaveJob(w), InsertJob(w, "event"),
           DOMAIN event' = EventFields, event'.steady \subseteq Wfs,
           (\A v : HasEventJob(v) => HasEventJob(v)') /\ HasEventJob(w)' => EventInv'
    PROVE  WorkflowInv' /\ JobsSafe
  <1>1. HandlersRest /\ ChannelsRest /\ runner' = runner /\ cleaner' = cleaner /\ moved' = moved
    BY EventStays, Zenon
  <1>2. wf' = wf /\ serial' = serial /\ req' = req /\ pc' = pc
    BY <1>1, Zenon DEF HandlersRest
  <1>3. /\ RowsTyped' /\ JobInv' /\ DOMAIN job \subseteq DOMAIN job'
        /\ (\A v : HasEventJob(v) => HasEventJob(v)') /\ HasEventJob(w)'
    BY <1>1, <1>2, JobAdded, Zenon
  <1>4. TimersTyped' /\ TimerInv' /\ ScheduleInv' /\ \A v \in DOMAIN waiter : v \in DOMAIN waiter'
    BY <1>1, ChannelsAside, Zenon
  <1>5. ActorsTyped'
    BY <1>1, Zenon DEF WorkflowInv, WorkflowTyped, ActorsTyped, EventFields, HandlersRest
  <1>6. WorkflowInv'
    BY <1>1, <1>3, <1>4, <1>5, OthersMove, Zenon
  <1> QED
    BY <1>3, <1>6, NoneLost, Zenon

\* The loop goes on: every workflow that watches for the entry has its turn.
LEMMA TurnsKept ==
    ASSUME WorkflowInv, HandlersRest, EventSame, event'.pc \notin {"new", "load"},
           \A w \in event.steady : EventTurn(w) =>
             /\ w \in event'.seen => event'.failed \/ HasEventJob(w)' \/ (event'.pc \in {"get", "save"} /\ event'.cur = w)
             /\ event'.pc = "done" => w \in event'.seen
    PROVE  EventInv'
  <1>1. ASSUME NEW w \in event.steady, ~Touched(w)
        PROVE  EventTurn(w)'
    <2>1. EventTurn(w)
      BY <1>1, Zenon DEF WorkflowInv, EventInv
    <2>2. w \in event'.old /\ w \in DOMAIN trg' /\ HasWf(w)' /\ Matching(event, trg[w])' 
      BY <2>1, Zenon DEF EventTurn, EventSame, HandlersRest, HasWf, Matching
    <2> QED
      BY <1>1, <2>1, <2>2, Zenon DEF EventTurn
  <1>2. \A w : Touched(w) => Touched(w)'
    BY Zenon DEF HandlersRest, Touched
  <1> QED
    BY <1>1, <1>2, Zenon DEF EventInv, EventSame

\* The fields of the event in hand.
LEMMA EventTyped ==
    ASSUME WorkflowInv
    PROVE  DOMAIN event = EventFields /\ event.steady \subseteq Wfs
  BY Zenon DEF WorkflowInv, WorkflowTyped, ActorsTyped, EventFields

\* Before the loop (EventTake).
LEMMA TakeInv ==
    ASSUME WorkflowInv, WorkflowAssumption, boot # "no", EventTake
    PROVE  WorkflowInv' /\ JobsSafe
  <1>1. PICK l \in {"done", "load"} : event' = [event EXCEPT !.pc = l]
    BY Zenon DEF EventTake, EventGoes
  <1>2. event.steady = {} /\ event.seen = {} /\ KeepEvent /\ UNCHANGED <<job, drawn>>
    BY Zenon DEF EventTake, WorkflowInv, EventInv
  <1>3. DOMAIN event' = EventFields /\ event'.pc = l /\ event'.steady = {} /\ event'.seen = {}
    BY <1>1, <1>2, EventTyped, Zenon DEF EventFields
  <1>4. EventInv'
    BY <1>3, Zenon DEF EventInv
  <1> QED
    BY <1>2, <1>3, <1>4, EventOnly, Zenon

\* The loop begins (EventLoad): whatever matches is in the triggers and has a row, or a
\* request has worked on it.
LEMMA LoopInv ==
    ASSUME WorkflowInv, WorkflowAssumption, boot # "no", EventLoad
    PROVE  WorkflowInv' /\ JobsSafe
  <1>1. event.pc = "load" /\ event.steady = {} /\ event.seen = {} /\ KeepEvent /\ UNCHANGED <<job, drawn>>
    BY Zenon DEF EventLoad, WorkflowInv, EventInv
  <1>2. HandlersRest
    BY <1>1, EventStays, Zenon
  <1>3. CASE event' = [event EXCEPT !.pc = "done", !.failed = TRUE]
    <2>1. DOMAIN event' = EventFields /\ event'.pc = "done" /\ event'.steady = {}
      BY <1>1, <1>3, EventTyped, Zenon DEF EventFields
    <2>2. EventInv'
      BY <2>1, Zenon DEF EventInv
    <2> QED
      BY <1>1, <2>1, <2>2, EventOnly, Zenon
  <1>4. CASE event' = [event EXCEPT !.pc = IF event.kind = "group" THEN "done" ELSE "iterate",
                                    !.old = DOMAIN trg,
                                    !.steady = {w \in DOMAIN trg : Matching(event, trg[w])}]
    <2>1. /\ DOMAIN event' = EventFields /\ event'.pc = (IF event.kind = "group" THEN "done" ELSE "iterate")
          /\ event'.old = DOMAIN trg /\ event'.steady = {w \in DOMAIN trg : Matching(event, trg[w])}
          /\ event'.seen = {} /\ event'.kind = event.kind
      BY <1>1, <1>4, EventTyped, Zenon DEF EventFields
    <2>2. event'.steady \subseteq Wfs
      BY <2>1, Zenon DEF WorkflowInv, WorkflowTyped, TimersTyped
    <2>3. event'.pc \notin {"new", "load"}
      BY <2>1, Zenon
    <2>4. ASSUME NEW w \in event'.steady
          PROVE  Touched(w)' \/ EventTurn(w)'
      <3>1. w \in DOMAIN trg /\ Matching(event, trg[w])
        BY <2>1, <2>4, Zenon
      <3>2. event.kind # "group"
        BY <3>1, Zenon DEF Matching
      <3>3. HasWf(w) \/ Touched(w)
        BY <3>1, Zenon DEF WorkflowInv, RowInv, TrgInv
      <3>4. Touched(w) => Touched(w)'
        BY <1>2, Zenon DEF Touched, HandlersRest
      <3>5. w \in DOMAIN trg' /\ Matching(event, trg[w])' /\ (HasWf(w) => HasWf(w)')
        BY <1>2, <2>1, <3>1, Zenon DEF Matching, HandlersRest, HasWf
      <3> QED
        BY <2>1, <3>1, <3>2, <3>3, <3>4, <3>5, Zenon DEF EventTurn
    <2>5. EventInv'
      BY <2>3, <2>4, Zenon DEF EventInv
    <2> QED
      BY <1>1, <2>1, <2>2, <2>5, EventOnly, Zenon
  <1> QED
    BY <1>3, <1>4, Zenon DEF EventLoad

\* One round of the loop (EventNext).
LEMMA RoundInv ==
    ASSUME WorkflowInv, WorkflowAssumption, boot # "no", EventNext
    PROVE  WorkflowInv' /\ JobsSafe
  <1>1. event.pc = "iterate" /\ KeepEvent /\ UNCHANGED <<job, drawn>>
    BY Zenon DEF EventNext
  <1>2. HandlersRest /\ (job' = job /\ cleaner' = cleaner)
    BY <1>1, EventStays, Zenon
  <1>a. \A w : HasEventJob(w) => HasEventJob(w)'
    BY <1>2, Zenon DEF HasEventJob
  <1>3. CASE event.old \cap DOMAIN trg \subseteq event.seen /\ EventGoes("done")
    <2>1. /\ DOMAIN event' = EventFields /\ event'.pc = "done" /\ EventSame
          /\ event'.seen = event.seen /\ event'.failed = event.failed
      BY <1>3, EventTyped, Zenon DEF EventFields, EventGoes, EventSame
    <2>2. event'.steady \subseteq Wfs
      BY <2>1, EventTyped, Zenon DEF EventSame
    <2>3. ASSUME NEW w \in event.steady, EventTurn(w)
          PROVE  w \in event.seen /\ (event.failed \/ HasEventJob(w)')
      <3>1. w \in event.seen
        BY <1>3, <2>3, Zenon DEF EventTurn
      <3> QED
        BY <1>1, <1>a, <2>3, <3>1, Zenon DEF EventTurn
    <2>4. EventInv'
      BY <1>2, <2>1, <2>3, TurnsKept, Zenon
    <2> QED
      BY <1>1, <2>1, <2>2, <2>4, EventOnly, Zenon
  <1>4. ASSUME NEW v \in DOMAIN trg \ event.seen,
               event' = [event EXCEPT !.seen = @ \cup {v}, !.cur = v,
                                      !.pc = IF Matching(event, trg[v]) THEN "get" ELSE "iterate"]
        PROVE  WorkflowInv' /\ JobsSafe
    <2>1. /\ DOMAIN event' = EventFields /\ EventSame /\ event'.seen = event.seen \cup {v} /\ event'.cur = v
          /\ event'.pc = (IF Matching(event, trg[v]) THEN "get" ELSE "iterate") /\ event'.failed = event.failed
      BY <1>4, EventTyped, Zenon DEF EventFields, EventSame
    <2>2. event'.steady \subseteq Wfs /\ event'.pc \notin {"new", "load", "done"}
      BY <2>1, EventTyped, Zenon DEF EventSame
    <2>3. ASSUME NEW w \in event.steady, EventTurn(w), w \in event'.seen
          PROVE  event'.failed \/ HasEventJob(w)' \/ (event'.pc \in {"get", "save"} /\ event'.cur = w)
      <3>1. CASE w = v
        BY <2>1, <2>3, <3>1, Zenon DEF EventTurn
      <3>2. CASE w # v
        BY <1>1, <1>a, <2>1, <2>3, <3>2, Zenon DEF EventTurn
      <3> QED
        BY <3>1, <3>2, Zenon
    <2>4. EventInv'
      BY <1>2, <2>1, <2>2, <2>3, TurnsKept, Zenon
    <2> QED
      BY <1>1, <2>1, <2>2, <2>4, EventOnly, Zenon
  <1> QED
    BY <1>3, <1>4, Zenon DEF EventNext

\* The workflow at hand is started (EventTrigger).
LEMMA TriggerInv ==
    ASSUME WorkflowInv, WorkflowAssumption, boot # "no", EventTrigger
    PROVE  WorkflowInv' /\ JobsSafe
  <1>1. event.pc \in {"get", "save"} /\ KeepEvent
    BY Zenon DEF EventTrigger
  <1>2. HandlersRest /\ cleaner' = cleaner
    BY <1>1, EventStays, Zenon
  <1>3. PICK l \in {"save", "iterate"} :
          \/ event' = [event EXCEPT !.pc = l]
          \/ event' = [event EXCEPT !.pc = l, !.failed = TRUE]
    BY Zenon DEF EventTrigger, EventGoes
  <1>4. /\ DOMAIN event' = EventFields /\ event'.pc = l /\ EventSame /\ event'.seen = event.seen /\ event'.cur = event.cur
        /\ event.failed => event'.failed
    <2>1. CASE event' = [event EXCEPT !.pc = l]
      BY <2>1, EventTyped, Zenon DEF EventFields, EventSame
    <2>2. CASE event' = [event EXCEPT !.pc = l, !.failed = TRUE]
      BY <2>2, EventTyped, Zenon DEF EventFields, EventSame
    <2> QED
      BY <1>3, <2>1, <2>2, Zenon
  <1>5. event'.steady \subseteq Wfs /\ event'.pc \notin {"new", "load", "done"}
    BY <1>4, EventTyped, Zenon DEF EventSame
  <1>6. ASSUME \A w : HasEventJob(w) => HasEventJob(w)',
               HasWf(event.cur) => event'.pc = "save" \/ event'.failed \/ HasEventJob(event.cur)'
        PROVE  EventInv'
    <2>1. ASSUME NEW w \in event.steady, EventTurn(w), w \in event'.seen
          PROVE  event'.failed \/ HasEventJob(w)' \/ (event'.pc \in {"get", "save"} /\ event'.cur = w)
      <3>1. w \in event.seen /\ HasWf(w)
        BY <1>4, <2>1, Zenon DEF EventTurn
      <3>2. event.failed \/ HasEventJob(w) \/ event.cur = w
        BY <2>1, <3>1, Zenon DEF EventTurn
      <3>3. CASE event.cur = w
        BY <1>4, <1>6, <3>1, <3>3, Zenon
      <3>4. CASE event.failed \/ HasEventJob(w)
        BY <1>4, <1>6, <3>4, Zenon
      <3> QED
        BY <3>2, <3>3, <3>4, Zenon
    <2> QED
      BY <1>2, <1>4, <1>5, <2>1, TurnsKept, Zenon
  <1>7. ASSUME UNCHANGED <<job, drawn>>, HasWf(event.cur) => event'.pc = "save" \/ event'.failed
        PROVE  WorkflowInv' /\ JobsSafe
    <2>1. job' = job
      BY <1>7, Zenon
    <2>2. \A w : HasEventJob(w) => HasEventJob(w)'
      BY <1>2, <2>1, Zenon DEF HasEventJob
    <2>3. EventInv'
      BY <1>6, <1>7, <2>2, Zenon
    <2> QED
      BY <1>1, <1>4, <1>5, <1>7, <2>3, EventOnly, Zenon
  <1>8. CASE UNCHANGED <<job, drawn>> /\ EventGoes(IF HasWf(event.cur) THEN "save" ELSE "iterate")
    <2>1. HasWf(event.cur) => event'.pc = "save"
      BY <1>8, EventTyped, Zenon DEF EventGoes, EventFields
    <2> QED
      BY <1>7, <1>8, <2>1, Zenon
  <1>9. CASE UNCHANGED <<job, drawn>> /\ event' = [event EXCEPT !.pc = "iterate", !.failed = TRUE]
    <2>1. event'.failed
      BY <1>9, EventTyped, Zenon DEF EventFields
    <2> QED
      BY <1>7, <1>9, <2>1, Zenon
  <1>10. CASE UNCHANGED <<job, drawn>> /\ ~HasWf(event.cur)
    BY <1>7, <1>10, Zenon
  <1>11. CASE CanSaveJob(event.cur) /\ InsertJob(event.cur, "event")
    BY <1>1, <1>4, <1>5, <1>6, <1>11, EventAdds, Zenon
  <1> QED
    BY <1>8, <1>9, <1>10, <1>11, Zenon DEF EventTrigger

----------------------------------------------------------------------------
(* Runner and routine task. *)

\* The status of a job that has not ended changes (Move).
LEMMA MoveKeeps ==
    ASSUME WorkflowInv, NEW j \in DOMAIN job, NEW s, job[j].status \notin Ended, s \notin Ended, Move(j, s),
           wf' = wf, drawn' = drawn, serial' = serial, req' = req, runner' = runner, cleaner' = cleaner,
           \A p \in Procs : pc'[p] = "delete" => pc[p] = "delete"
    PROVE  RowsTyped' /\ JobInv' /\ (\A v : HasEventJob(v) => HasEventJob(v)') /\ DOMAIN job' = DOMAIN job
  <1>1. /\ DOMAIN job' = DOMAIN job /\ DOMAIN job[j] = JobFields /\ DOMAIN job \subseteq 1 .. drawn
        /\ \A k \in DOMAIN job : DOMAIN job[k] = JobFields
    BY Zenon DEF Move, WorkflowInv, WorkflowTyped, RowsTyped
  <1>2. /\ DOMAIN job'[j] = JobFields /\ job'[j].status = s
        /\ job'[j].wf = job[j].wf /\ job'[j].by = job[j].by
        /\ \A k \in DOMAIN job : k # j => job'[k] = job[k]
    BY <1>1 DEF Move, JobFields
  <1>3. RowsTyped'
    BY <1>1, <1>2, Zenon DEF RowsTyped, WorkflowInv, WorkflowTyped
  <1>4. \A k \in DOMAIN job : job'[k].wf = job[k].wf /\ job'[k].by = job[k].by
    BY <1>2, Zenon
  <1>5. \A v : HasEventJob(v) => HasEventJob(v)'
    BY <1>1, <1>4, Zenon DEF HasEventJob
  <1>6. JobHasWorkflow'
    BY <1>1, <1>4, Zenon DEF JobHasWorkflow, HasWf, WorkflowInv, JobInv
  <1>7. \A p \in Procs : BusyInv(p)'
    <2>1. ASSUME NEW p \in Procs, Op(p) = "wfdelete", pc'[p] = "delete", NEW k \in DOMAIN job,
                 job'[k].wf = W(p), job'[k].status \in Active
          PROVE  k \in moved'
      <3>1. pc[p] = "delete" /\ Deleting
        BY <2>1, Zenon DEF Deleting
      <3>2. moved' = moved \cup {j}
        BY <3>1, Zenon DEF Move
      <3>3. CASE k = j
        BY <3>2, <3>3, Zenon
      <3>4. CASE k # j
        <4>1. job[k].status \in Active /\ job[k].wf = W(p)
          BY <1>2, <2>1, <3>4, Zenon
        <4> QED
          BY <2>1, <3>1, <3>2, <4>1, Zenon DEF WorkflowInv, JobInv, BusyInv, JobsOf
      <3> QED
        BY <3>3, <3>4
    <2> QED
      BY <1>1, <2>1, Zenon DEF BusyInv, JobsOf, Op, W
  <1>8. RunnerInv'
    <2>1. ASSUME runner.pc \in {"read", "save"}, runner.job \in DOMAIN job
          PROVE  /\ job'[runner.job].status \notin Ended
                 /\ job'[runner.job].wf = runner.rec.wf /\ job'[runner.job].by = runner.rec.by
      <3>1. job[runner.job].status \notin Ended /\ job[runner.job].wf = runner.rec.wf /\ job[runner.job].by = runner.rec.by
        BY <2>1, Zenon DEF WorkflowInv, JobInv, RunnerInv
      <3> QED
        BY <1>2, <1>4, <2>1, <3>1, Zenon
    <2> QED
      BY <1>1, <2>1, Zenon DEF RunnerInv, WorkflowInv, JobInv
  <1>9. CleanInv'
    <2>1. ASSUME NEW k \in DOMAIN cleaner.all, k \in DOMAIN job
          PROVE  job'[k] = cleaner.all[k]
      <3>1. job[k] = cleaner.all[k] /\ cleaner.all[k].status \in Ended
        BY <2>1, Zenon DEF WorkflowInv, JobInv, CleanInv
      <3>2. k # j
        BY <3>1, Zenon
      <3> QED
        BY <1>2, <2>1, <3>1, <3>2, Zenon
    <2> QED
      BY <1>1, <2>1, Zenon DEF CleanInv, WorkflowInv, JobInv
  <1> QED
    BY <1>1, <1>3, <1>5, <1>6, <1>7, <1>8, <1>9, Zenon DEF JobInv

\* What a step of the runner leaves alone (KeepRunner).
LEMMA RunnerStays ==
    ASSUME KeepRunner
    PROVE  /\ drawn' = drawn /\ event' = event /\ cleaner' = cleaner /\ boot' = boot /\ serial' = serial /\ removed' = removed
           /\ req' = req /\ pc' = pc /\ at' = at /\ trg' = trg /\ mux' = mux /\ ChannelsRest
  BY DEF KeepRunner, KeepHandler, ChannelsRest, timers

\* A job is claimed (ClaimNextJob).
LEMMA ClaimInv ==
    ASSUME WorkflowInv, WorkflowAssumption, boot # "no", NEW j \in DOMAIN job, ClaimNextJob(j)
    PROVE  WorkflowInv' /\ JobsSafe
  <1>1. KeepRunner /\ Move(j, "running") /\ job[j].status \notin Ended /\ "running" \notin Ended /\ UNCHANGED <<wf, runner, mixed>>
    BY DEF ClaimNextJob, Ended
  <1>2. wf' = wf /\ runner' = runner /\ mixed' = mixed
    BY <1>1
  <1>3. HandlersRest /\ ChannelsRest
    BY <1>1, <1>2, RunnerStays, Zenon DEF HandlersRest
  <1>4. RowsTyped' /\ JobInv' /\ (\A v : HasEventJob(v) => HasEventJob(v)') /\ DOMAIN job' = DOMAIN job
    BY <1>1, <1>2, RunnerStays, MoveKeeps, Zenon
  <1>5. TimersTyped' /\ TimerInv' /\ ScheduleInv' /\ \A v \in DOMAIN waiter : v \in DOMAIN waiter'
    BY <1>3, ChannelsAside, Zenon
  <1>6. EventInv'
    BY <1>1, <1>3, <1>4, RunnerStays, EventAside, Zenon
  <1>7. ActorsTyped'
    BY <1>1, <1>2, RunnerStays, Zenon DEF WorkflowInv, WorkflowTyped, ActorsTyped
  <1>8. WorkflowInv'
    BY <1>2, <1>3, <1>4, <1>5, <1>6, <1>7, OthersMove, Zenon
  <1> QED
    BY <1>4, <1>8, NoneLost, Zenon

\* A step of the runner that changes no row.
LEMMA RunnerOnly ==
    ASSUME WorkflowInv, WorkflowAssumption, boot # "no", KeepRunner, UNCHANGED <<wf, job, mixed, moved>>,
           DOMAIN runner' = {"pc", "job", "rec", "row", "found"}, DOMAIN runner'.rec = JobFields, RowTyped(runner'.row),
           runner'.found => runner'.rec.wf \in DOMAIN wf, RunnerInv',
           runner'.pc \in {"read", "save"} => \A k \in DOMAIN cleaner.all : runner'.job # k
    PROVE  WorkflowInv' /\ JobsSafe
  <1>1. wf' = wf /\ job' = job /\ mixed' = mixed /\ moved' = moved
    OBVIOUS
  <1>2. HandlersRest /\ ChannelsRest
    BY <1>1, RunnerStays, Zenon DEF HandlersRest
  <1>3. RowsTyped'
    BY <1>1, RunnerStays, Zenon DEF WorkflowInv, WorkflowTyped, RowsTyped
  <1>4. JobInv'
    <2>1. JobHasWorkflow'
      BY <1>1, RunnerStays, Zenon DEF WorkflowInv, JobInv, JobHasWorkflow, HasWf
    <2>2. \A p \in Procs : BusyInv(p)'
      BY <1>1, RunnerStays, Zenon DEF WorkflowInv, JobInv, BusyInv, JobsOf, Op, W
    <2>3. CleanInv'
      BY <1>1, RunnerStays, Zenon DEF WorkflowInv, JobInv, CleanInv
    <2> QED
      BY <2>1, <2>2, <2>3, Zenon DEF JobInv
  <1>5. TimersTyped' /\ TimerInv' /\ ScheduleInv' /\ \A v \in DOMAIN waiter : v \in DOMAIN waiter'
    BY <1>2, ChannelsAside, Zenon
  <1>6. EventInv'
    <2>1. \A v \in Wfs : HasEventJob(v) => HasEventJob(v)'
      BY <1>1, RunnerStays, Zenon DEF HasEventJob
    <2> QED
      BY <1>2, <2>1, RunnerStays, EventAside, Zenon
  <1>7. ActorsTyped'
    BY RunnerStays, Zenon DEF WorkflowInv, WorkflowTyped, ActorsTyped, RowsTyped
  <1>8. WorkflowInv'
    BY <1>2, <1>3, <1>4, <1>5, <1>6, <1>7, OthersMove, Zenon
  <1> QED
    BY <1>1, <1>8, NoneLost, Zenon

\* The runner at rest.
LEMMA RunnerIs ==
    ASSUME NEW l
    PROVE  /\ DOMAIN Runner(l) = {"pc", "job", "rec", "row", "found"} /\ DOMAIN Runner(l).rec = JobFields
           /\ RowTyped(Runner(l).row) /\ Runner(l).found = FALSE /\ Runner(l).pc = l
  BY DEF Runner, JobFields, RowTyped, WorkflowLocal, NoTrigger, Nil

\* It reads the row of a job (RunnerGet) ...
LEMMA RunnerGetInv ==
    ASSUME WorkflowInv, WorkflowAssumption, boot # "no", NEW j \in DOMAIN job, RunnerGet(j)
    PROVE  WorkflowInv' /\ JobsSafe
  <1>1. job[j].status \notin Ended /\ UNCHANGED <<wf, job, mixed, moved>> /\ KeepRunner /\ job' = job /\ drawn' = drawn
    BY DEF RunnerGet, Ended, KeepRunner
  <1>2. DOMAIN job[j] = JobFields /\ j \in 1 .. drawn
    BY Zenon DEF WorkflowInv, WorkflowTyped, RowsTyped
  <1>3. PICK l \in {"save", "read"}, to \in {"succeed", "failed", "paused"} :
          runner' = [Runner(l) EXCEPT !.job = j, !.rec = [job[j] EXCEPT !.status = to]]
    BY Zenon DEF RunnerGet
  <1>4. /\ DOMAIN runner' = {"pc", "job", "rec", "row", "found"} /\ runner'.rec = [job[j] EXCEPT !.status = to]
        /\ runner'.row = Runner(l).row /\ ~runner'.found /\ runner'.job = j
    BY <1>3, RunnerIs, ZenonT(60)
  <1>5. DOMAIN runner'.rec = JobFields /\ runner'.rec.wf = job[j].wf /\ runner'.rec.by = job[j].by
    BY <1>2, <1>4, Zenon DEF JobFields
  <1>6. RowTyped(runner'.row)
    BY <1>4, RunnerIs, Zenon
  <1>7. RunnerInv'
    BY <1>1, <1>2, <1>4, <1>5, Zenon DEF RunnerInv
  <1>8. \A k \in DOMAIN cleaner.all : runner'.job # k
    BY <1>1, <1>4, Zenon DEF WorkflowInv, JobInv, CleanInv
  <1> QED
    BY <1>1, <1>4, <1>5, <1>6, <1>7, <1>8, RunnerOnly, Zenon

\* ... and, in the transaction that saves it, the row of its workflow (RunnerRead).
LEMMA RunnerReadInv ==
    ASSUME WorkflowInv, WorkflowAssumption, boot # "no", RunnerRead
    PROVE  WorkflowInv' /\ JobsSafe
  <1>1. runner.pc = "read" /\ UNCHANGED <<wf, job, mixed, moved>> /\ KeepRunner /\ job' = job /\ drawn' = drawn
    BY Zenon DEF RunnerRead, KeepRunner
  <1>2. CASE HasWf(runner.rec.wf) /\ runner' = [runner EXCEPT !.pc = "save", !.row = wf[runner.rec.wf], !.found = HasJob(runner.job)]
    <2>1. DOMAIN runner = {"pc", "job", "rec", "row", "found"} /\ DOMAIN runner.rec = JobFields
      BY Zenon DEF WorkflowInv, WorkflowTyped, ActorsTyped
    <2>2. /\ DOMAIN runner' = {"pc", "job", "rec", "row", "found"} /\ runner'.rec = runner.rec
          /\ runner'.row = wf[runner.rec.wf] /\ runner'.job = runner.job
      BY <1>2, <2>1, Zenon
    <2>3. RowTyped(runner'.row)
      BY <1>2, <2>2, Zenon DEF WorkflowInv, WorkflowTyped, RowsTyped, HasWf
    <2>4. RunnerInv'
      BY <1>1, <2>2, Zenon DEF RunnerInv, WorkflowInv, JobInv
    <2>5. \A k \in DOMAIN cleaner.all : runner'.job # k
      BY <1>1, <2>2, Zenon DEF WorkflowInv, JobInv, CleanInv
    <2> QED
      BY <1>1, <1>2, <2>1, <2>2, <2>3, <2>4, <2>5, RunnerOnly, Zenon DEF HasWf
  <1>3. CASE runner' = Runner("idle")
    <2>0. runner'.pc = "idle"
      BY <1>3, Zenon DEF Runner
    <2>1. RunnerInv' /\ runner'.pc = "idle"
      BY <2>0 DEF RunnerInv
    <2> QED
      BY <1>1, <1>3, <2>1, RunnerIs, RunnerOnly, Zenon
  <1> QED
    BY <1>2, <1>3, Zenon DEF RunnerRead

\* It saves the job it read, created again if it was deleted.
LEMMA JobSaved ==
    ASSUME WorkflowInv, NEW j, NEW rec, runner.pc = "save", runner.job = j, runner.rec = rec, job' = Put(job, j, rec),
           DOMAIN wf \subseteq DOMAIN wf', serial => rec.wf \in DOMAIN wf,
           moved' = (IF Deleting THEN moved \cup {j} ELSE moved), req' = req, pc' = pc, drawn' = drawn,
           serial' = serial, cleaner' = cleaner, runner'.pc = "idle"
    PROVE  /\ DOMAIN job' \subseteq 1 .. drawn' /\ \A k \in DOMAIN job' : DOMAIN job'[k] = JobFields
           /\ JobInv' /\ (\A v : HasEventJob(v) => HasEventJob(v)') /\ DOMAIN job \subseteq DOMAIN job'
  <1>1. DOMAIN job' = DOMAIN job \cup {j} /\ job'[j] = rec /\ \A k \in DOMAIN job : k # j => job'[k] = job[k]
    BY DEF Put
  <1>2. /\ DOMAIN job \subseteq 1 .. drawn /\ \A k \in DOMAIN job : DOMAIN job[k] = JobFields
        /\ j \in 1 .. drawn /\ DOMAIN rec = JobFields
    BY Zenon DEF WorkflowInv, WorkflowTyped, RowsTyped, ActorsTyped, JobInv, RunnerInv
  <1>3. DOMAIN job' \subseteq 1 .. drawn' /\ \A k \in DOMAIN job' : DOMAIN job'[k] = JobFields
    BY <1>1, <1>2, Zenon
  <1>4. \A k \in DOMAIN job : job'[k].wf = job[k].wf /\ job'[k].by = job[k].by
    BY <1>1, Zenon DEF WorkflowInv, JobInv, RunnerInv
  <1>5. \A v : HasEventJob(v) => HasEventJob(v)'
    <2> SUFFICES ASSUME NEW v, HasEventJob(v)
                 PROVE  HasEventJob(v)'
      BY Zenon
    <2>1. CASE \E k \in DOMAIN job : job[k].wf = v /\ job[k].by = "event"
      <3>1. PICK k \in DOMAIN job : job[k].wf = v /\ job[k].by = "event"
        BY <2>1, Zenon
      <3>2. k \in DOMAIN job' /\ job'[k].wf = v /\ job'[k].by = "event"
        BY <1>1, <1>4, <3>1, Zenon
      <3> QED
        BY <3>2, Zenon DEF HasEventJob
    <2>2. CASE \E k \in DOMAIN cleaner.all : cleaner.all[k].wf = v /\ cleaner.all[k].by = "event"
      BY <2>2, Zenon DEF HasEventJob
    <2> QED
      BY <2>1, <2>2, Zenon DEF HasEventJob
  <1>6. JobHasWorkflow'
    <2>1. serial => \A k \in DOMAIN job : job[k].wf \in DOMAIN wf
      BY Zenon DEF WorkflowInv, JobInv, JobHasWorkflow, HasWf
    <2>2. serial => \A k \in DOMAIN job' : job'[k].wf \in DOMAIN wf'
      BY <1>1, <1>4, <2>1, Zenon
    <2> QED
      BY <2>2, Zenon DEF JobHasWorkflow, HasWf
  <1>7. \A p \in Procs : BusyInv(p)'
    <2>1. ASSUME NEW p \in Procs, Op(p) = "wfdelete", pc[p] = "delete", NEW k \in DOMAIN job',
                 job'[k].wf = W(p), job'[k].status \in Active
          PROVE  k \in moved'
      <3>1. Deleting
        BY <2>1, Zenon DEF Deleting
      <3>2. moved' = moved \cup {j}
        BY <3>1, Zenon
      <3>3. CASE k = j
        BY <3>2, <3>3, Zenon
      <3>4. CASE k # j
        <4>1. k \in DOMAIN job /\ job[k].status \in Active /\ job[k].wf = W(p)
          BY <1>1, <2>1, <3>4, Zenon
        <4> QED
          BY <2>1, <3>2, <4>1, Zenon DEF WorkflowInv, JobInv, BusyInv, JobsOf
      <3> QED
        BY <3>3, <3>4
    <2> QED
      BY <2>1, Zenon DEF BusyInv, JobsOf, Op, W
  <1>8. RunnerInv'
    BY Zenon DEF RunnerInv
  <1>9. CleanInv'
    <2>1. ASSUME NEW k \in DOMAIN cleaner.all
          PROVE  /\ k \in 1 .. drawn /\ cleaner.all[k].status \in Ended
                 /\ k \in DOMAIN job' => job'[k] = cleaner.all[k]
      <3>1. k # j /\ (k \in DOMAIN job => job[k] = cleaner.all[k]) /\ k \in 1 .. drawn /\ cleaner.all[k].status \in Ended
        BY <2>1, Zenon DEF WorkflowInv, JobInv, CleanInv
      <3> QED
        BY <1>1, <3>1, Zenon
    <2>2. runner'.pc \notin {"read", "save"}
      BY Zenon
    <2>3. /\ cleaner.phase \in Ended /\ (cleaner.pc = "list" => cleaner.list = {})
          /\ \A k \in cleaner.list : k \in DOMAIN cleaner.all /\ cleaner.all[k].status = cleaner.phase
      BY Zenon DEF WorkflowInv, JobInv, CleanInv
    <2> QED
      BY <2>1, <2>2, <2>3, Zenon DEF CleanInv
  <1> QED
    BY <1>1, <1>3, <1>5, <1>6, <1>7, <1>8, <1>9, Zenon DEF JobInv

\* The row of the workflow is saved as it was when it was read: that is worth a mark
\* (mixed), since a request may have changed it meanwhile.
LEMMA RowSaved ==
    ASSUME WorkflowInv, NEW w \in Wfs, NEW row, runner.found, runner.rec.wf = w, SaveWorkflow(w, row), ~runner'.found,
           w \in mixed', mixed \subseteq mixed', removed' = removed, req' = req, pc' = pc, at' = at, trg' = trg, boot' = boot
    PROVE  RowInv'
  <1>1. DOMAIN wf' = DOMAIN wf \cup {w} /\ \A v \in DOMAIN wf : v # w => wf'[v] = wf[v]
    BY SaveIs, Zenon
  <1>2. ASSUME NEW q \in Procs
        PROVE  FreshInv(q)'
    <2>1. FreshInv(q)
      BY <1>2, Zenon DEF WorkflowInv, RowInv
    <2>2. (Op(q) = "wfcreate" /\ pc'[q] \in {"enter", "create"}) => pc[q] \in {"enter", "create"} /\ NewWf[q] # w
      BY <2>1, Zenon DEF FreshInv
    <2>3. DOMAIN wf' \subseteq DOMAIN wf \cup {w} /\ removed' \subseteq removed \cup {w} /\ \A r \in Procs : at'[r].wf \in {at[r].wf, w}
      BY <1>1, Zenon
    <2> QED
      BY <1>2, <2>1, <2>2, <2>3, FreshKept, Zenon
  <1>3. ASSUME NEW q \in Procs
        PROVE  UpdateInv(q)'
    <2>1. UpdateInv(q)
      BY <1>3, Zenon DEF WorkflowInv, RowInv
    <2>2. \A v : v # w => (v \in DOMAIN wf' <=> v \in DOMAIN wf)
      BY <1>1, Zenon
    <2> QED
      BY <1>1, <1>3, <2>1, <2>2, UpdateKept, Zenon
  <1>4. \A v \in Wfs \ mixed' : v \notin mixed /\ v # w
    BY Zenon
  <1>5. GoneInv'
    <2>1. ASSUME NEW v \in removed, v \notin mixed'
          PROVE  v \notin DOMAIN wf' /\ \A p \in Procs : at[p].wf = v => pc[p] = "done"
      <3>1. v # w /\ v \notin mixed
        BY <2>1, Zenon
      <3> QED
        BY <1>1, <2>1, <3>1, Zenon DEF WorkflowInv, RowInv, GoneInv, HasWf
    <2> QED
      BY <2>1, Zenon DEF GoneInv, HasWf
  <1>6. TrgInv'
    BY <1>1, Zenon DEF WorkflowInv, RowInv, TrgInv, HasWf, Touched
  <1>7. MatchInv'
    <2>1. ASSUME NEW v \in Wfs, v # w, Matches(v)
          PROVE  Matches(v)'
      <3>1. (v \in DOMAIN wf' <=> v \in DOMAIN wf) /\ (v \in DOMAIN wf => wf'[v] = wf[v])
        BY <1>1, <2>1, Zenon
      <3>2. v \in Wanted <=> v \in Wanted'
        BY <3>1, Zenon DEF Wanted, Triggered
      <3>3. v \in Wanted => v \in DOMAIN wf
        BY Zenon DEF Wanted
      <3> QED
        BY <2>1, <3>1, <3>2, <3>3, Zenon DEF Matches
    <2>2. \A v : Telling(v) => Telling(v)'
      BY Zenon DEF Telling
    <2> QED
      BY <1>4, <2>1, <2>2, Zenon DEF WorkflowInv, RowInv, MatchInv
  <1> QED
    BY <1>2, <1>3, <1>5, <1>6, <1>7, Zenon DEF RowInv

\* The status of a job is saved (SaveWorkflowJob).
LEMMA SaveJobInv ==
    ASSUME WorkflowInv, WorkflowAssumption, boot # "no", SaveWorkflowJob,
           NEW j, NEW rec, NEW row, runner.job = j, runner.rec = rec, runner.row = row
    PROVE  WorkflowInv' /\ JobsSafe
  <1>1. runner.pc = "save" /\ KeepRunner /\ runner' = Runner("idle")
    BY Zenon DEF SaveWorkflowJob
  <1>2. /\ DOMAIN runner' = {"pc", "job", "rec", "row", "found"} /\ DOMAIN runner'.rec = JobFields
        /\ RowTyped(runner'.row) /\ ~runner'.found /\ runner'.pc = "idle"
    BY <1>1, RunnerIs, Zenon
  <1>3. mixed' = IF wf' # wf THEN mixed \cup {rec.wf} ELSE mixed
    BY Zenon DEF SaveWorkflowJob
  <1>4. CASE ~Saves
    <2>1. UNCHANGED <<wf, job, moved>>
      BY <1>4, Zenon DEF SaveWorkflowJob
    <2>2. wf' = wf /\ job' = job /\ moved' = moved
      BY <2>1, Zenon
    <2>3. UNCHANGED <<wf, job, mixed, moved>>
      BY <1>3, <2>2, Zenon
    <2>4. RunnerInv'
      BY <1>2, Zenon DEF RunnerInv
    <2> QED
      BY <1>1, <1>2, <2>3, <2>4, RunnerOnly, Zenon
  <1>5. CASE Saves
    <2>1. /\ job' = Put(job, j, rec) /\ wf' = (IF runner.found THEN Put(wf, rec.wf, row) ELSE wf)
          /\ moved' = (IF Deleting THEN moved \cup {j} ELSE moved)
      BY <1>5, Zenon DEF SaveWorkflowJob
    <2>2. DOMAIN wf \subseteq DOMAIN wf' /\ (serial => rec.wf \in DOMAIN wf)
      BY <1>5, <2>1, Zenon DEF Saves, HasWf, Put
    <2>3. /\ DOMAIN job' \subseteq 1 .. drawn' /\ \A k \in DOMAIN job' : DOMAIN job'[k] = JobFields
          /\ JobInv' /\ (\A v : HasEventJob(v) => HasEventJob(v)') /\ DOMAIN job \subseteq DOMAIN job'
      BY <1>1, <1>2, <2>1, <2>2, RunnerStays, JobSaved, Zenon
    <2>4. ActorsTyped'
      BY <1>1, <1>2, RunnerStays, Zenon DEF WorkflowInv, WorkflowTyped, ActorsTyped
    <2>5. CASE wf' = wf
      <3>1. HandlersRest /\ ChannelsRest
        BY <1>1, <1>3, <2>5, RunnerStays, Zenon DEF HandlersRest
      <3>2. RowsTyped'
        BY <1>1, <2>3, <2>5, RunnerStays, Zenon DEF WorkflowInv, WorkflowTyped, RowsTyped
      <3>3. TimersTyped' /\ TimerInv' /\ ScheduleInv' /\ \A v \in DOMAIN waiter : v \in DOMAIN waiter'
        BY <3>1, ChannelsAside, Zenon
      <3>4. EventInv'
        BY <1>1, <2>3, <3>1, RunnerStays, EventAside, Zenon
      <3> QED
        BY <1>2, <2>3, <2>4, <3>1, <3>2, <3>3, <3>4, OthersMove, NoneLost, Zenon
    <2>6. CASE wf' # wf
      <3>1. runner.found /\ SaveWorkflow(rec.wf, row) /\ mixed' = mixed \cup {rec.wf}
        BY <1>3, <2>1, <2>6, Zenon DEF SaveWorkflow
      <3>2. rec.wf \in Wfs /\ RowTyped(row)
        BY <3>1, Zenon DEF WorkflowInv, WorkflowTyped, ActorsTyped
      <3>3. DOMAIN wf' = DOMAIN wf \cup {rec.wf} /\ wf'[rec.wf] = row /\ \A v \in DOMAIN wf : v # rec.wf => wf'[v] = wf[v]
        BY <3>1, SaveIs, Zenon
      <3>4. RowsTyped'
        <4>1. DOMAIN wf' \subseteq Wfs /\ \A v \in DOMAIN wf' : RowTyped(wf'[v])
          BY <3>2, <3>3, Zenon DEF WorkflowInv, WorkflowTyped, RowsTyped
        <4> QED
          BY <1>1, <2>3, <4>1, RunnerStays, Zenon DEF WorkflowInv, WorkflowTyped, RowsTyped
      <3>5. WorkflowTyped'
        <4>1. HandlersTyped'
          BY <1>1, RunnerStays, Zenon DEF WorkflowInv, WorkflowTyped, HandlersTyped, Op
        <4>2. TimersTyped'
          BY <1>1, RunnerStays, Zenon DEF WorkflowInv, WorkflowTyped, TimersTyped, ChannelsRest
        <4> QED
          BY <2>4, <3>4, <4>1, <4>2, Zenon DEF WorkflowTyped
      <3>6. (\A p \in Procs : PlaceInv(p)') /\ MuxInv'
        <4>1. UNCHANGED <<req, pc, at, mux>> /\ \A v \in DOMAIN waiter : v \in DOMAIN waiter'
          BY <1>1, RunnerStays, Zenon DEF ChannelsRest
        <4> QED
          BY <4>1, PlacesKeep, Zenon DEF WorkflowInv
      <3>7. rec.wf \in mixed' /\ mixed \subseteq mixed'
        BY <3>1, Zenon
      <3>8. RowInv'
        BY <1>1, <1>2, <3>1, <3>2, <3>7, RunnerStays, RowSaved, Zenon
      <3>9. TimerInv' /\ ScheduleInv'
        <4>1. UNCHANGED <<trg, mux, waiter, timer, missed>> /\ at' = at
          BY <1>1, RunnerStays, Zenon DEF ChannelsRest
        <4> QED
          BY <4>1, ScheduleKeep, Zenon DEF WorkflowInv
      <3>10. EventInv'
        <4>1. at' = at /\ trg' = trg /\ event' = event
          BY <1>1, RunnerStays, Zenon
        <4>2. \A v \in Wfs : Touched(v) => Touched(v)'
          BY <4>1, Zenon DEF Touched
        <4>3. \A v \in Wfs : HasWf(v) => HasWf(v)'
          BY <2>2, Zenon DEF HasWf
        <4> QED
          BY <2>3, <4>1, <4>2, <4>3, EventsKeep, Zenon DEF WorkflowInv, WorkflowTyped
      <3>11. StartInv'
        BY <1>1, RunnerStays, Zenon DEF StartInv
      <3>12. WorkflowInv'
        BY <2>3, <3>5, <3>6, <3>8, <3>9, <3>10, <3>11, Zenon DEF WorkflowInv
      <3> QED
        BY <2>3, <3>12, NoneLost, Zenon
    <2> QED
      BY <2>5, <2>6, Zenon
  <1> QED
    BY <1>4, <1>5, Zenon

\* What a step of the routine task leaves alone (KeepCleaner).
LEMMA CleanerStays ==
    ASSUME KeepCleaner
    PROVE  HandlersRest /\ ChannelsRest /\ drawn' = drawn /\ runner' = runner /\ event' = event /\ moved' = moved
  BY DEF KeepCleaner, KeepHandler, HandlersRest, ChannelsRest, timers, ghosts

\* The jobs that are left are as they were, and those that are gone are known to the
\* routine task.
CleanGoes(all) ==
  /\ DOMAIN job' \subseteq DOMAIN job /\ \A k \in DOMAIN job' : job'[k] = job[k]
  /\ DOMAIN job \ DOMAIN job' \subseteq DOMAIN all
  /\ DOMAIN cleaner.all \subseteq DOMAIN all /\ \A k \in DOMAIN cleaner.all : all[k] = cleaner.all[k]

\* A step of the routine task.
LEMMA CleanOnly ==
    ASSUME WorkflowInv, WorkflowAssumption, boot # "no", KeepCleaner, NEW all, cleaner'.all = all, CleanGoes(all),
           \A k \in DOMAIN all \cap DOMAIN job : job[k] = all[k],
           DOMAIN cleaner' = {"pc", "all", "list", "phase"}, CleanInv'
    PROVE  WorkflowInv'
  <1>1. HandlersRest /\ ChannelsRest /\ drawn' = drawn /\ runner' = runner /\ event' = event /\ moved' = moved
    BY CleanerStays, Zenon
  <1>2. req' = req /\ pc' = pc /\ wf' = wf /\ serial' = serial /\ removed' = removed
    BY <1>1, Zenon DEF HandlersRest
  <1>3. DOMAIN job' \subseteq DOMAIN job /\ \A k \in DOMAIN job' : job'[k] = job[k]
    BY Zenon DEF CleanGoes
  <1>4. RowsTyped'
    BY <1>1, <1>2, <1>3, Zenon DEF WorkflowInv, WorkflowTyped, RowsTyped
  <1>5. JobInv'
    <2>1. JobHasWorkflow'
      BY <1>2, <1>3, Zenon DEF WorkflowInv, JobInv, JobHasWorkflow, HasWf
    <2>2. \A p \in Procs : BusyInv(p)'
      <3>1. \A p \in Procs : BusyInv(p)
        BY Zenon DEF WorkflowInv, JobInv
      <3>2. \A p \in Procs : Op(p)' = Op(p) /\ W(p)' = W(p)
        BY <1>2, Zenon DEF Op, W
      <3>3. ASSUME NEW p \in Procs
            PROVE  BusyInv(p)'
        <4>1. \A k \in JobsOf(W(p))' : k \in JobsOf(W(p)) /\ job'[k] = job[k]
          BY <1>3, <3>2, Zenon DEF JobsOf
        <4>2. BusyInv(p) /\ Op(p)' = Op(p) /\ pc' = pc /\ moved' = moved
          BY <1>1, <1>2, <3>1, <3>2, Zenon
        <4> QED
          BY <4>1, <4>2, Zenon DEF BusyInv
      <3> QED
        BY <3>3, Zenon
    <2>3. RunnerInv'
      BY <1>1, <1>3, Zenon DEF WorkflowInv, JobInv, RunnerInv
    <2> QED
      BY <2>1, <2>2, <2>3, Zenon DEF JobInv
  <1>6. ASSUME NEW v, HasEventJob(v)
        PROVE  HasEventJob(v)'
    <2>1. CASE \E k \in DOMAIN cleaner.all : cleaner.all[k].wf = v /\ cleaner.all[k].by = "event"
      BY <2>1, Zenon DEF HasEventJob, CleanGoes
    <2>2. ASSUME NEW k \in DOMAIN job, job[k].wf = v, job[k].by = "event"
          PROVE  HasEventJob(v)'
      <3>1. CASE k \in DOMAIN job'
        BY <1>3, <2>2, <3>1, Zenon DEF HasEventJob
      <3>2. CASE k \notin DOMAIN job'
        <4>1. k \in DOMAIN all /\ all[k] = job[k]
          BY <2>2, <3>2, Zenon DEF CleanGoes
        <4> QED
          BY <2>2, <4>1, Zenon DEF HasEventJob
      <3> QED
        BY <3>1, <3>2, Zenon
    <2> QED
      BY <1>6, <2>1, <2>2, Zenon DEF HasEventJob
  <1>7. EventInv'
    BY <1>1, <1>6, EventAside, Zenon
  <1>8. TimersTyped' /\ TimerInv' /\ ScheduleInv' /\ \A v \in DOMAIN waiter : v \in DOMAIN waiter'
    BY <1>1, ChannelsAside, Zenon
  <1>9. ActorsTyped'
    BY <1>1, <1>2, Zenon DEF WorkflowInv, WorkflowTyped, ActorsTyped
  <1> QED
    BY <1>1, <1>4, <1>5, <1>7, <1>8, <1>9, OthersMove, Zenon

\* What the routine task knows of its jobs.
LEMMA CleanerIs ==
    ASSUME WorkflowInv
    PROVE  /\ DOMAIN cleaner = {"pc", "all", "list", "phase"} /\ cleaner.phase \in Ended
           /\ \A k \in DOMAIN cleaner.all \cap DOMAIN job : job[k] = cleaner.all[k]
           /\ \A k \in DOMAIN cleaner.all : cleaner.all[k].status \in Ended
           /\ \A k \in cleaner.list : k \in DOMAIN cleaner.all /\ cleaner.all[k].status = cleaner.phase
  BY Zenon DEF WorkflowInv, WorkflowTyped, ActorsTyped, JobInv, CleanInv

\* What is left of the jobs (DeleteWorkflowJobs).
LEMMA Dropped ==
    ASSUME NEW gone, job' = job \/ job' = Drop(job, gone)
    PROVE  DOMAIN job' \subseteq DOMAIN job /\ (\A k \in DOMAIN job' : job'[k] = job[k]) /\ DOMAIN job \ DOMAIN job' \subseteq gone
  <1>1. CASE job' = job
    BY <1>1, Zenon
  <1>2. CASE job' = Drop(job, gone)
    BY <1>2 DEF Drop
  <1> QED
    BY <1>1, <1>2

\* A step that leaves the copies of the jobs, and removes jobs among them.
LEMMA CleanKeeps ==
    ASSUME WorkflowInv, WorkflowAssumption, boot # "no", KeepCleaner,
           DOMAIN cleaner' = {"pc", "all", "list", "phase"}, cleaner'.all = cleaner.all,
           cleaner'.list \subseteq cleaner.list, cleaner'.phase \in Ended,
           cleaner'.list = {} \/ (cleaner'.phase = cleaner.phase /\ cleaner'.pc # "list"),
           NEW gone, gone \subseteq DOMAIN cleaner.all, job' = job \/ job' = Drop(job, gone)
    PROVE  WorkflowInv'
  <1>1. DOMAIN job' \subseteq DOMAIN job /\ (\A k \in DOMAIN job' : job'[k] = job[k]) /\ DOMAIN job \ DOMAIN job' \subseteq gone
    BY Dropped, Zenon
  <1>2. CleanGoes(cleaner.all)
    BY <1>1, Zenon DEF CleanGoes
  <1>3. runner' = runner /\ drawn' = drawn
    BY CleanerStays, Zenon
  <1>4. CleanInv'
    <2>1. ASSUME NEW k \in DOMAIN cleaner.all
          PROVE  /\ k \in 1 .. drawn /\ cleaner.all[k].status \in Ended
                 /\ k \in DOMAIN job' => job'[k] = cleaner.all[k]
                 /\ runner.pc \in {"read", "save"} => runner.job # k
      BY <1>1, <2>1, Zenon DEF WorkflowInv, JobInv, CleanInv
    <2>2. \A k \in cleaner'.list : k \in DOMAIN cleaner.all /\ cleaner.all[k].status = cleaner'.phase
      BY CleanerIs, Zenon
    <2> QED
      BY <1>3, <2>1, <2>2, Zenon DEF CleanInv
  <1> QED
    BY <1>2, <1>4, CleanerIs, CleanOnly, Zenon

\* The routine task deletes only jobs that ended and are old or too many.
LEMMA CleanSafe ==
    ASSUME WorkflowInv, NEW gone, gone \subseteq DOMAIN cleaner.all, job' = job \/ job' = Drop(job, gone),
           \A j \in gone : \/ cleaner.all[j].age >= JobLiveTime[cleaner.all[j].status]
                           \/ Cardinality(Newer(j, cleaner.all)) >= MaxKept
    PROVE  JobsSafe
  <1>1. DOMAIN job \ DOMAIN job' \subseteq gone
    BY Dropped, Zenon
  <1>2. DOMAIN JobLiveTime = Ended
    BY DEF JobLiveTime, Ended
  <1>3. \A s \in Ended : s \notin Active
    BY DEF Ended, Active
  <1>4. ASSUME NEW j \in DOMAIN job \ DOMAIN job'
        PROVE  job[j].status \in Ended /\ \/ job[j].age >= JobLiveTime[job[j].status]
                                          \/ Cardinality(Newer(j, cleaner.all)) >= MaxKept
    <2>1. j \in gone /\ job[j] = cleaner.all[j] /\ cleaner.all[j].status \in Ended
      BY <1>1, <1>4, CleanerIs, Zenon
    <2> QED
      BY <2>1, Zenon
  <1> QED
    BY <1>2, <1>3, <1>4, Zenon DEF JobsSafe

\* The finished jobs are listed (CleanList).
LEMMA CleanListInv ==
    ASSUME WorkflowInv, WorkflowAssumption, boot # "no", CleanList
    PROVE  WorkflowInv' /\ JobsSafe
  <1>1. cleaner.pc = "list" /\ job' = job /\ KeepCleaner /\ runner' = runner /\ drawn' = drawn
    BY CleanerStays, Zenon DEF CleanList
  <1>2. CASE cleaner' = [cleaner EXCEPT !.pc = "drop"]
    <2>1. /\ DOMAIN cleaner' = {"pc", "all", "list", "phase"} /\ cleaner'.all = cleaner.all
          /\ cleaner'.list = cleaner.list /\ cleaner'.phase = cleaner.phase /\ cleaner'.pc = "drop"
      BY <1>2, CleanerIs, Zenon
    <2>2. cleaner'.list \subseteq cleaner.list /\ cleaner'.phase \in Ended /\ cleaner'.pc # "list" /\ {} \subseteq DOMAIN cleaner.all
      BY <2>1, CleanerIs, Zenon
    <2> QED
      BY <1>1, <2>1, <2>2, CleanKeeps, NoneLost, Zenon
  <1>3. ASSUME NEW found, found = {j \in DOMAIN job : job[j].status = cleaner.phase},
               cleaner' = [cleaner EXCEPT !.pc = "drop", !.list = found,
                             !.all = [j \in DOMAIN @ \cup found |-> IF j \in found THEN job[j] ELSE @[j]]]
        PROVE  WorkflowInv'
    <2>1. /\ DOMAIN cleaner' = {"pc", "all", "list", "phase"} /\ cleaner'.list = found /\ cleaner'.phase = cleaner.phase
          /\ cleaner'.all = [j \in DOMAIN cleaner.all \cup found |-> IF j \in found THEN job[j] ELSE cleaner.all[j]]
          /\ cleaner'.pc = "drop"
      BY <1>3, CleanerIs, Zenon
    <2>2. PICK all : all = [j \in DOMAIN cleaner.all \cup found |-> IF j \in found THEN job[j] ELSE cleaner.all[j]]
      BY Zenon
    <2>3. /\ DOMAIN all = DOMAIN cleaner.all \cup found /\ cleaner'.all = all
          /\ \A j \in found : all[j] = job[j]
          /\ \A j \in DOMAIN cleaner.all : j \notin found => all[j] = cleaner.all[j]
      BY <2>1, <2>2, Zenon
    <2>4. found \subseteq DOMAIN job /\ \A j \in found : job[j].status = cleaner.phase
      BY <1>3, Zenon
    <2>5. \A j \in DOMAIN cleaner.all : all[j] = cleaner.all[j]
      BY <2>3, <2>4, CleanerIs, Zenon
    <2>6. \A j \in DOMAIN all \cap DOMAIN job : job[j] = all[j]
      BY <2>3, CleanerIs, Zenon
    <2>7. CleanGoes(all)
      BY <1>1, <2>3, <2>5, Zenon DEF CleanGoes
    <2>8. CleanInv'
      <3>1. ASSUME NEW j \in DOMAIN all
            PROVE  /\ j \in 1 .. drawn /\ all[j].status \in Ended
                   /\ runner.pc \in {"read", "save"} => runner.job # j
        <4>1. CASE j \in found
          <5>1. j \in DOMAIN job /\ all[j] = job[j] /\ job[j].status \in Ended
            BY <2>3, <2>4, <4>1, CleanerIs, Zenon
          <5>2. j \in 1 .. drawn
            BY <5>1, Zenon DEF WorkflowInv, WorkflowTyped, RowsTyped
          <5>3. runner.pc \in {"read", "save"} => runner.job # j
            BY <5>1, Zenon DEF WorkflowInv, JobInv, RunnerInv
          <5> QED
            BY <5>1, <5>2, <5>3, Zenon
        <4>2. CASE j \in DOMAIN cleaner.all
          BY <2>5, <4>2, Zenon DEF WorkflowInv, JobInv, CleanInv
        <4> QED
          BY <2>3, <3>1, <4>1, <4>2, Zenon
      <3>2. \A j \in found : j \in DOMAIN all /\ all[j].status = cleaner.phase
        BY <2>3, <2>4, Zenon
      <3>3. cleaner'.pc # "list" /\ cleaner'.phase \in Ended
        BY <2>1, CleanerIs, Zenon
      <3> QED
        BY <1>1, <2>1, <2>3, <2>6, <3>1, <3>2, <3>3, Zenon DEF CleanInv
    <2> QED
      BY <1>1, <2>1, <2>3, <2>6, <2>7, <2>8, CleanOnly, Zenon
  <1> QED
    BY <1>1, <1>2, <1>3, NoneLost, Zenon DEF CleanList

\* Those whose time is over are deleted (CleanDrop).
LEMMA CleanDropInv ==
    ASSUME WorkflowInv, WorkflowAssumption, boot # "no", CleanDrop
    PROVE  WorkflowInv' /\ JobsSafe
  <1>1. cleaner.pc = "drop" /\ KeepCleaner
    BY Zenon DEF CleanDrop
  <1>2. ASSUME NEW j \in cleaner.list, cleaner' = [cleaner EXCEPT !.list = @ \ {j}],
               job' = job \/ (cleaner.all[j].age >= JobLiveTime[cleaner.phase] /\ job' = Drop(job, {j}))
        PROVE  WorkflowInv' /\ JobsSafe
    <2>1. /\ DOMAIN cleaner' = {"pc", "all", "list", "phase"} /\ cleaner'.all = cleaner.all
          /\ cleaner'.list = cleaner.list \ {j} /\ cleaner'.phase = cleaner.phase /\ cleaner'.pc = cleaner.pc
      BY <1>2, CleanerIs, Zenon
    <2>2. /\ cleaner'.list \subseteq cleaner.list /\ cleaner'.phase \in Ended /\ cleaner'.pc # "list"
          /\ {j} \subseteq DOMAIN cleaner.all /\ cleaner.all[j].status = cleaner.phase
      BY <1>1, <1>2, <2>1, CleanerIs, Zenon
    <2>3. WorkflowInv'
      BY <1>1, <1>2, <2>1, <2>2, CleanKeeps, Zenon
    <2>4. CASE job' = job
      BY <2>3, <2>4, NoneLost, Zenon
    <2>5. CASE cleaner.all[j].age >= JobLiveTime[cleaner.phase] /\ job' = Drop(job, {j})
      <3>1. PICK gone : gone = {j}
        BY Zenon
      <3>2. gone \subseteq DOMAIN cleaner.all /\ (job' = job \/ job' = Drop(job, gone))
        BY <2>2, <2>5, <3>1, Zenon
      <3>3. \A k \in gone : cleaner.all[k].age >= JobLiveTime[cleaner.all[k].status]
        BY <2>2, <2>5, <3>1, Zenon
      <3>4. JobsSafe
        BY <3>2, <3>3, CleanSafe
      <3> QED
        BY <2>3, <3>4, Zenon
    <2> QED
      BY <1>2, <2>4, <2>5
  <1>3. CASE /\ cleaner.list = {} /\ UNCHANGED job
             /\ cleaner' = IF cleaner.phase = "succeed" THEN [cleaner EXCEPT !.pc = "list", !.phase = "failed"]
                           ELSE [cleaner EXCEPT !.pc = "excess"]
    <2>1. /\ DOMAIN cleaner' = {"pc", "all", "list", "phase"} /\ cleaner'.all = cleaner.all
          /\ cleaner'.list = {} /\ cleaner'.phase \in {"failed", cleaner.phase}
      BY <1>3, CleanerIs, Zenon
    <2>2. cleaner'.phase \in Ended /\ cleaner'.list \subseteq cleaner.list /\ {} \subseteq DOMAIN cleaner.all
      BY <2>1, CleanerIs, Zenon DEF Ended
    <2> QED
      BY <1>1, <1>3, <2>1, <2>2, CleanKeeps, NoneLost, Zenon
  <1> QED
    BY <1>2, <1>3, Zenon DEF CleanDrop, DeleteWorkflowJobs

\* What is too much is deleted (CleanExcess).
LEMMA CleanExcessInv ==
    ASSUME WorkflowInv, WorkflowAssumption, boot # "no", CleanExcess
    PROVE  WorkflowInv' /\ JobsSafe
  <1>1. KeepCleaner /\ cleaner' = [cleaner EXCEPT !.pc = "done"]
    BY Zenon DEF CleanExcess
  <1>2. PICK gone : gone \subseteq Excess(cleaner.all) /\ job' = Drop(job, gone)
    BY Zenon DEF CleanExcess, DeleteWorkflowJobs
  <1>3. gone \subseteq DOMAIN cleaner.all /\ \A j \in gone : Cardinality(Newer(j, cleaner.all)) >= MaxKept
    BY <1>2, Zenon DEF Excess
  <1>4. /\ DOMAIN cleaner' = {"pc", "all", "list", "phase"} /\ cleaner'.all = cleaner.all
        /\ cleaner'.list = cleaner.list /\ cleaner'.phase = cleaner.phase /\ cleaner'.pc = "done"
    BY <1>1, CleanerIs, Zenon
  <1>5. cleaner'.list \subseteq cleaner.list /\ cleaner'.phase \in Ended /\ cleaner'.pc # "list"
    BY <1>4, CleanerIs, Zenon
  <1>6. WorkflowInv'
    BY <1>1, <1>2, <1>3, <1>4, <1>5, CleanKeeps, Zenon
  <1> QED
    BY <1>2, <1>3, <1>6, CleanSafe, Zenon

----------------------------------------------------------------------------
(* The handlers as a whole. *)

\* A handler ends, or goes on, and nothing else happens.
LEMMA GoesOn ==
    ASSUME WorkflowInv, WorkflowAssumption, NEW p \in Procs, NEW l \in Plain \cup {"delete"}, Goto(p, l),
           UNCHANGED <<req, at>>, KeepAll, boot # "no", pc[p] \notin {"update", "send", "done"},
           l = "create" => pc[p] = "enter",
           l \in Plain \ {"done"} => pc[p] \in {"enter", "create", "get", "insert", "control"},
           l = "delete" => pc[p] = "list" /\ ~Busy(W(p))
    PROVE  WorkflowInv' /\ JobsSafe
  <1>1. l \in Plain \ {"done"} => at[p].wf = ""
    BY Zenon DEF WorkflowInv, PlaceInv
  <1>2. WorkflowInv'
    BY <1>1, PcStep, Zenon
  <1> QED
    BY <1>2, AllKept, NoneLost, Zenon

\* It ends with an answer (GiveUp).
LEMMA Answered ==
    ASSUME WorkflowInv, WorkflowAssumption, NEW p \in Procs, NEW code, GiveUp(p, code), boot # "no",
           pc[p] \notin {"update", "send", "done"}
    PROVE  WorkflowInv' /\ JobsSafe
  <1>1. UNCHANGED <<req, at>> /\ KeepAll /\ Goto(p, "done") /\ "done" \in Plain \cup {"delete"}
    BY Zenon DEF GiveUp, Reply, Plain
  <1> QED
    BY <1>1, GoesOn, Zenon

\* The handlers that only read.
LEMMA ReadInv ==
    ASSUME WorkflowInv, WorkflowAssumption, NEW p \in Procs, boot # "no",
           ListWorkflows(p) \/ ListWorkflowJobs(p) \/ GetWorkflow(p) \/ GetJob(p)
    PROVE  WorkflowInv' /\ JobsSafe
  <1>1. pc[p] = "enter" /\ KeepAll /\ UNCHANGED <<req, at>> /\ Goto(p, "done")
    BY Zenon DEF ListWorkflows, ListWorkflowJobs, GetWorkflow, GetJob, ReadOnly, Reply
  <1>2. "done" \in Plain \cup {"delete"} /\ pc[p] \notin {"update", "send", "done"}
    BY <1>1, Zenon DEF Plain
  <1> QED
    BY <1>1, <1>2, GoesOn, Zenon

\* The triggers are told (TellTriggers).
LEMMA Tells ==
    ASSUME WorkflowInv, WorkflowAssumption, NEW p \in Procs, NEW isDelete \in BOOLEAN, NEW code, boot # "no",
           isDelete <=> Op(p) = "wfdelete", TellTriggers(p, isDelete, code)
    PROVE  WorkflowInv' /\ JobsSafe
  <1>1. at[p].wf \in Wfs /\ RowTyped(at[p].row)
    BY Zenon DEF TellTriggers, WorkflowInv, PlaceInv, WorkflowTyped, HandlersTyped
  <1>2. PICK w \in Wfs, row \in {at[p].row} : at[p].wf = w /\ at[p].row = row
    BY <1>1, Zenon
  <1>3. RowTyped(row)
    BY <1>1, <1>2, Zenon
  <1>4. Deref(row.trig.interval) \in Nat
    BY <1>3 DEF RowTyped, Deref
  <1>5. WorkflowInv' /\ UNCHANGED <<job, cleaner>>
    BY <1>2, <1>3, <1>4, TellInv, Zenon
  <1>6. job' = job
    BY <1>5
  <1> QED
    BY <1>5, <1>6, NoneLost, Zenon

\* The channel has room (Send).
LEMMA Sent ==
    ASSUME WorkflowInv, WorkflowAssumption, NEW p \in Procs, boot # "no", Send(p)
    PROVE  WorkflowInv' /\ JobsSafe
  <1>1. at[p].wf \in Wfs /\ at[p].send \in Nat
    BY Zenon DEF Send, WorkflowInv, PlaceInv, WorkflowTyped, HandlersTyped
  <1>2. PICK w \in Wfs, i \in Nat : at[p].wf = w /\ at[p].send = i
    BY <1>1, Zenon
  <1>3. WorkflowInv' /\ UNCHANGED <<job, cleaner>>
    BY <1>2, SendInv, Zenon
  <1>4. job' = job
    BY <1>3, Zenon
  <1> QED
    BY <1>3, <1>4, NoneLost, Zenon

\* A workflow is created (HandleCreateWorkflow).
LEMMA CreateInv ==
    ASSUME WorkflowInv, WorkflowAssumption, NEW p \in Procs, boot # "no", HandleCreateWorkflow(p)
    PROVE  WorkflowInv' /\ JobsSafe
  <1>1. Op(p) = "wfcreate"
    BY Zenon DEF HandleCreateWorkflow
  <1>2. CASE pc[p] \in {"enter", "create"} /\ GiveUp(p, 400)
    <2>1. pc[p] \notin {"update", "send", "done"}
      BY <1>2, Zenon
    <2> QED
      BY <1>2, <2>1, Answered, Zenon
  <1>3. CASE pc[p] = "enter" /\ Goto(p, "create") /\ KeepAll /\ UNCHANGED <<req, resp, at>>
    <2>1. UNCHANGED <<req, at>> /\ "create" \in Plain \cup {"delete"}
      BY <1>3, Zenon DEF Plain
    <2> QED
      BY <1>3, <2>1, GoesOn, Zenon
  <1>4. CASE /\ pc[p] = "create" /\ SaveWorkflow(NewWf[p], initWorkflow(req[p]))
             /\ at' = [at EXCEPT ![p].wf = NewWf[p], ![p].row = initWorkflow(req[p])] /\ Goto(p, "update")
             /\ UNCHANGED <<req, resp, job, drawn, timers, actors, fatal, ghosts>>
    <2>0. PICK row : row = initWorkflow(req[p])
      OBVIOUS
    <2>1. PICK w \in Wfs : w = NewWf[p]
      BY WorkflowAssumption, Zenon
    <2>2. row.trig.interval = req[p].trig.interval
      BY <2>0, Zenon DEF initWorkflow
    <2>3. RowTyped(row)
      BY <1>1, <2>2, Zenon DEF RowTyped, WorkflowInv, WorkflowTyped, HandlersTyped
    <2>4. Noted(p, w, row)
      BY <1>4, <2>0, <2>1, <2>3, AtLoads, Zenon DEF WorkflowInv, WorkflowTyped
    <2>5. w \notin removed /\ \A q \in Procs : at[q].wf # w
      BY <1>1, <1>4, <2>1, Zenon DEF WorkflowInv, RowInv, FreshInv
    <2>6. Known(p, w)
      BY <2>1, <2>5, WorkflowAssumption, Zenon DEF Known, WorkflowAssumption
    <2>7. /\ UNCHANGED <<job, drawn, timers, actors, removed, missed, moved>> /\ req' = req /\ mixed' = mixed /\ job' = job
      BY <1>4, Zenon DEF ghosts
    <2>8. MixedBy(p, w)
      BY <2>5, <2>7, Zenon DEF MixedBy, Shared
    <2>9. at[p].wf \in {"", w} /\ Op(p) # "wfdelete" /\ pc[p] \in {"create", "save"}
      BY <1>1, <1>4, Zenon DEF WorkflowInv, PlaceInv
    <2>10. SaveWorkflow(w, row)
      BY <1>4, <2>0, <2>1, Zenon
    <2>11. WorkflowInv'
      BY <1>4, <2>3, <2>4, <2>6, <2>7, <2>8, <2>9, <2>10, WriteInv, Zenon
    <2> QED
      BY <2>7, <2>11, NoneLost, Zenon
  <1>5. CASE TellTriggers(p, FALSE, 201)
    BY <1>1, <1>5, Tells, Zenon
  <1> QED
    BY <1>2, <1>3, <1>4, <1>5, Zenon DEF HandleCreateWorkflow, CreateWorkflow

\* A workflow is updated (HandleUpdateWorkflow).
LEMMA ChangeInv ==
    ASSUME WorkflowInv, WorkflowAssumption, NEW p \in Procs, boot # "no", HandleUpdateWorkflow(p)
    PROVE  WorkflowInv' /\ JobsSafe
  <1>1. Op(p) = "wfupdate"
    BY Zenon DEF HandleUpdateWorkflow
  <1>2. CASE pc[p] \in {"enter", "save"} /\ (GiveUp(p, 400) \/ GiveUp(p, 404))
    <2>1. pc[p] \notin {"update", "send", "done"}
      BY <1>2, Zenon
    <2>2. CASE GiveUp(p, 400)
      BY <2>1, <2>2, Answered, ZenonT(60)
    <2>3. CASE GiveUp(p, 404)
      BY <2>1, <2>3, Answered, ZenonT(60)
    <2> QED
      BY <1>2, <2>2, <2>3, Zenon
  <1>3. CASE /\ pc[p] = "enter" /\ HasWf(W(p)) /\ Goto(p, "save")
             /\ at' = [at EXCEPT ![p].wf = W(p), ![p].row = Merged(wf[W(p)], req[p])]
             /\ KeepAll /\ UNCHANGED <<req, resp>>
    <2>0. PICK row : row = Merged(wf[W(p)], req[p])
      OBVIOUS
    <2>1. wf[W(p)].trig.interval \in Nat /\ req[p].trig.interval \in Nat
      BY <1>1, <1>3, Zenon DEF WorkflowInv, WorkflowTyped, RowsTyped, HandlersTyped, HasWf, RowTyped
    <2>2. row.trig = IF req[p].trig # NoTrigger THEN req[p].trig ELSE wf[W(p)].trig
      BY <2>0, Zenon DEF Merged
    <2>3. RowTyped(row)
      BY <2>1, <2>2, Zenon DEF RowTyped
    <2>4. Noted(p, W(p), row)
      BY <1>3, <2>0, <2>3, AtLoads, Zenon DEF WorkflowInv, WorkflowTyped
    <2>5. req' = req /\ "save" \in {"save", "list"}
      BY <1>3, Zenon
    <2>6. WorkflowInv'
      BY <1>3, <2>4, <2>5, LoadInv, Zenon
    <2> QED
      BY <1>3, <2>6, AllKept, NoneLost, Zenon
  <1>4. CASE /\ pc[p] = "save" /\ SaveWorkflow(W(p), at[p].row) /\ Mix(p, W(p)) /\ Goto(p, "update")
             /\ UNCHANGED <<req, resp, at, job, drawn, timers, actors, fatal, removed, missed, moved>>
    <2>1. at[p].wf = W(p) /\ W(p) \in Wfs
      BY <1>4, Zenon DEF WorkflowInv, PlaceInv
    <2>2. PICK w \in Wfs, row \in {at[p].row} : w = W(p) /\ row = at[p].row
      BY <2>1, Zenon
    <2>3. UNCHANGED <<job, drawn, timers, actors, removed, missed, moved>> /\ req' = req /\ at' = at /\ job' = job
      BY <1>4, Zenon
    <2>4. RowTyped(row) /\ Noted(p, w, row)
      BY <2>1, <2>2, <2>3, Zenon DEF WorkflowInv, WorkflowTyped, HandlersTyped, Noted
    <2>5. Known(p, w)
      <3>1. w \in removed => w \in mixed
        BY <1>4, <2>1, <2>2, Zenon DEF WorkflowInv, RowInv, GoneInv
      <3>2. \A q \in Procs : q # p /\ Op(q) = "wfcreate" /\ pc[q] \in {"enter", "create"} => NewWf[q] # w
        BY <2>1, <2>2, Zenon DEF WorkflowInv, RowInv, FreshInv
      <3> QED
        BY <3>1, <3>2, Zenon DEF Known
    <2>6. MixedBy(p, w)
      BY <1>4, <2>2, Zenon DEF MixedBy, Mix
    <2>7. SaveWorkflow(w, row) /\ at[p].wf \in {"", w} /\ Op(p) # "wfdelete" /\ pc[p] \in {"create", "save"}
      BY <1>1, <1>4, <2>1, <2>2, Zenon
    <2>8. WorkflowInv'
      BY <1>4, <2>3, <2>4, <2>5, <2>6, <2>7, WriteInv, Zenon
    <2> QED
      BY <2>3, <2>8, NoneLost, Zenon
  <1>5. CASE TellTriggers(p, FALSE, 200)
    BY <1>1, <1>5, Tells, Zenon
  <1> QED
    BY <1>2, <1>3, <1>4, <1>5, ZenonT(60) DEF HandleUpdateWorkflow, UpdateWorkflow

\* A workflow is deleted (HandleDeleteWorkflow).
LEMMA RemoveInv ==
    ASSUME WorkflowInv, WorkflowAssumption, NEW p \in Procs, boot # "no", HandleDeleteWorkflow(p)
    PROVE  WorkflowInv' /\ JobsSafe
  <1>1. Op(p) = "wfdelete"
    BY Zenon DEF HandleDeleteWorkflow
  <1>2. CASE pc[p] \in {"enter", "list", "delete"} /\ GiveUp(p, 400)
    <2>1. pc[p] \notin {"update", "send", "done"}
      BY <1>2, Zenon
    <2> QED
      BY <1>2, <2>1, Answered, Zenon
  <1>3. CASE /\ pc[p] = "enter" /\ HasWf(W(p)) /\ Goto(p, "list")
             /\ at' = [at EXCEPT ![p].wf = W(p), ![p].row = wf[W(p)]]
             /\ KeepAll /\ UNCHANGED <<req, resp>>
    <2>0. PICK row : row = wf[W(p)]
      OBVIOUS
    <2>1. RowTyped(row)
      BY <1>3, <2>0, Zenon DEF WorkflowInv, WorkflowTyped, RowsTyped, HasWf
    <2>2. Noted(p, W(p), row)
      BY <1>3, <2>0, <2>1, AtLoads, Zenon DEF WorkflowInv, WorkflowTyped
    <2>3. req' = req /\ "list" \in {"save", "list"}
      BY <1>3, Zenon
    <2>4. WorkflowInv'
      BY <1>3, <2>2, <2>3, LoadInv, Zenon
    <2> QED
      BY <1>3, <2>4, AllKept, NoneLost, Zenon
  <1>4. CASE pc[p] = "list" /\ ~Busy(W(p)) /\ Goto(p, "delete") /\ KeepAll /\ UNCHANGED <<req, resp, at>>
    <2>1. UNCHANGED <<req, at>> /\ "delete" \in Plain \cup {"delete"} /\ "delete" \notin Plain
      BY <1>4, Zenon DEF Plain
    <2> QED
      BY <1>4, <2>1, GoesOn, Zenon
  <1>5. CASE /\ pc[p] = "delete" /\ DeleteWorkflowRow(W(p)) /\ Mix(p, W(p)) /\ Goto(p, "update")
             /\ UNCHANGED <<req, resp, at, drawn, timers, actors, fatal, removed, missed, moved>>
    <2>1. PICK w \in Wfs : w = W(p)
      BY <1>5, Zenon DEF WorkflowInv, PlaceInv
    <2>2. UNCHANGED <<req, at, drawn, timers, actors, removed, missed, moved>> /\ cleaner' = cleaner
      BY <1>5, Zenon DEF actors
    <2>3. DeleteWorkflowRow(w) /\ MixedBy(p, w)
      BY <1>5, <2>1, Zenon DEF MixedBy, Mix
    <2>4. WorkflowInv' /\ \A j \in DOMAIN job \ DOMAIN job' : job[j].status \in Active => j \in moved
      BY <1>1, <1>5, <2>1, <2>2, <2>3, DeleteRowInv, Zenon
    <2> QED
      BY <2>2, <2>4, Zenon DEF JobsSafe
  <1>6. CASE TellTriggers(p, TRUE, 200)
    BY <1>1, <1>6, Tells, Zenon
  <1> QED
    BY <1>2, <1>3, <1>4, <1>5, <1>6, ZenonT(60) DEF HandleDeleteWorkflow, DeleteWorkflow

\* A request on a job ends: nothing changes but the jobs.
LEMMA JobRequest ==
    ASSUME WorkflowInv, WorkflowAssumption, NEW p \in Procs, boot # "no", pc[p] \in {"insert", "control"}, Goto(p, "done"),
           UNCHANGED <<req, at, wf, timers, actors, mixed, removed, missed>>,
           RowsTyped', JobInv', \A v : HasEventJob(v) => HasEventJob(v)'
    PROVE  WorkflowInv'
  <1>1. /\ req' = req /\ at' = at /\ wf' = wf /\ trg' = trg /\ mux' = mux /\ waiter' = waiter /\ timer' = timer
        /\ event' = event /\ runner' = runner /\ cleaner' = cleaner /\ boot' = boot
        /\ mixed' = mixed /\ removed' = removed /\ missed' = missed
    BY Zenon DEF timers, actors
  <1>2. /\ pc' \in [Procs -> HandlerPc] /\ pc'[p] = "done"
        /\ \A q \in Procs : q # p => pc'[q] = pc[q]
    <2>1. "done" \in HandlerPc
      BY Zenon DEF HandlerPc
    <2> QED
      BY <2>1, PcGoes, Zenon DEF WorkflowInv, WorkflowTyped
  <1>3. at[p].wf = "" /\ "" \notin Wfs
    BY WorkflowAssumption, Zenon DEF WorkflowInv, PlaceInv, WorkflowAssumption
  <1>4. WorkflowTyped'
    <2>1. HandlersTyped'
      BY <1>1, <1>2, Zenon DEF WorkflowInv, WorkflowTyped, HandlersTyped, Op
    <2>2. TimersTyped' /\ ActorsTyped'
      BY <1>1, Zenon DEF WorkflowInv, WorkflowTyped, TimersTyped, ActorsTyped
    <2> QED
      BY <2>1, <2>2, Zenon DEF WorkflowTyped
  <1>5. \A q \in Procs : PlaceInv(q)'
    <2>1. PlaceInv(p)'
      BY <1>2, Zenon DEF PlaceInv
    <2>2. ASSUME NEW q \in Procs, q # p
          PROVE  PlaceInv(q)'
      BY <1>1, <1>2, <2>2, PlaceKept, Zenon DEF WorkflowInv, PlaceInv
    <2> QED
      BY <2>1, <2>2
  <1>6. MuxInv'
    BY <1>1, <1>2, Zenon DEF WorkflowInv, MuxInv, WorkflowTyped, TimersTyped
  <1>7. RowInv'
    <2>1. ASSUME NEW q \in Procs
          PROVE  FreshInv(q)' /\ UpdateInv(q)'
      <3>1. pc'[q] = "done" \/ pc'[q] = pc[q]
        BY <1>2, <2>1, Zenon
      <3>2. CASE pc'[q] = "done"
        BY <3>2, Zenon DEF FreshInv, UpdateInv
      <3>3. CASE pc'[q] = pc[q]
        BY <1>1, <2>1, <3>3, Zenon DEF WorkflowInv, RowInv, FreshInv, UpdateInv, Op, HasWf
      <3> QED
        BY <3>1, <3>2, <3>3, Zenon
    <2>2. GoneInv'
      <3>1. \A q \in Procs : pc[q] = "done" => pc'[q] = "done"
        BY <1>2, Zenon
      <3> QED
        BY <1>1, <3>1, Zenon DEF WorkflowInv, RowInv, GoneInv, HasWf
    <2>3. TrgInv'
      BY <1>1, Zenon DEF WorkflowInv, RowInv, TrgInv, HasWf, Touched
    <2>4. MatchInv'
      <3>1. \A w \in Wfs : Telling(w) => Telling(w)'
        <4>1. \A q \in Procs : pc[q] = "update" => pc'[q] = "update"
          BY <1>2, Zenon
        <4> QED
          BY <1>1, <4>1, Zenon DEF Telling
      <3>2. \A w \in Wfs : Matches(w) => Matches(w)'
        BY <1>1, Zenon DEF Matches, Wanted, Triggered
      <3> QED
        BY <1>1, <3>1, <3>2, Zenon DEF WorkflowInv, RowInv, MatchInv
    <2> QED
      BY <2>1, <2>2, <2>3, <2>4, Zenon DEF RowInv
  <1>8. TimerInv' /\ ScheduleInv'
    BY <1>1, ScheduleKeep, Zenon DEF WorkflowInv
  <1>9. EventInv'
    <2>1. \A w \in Wfs : (Touched(w) => Touched(w)') /\ (HasWf(w) => HasWf(w)')
      BY <1>1, Zenon DEF Touched, HasWf
    <2> QED
      BY <1>1, <2>1, EventsKeep, Zenon DEF WorkflowInv, WorkflowTyped
  <1>10. StartInv'
    BY <1>1, Zenon DEF StartInv
  <1> QED
    BY <1>4, <1>5, <1>6, <1>7, <1>8, <1>9, <1>10, Zenon DEF WorkflowInv

\* A workflow is started (HandleTriggerWorkflow).
LEMMA StartJobInv ==
    ASSUME WorkflowInv, WorkflowAssumption, NEW p \in Procs, boot # "no", HandleTriggerWorkflow(p)
    PROVE  WorkflowInv' /\ JobsSafe
  <1>1. CASE pc[p] \in {"enter", "get", "insert"} /\ GiveUp(p, 400)
    <2>1. pc[p] \notin {"update", "send", "done"}
      BY <1>1, Zenon
    <2> QED
      BY <1>1, <2>1, Answered, Zenon
  <1>2. CASE pc[p] \in {"enter", "get"} /\ (Goto(p, "get") \/ Goto(p, "insert")) /\ KeepAll /\ UNCHANGED <<req, resp, at>>
    <2>1. UNCHANGED <<req, at>> /\ "get" \in Plain \cup {"delete"} /\ "insert" \in Plain \cup {"delete"}
      BY <1>2, Zenon DEF Plain
    <2>2. pc[p] \notin {"update", "send", "done"} /\ pc[p] \in {"enter", "create", "get", "insert", "control"}
      BY <1>2, Zenon
    <2>3. CASE Goto(p, "get")
      BY <1>2, <2>1, <2>2, <2>3, GoesOn, Zenon
    <2>4. CASE Goto(p, "insert")
      BY <1>2, <2>1, <2>2, <2>4, GoesOn, Zenon
    <2> QED
      BY <1>2, <2>3, <2>4, Zenon
  <1>3. CASE /\ pc[p] = "insert" /\ CanSaveJob(W(p)) /\ InsertJob(W(p), "user") /\ Reply(p, 200)
             /\ UNCHANGED <<req, at, wf, timers, actors, fatal, ghosts>>
    <2>1. Goto(p, "done") /\ pc[p] \in {"insert", "control"}
      BY <1>3, Zenon DEF Reply
    <2>2. /\ UNCHANGED <<req, at, wf, timers, actors, mixed, removed, missed>> /\ moved' = moved
          /\ wf' = wf /\ serial' = serial /\ req' = req /\ runner' = runner /\ cleaner' = cleaner
      BY <1>3, Zenon DEF ghosts, actors
    <2>3. \A q \in Procs : pc'[q] = "delete" => pc[q] = "delete"
      <3>1. "done" \in HandlerPc
        BY Zenon DEF HandlerPc
      <3> QED
        BY <2>1, <3>1, PcGoes, Zenon DEF WorkflowInv, WorkflowTyped
    <2>4. PICK w : w = W(p)
      BY Zenon
    <2>5. CanSaveJob(w) /\ InsertJob(w, "user")
      BY <1>3, <2>4, Zenon
    <2>6. RowsTyped' /\ JobInv' /\ (\A v : HasEventJob(v) => HasEventJob(v)') /\ DOMAIN job \subseteq DOMAIN job'
      BY <2>2, <2>3, <2>5, JobAdded, Zenon
    <2>7. WorkflowInv'
      BY <2>1, <2>2, <2>6, JobRequest, Zenon
    <2> QED
      BY <2>6, <2>7, NoneLost, Zenon
  <1> QED
    BY <1>1, <1>2, <1>3, ZenonT(60) DEF HandleTriggerWorkflow, TriggerWorkflow

\* A job is paused, resumed or canceled (Control).
LEMMA ControlInv ==
    ASSUME WorkflowInv, WorkflowAssumption, NEW p \in Procs, boot # "no", NEW may, NEW from, NEW to,
           Control(p, may, from, to), \A s \in from : s \notin Ended, to \notin Ended
    PROVE  WorkflowInv' /\ JobsSafe
  <1>1. CASE pc[p] \in {"enter", "control"} /\ GiveUp(p, 400)
    <2>1. pc[p] \notin {"update", "send", "done"}
      BY <1>1, Zenon
    <2> QED
      BY <1>1, <2>1, Answered, Zenon
  <1>2. CASE pc[p] = "enter" /\ Goto(p, "control") /\ KeepAll /\ UNCHANGED <<req, resp, at>>
    <2>1. UNCHANGED <<req, at>> /\ "control" \in Plain \cup {"delete"}
      BY <1>2, Zenon DEF Plain
    <2> QED
      BY <1>2, <2>1, GoesOn, Zenon
  <1>3. CASE /\ pc[p] = "control" /\ HasJob(J(p)) /\ job[J(p)].status \in from /\ Move(J(p), to) /\ Reply(p, 200)
             /\ UNCHANGED <<req, at, wf, drawn, timers, actors, fatal, mixed, removed, missed>>
    <2>1. Goto(p, "done") /\ pc[p] \in {"insert", "control"}
      BY <1>3, Zenon DEF Reply
    <2>2. /\ UNCHANGED <<req, at, wf, timers, actors, mixed, removed, missed>> /\ drawn' = drawn
          /\ wf' = wf /\ serial' = serial /\ req' = req /\ runner' = runner /\ cleaner' = cleaner
      BY <1>3, Zenon DEF actors
    <2>3. \A q \in Procs : pc'[q] = "delete" => pc[q] = "delete"
      <3>1. "done" \in HandlerPc
        BY Zenon DEF HandlerPc
      <3> QED
        BY <2>1, <3>1, PcGoes, Zenon DEF WorkflowInv, WorkflowTyped
    <2>4. PICK j \in DOMAIN job : j = J(p)
      BY <1>3, Zenon DEF HasJob
    <2>5. Move(j, to) /\ job[j].status \notin Ended
      BY <1>3, <2>4, Zenon
    <2>6. RowsTyped' /\ JobInv' /\ (\A v : HasEventJob(v) => HasEventJob(v)') /\ DOMAIN job' = DOMAIN job
      BY <2>2, <2>3, <2>5, MoveKeeps, Zenon
    <2>7. WorkflowInv'
      BY <2>1, <2>2, <2>6, JobRequest, Zenon
    <2> QED
      BY <2>6, <2>7, NoneLost, Zenon
  <1> QED
    BY <1>1, <1>2, <1>3, Zenon DEF Control

----------------------------------------------------------------------------
(* Start. *)

\* Before the triggers are started no request is under way.
LEMMA NotStarted ==
    ASSUME WorkflowInv, WorkflowAssumption, boot = "no"
    PROVE  (\A p \in Procs : pc[p] = "enter" /\ at[p].wf = "") /\ mux = Free /\ event.steady = {}
  <1>1. (\A p \in Procs : pc[p] = "enter") /\ event.steady = {}
    BY Zenon DEF WorkflowInv, StartInv
  <1>2. \A p \in Procs : at[p].wf = ""
    BY <1>1, Zenon DEF WorkflowInv, PlaceInv
  <1>3. mux \in Procs \cup {Free} /\ (mux # Free => pc[mux] = "send")
    BY Zenon DEF WorkflowInv, WorkflowTyped, TimersTyped, MuxInv
  <1> QED
    BY <1>1, <1>2, <1>3, Zenon

\* What the start leaves alone.
StartRest ==
  /\ req' = req /\ pc' = pc /\ at' = at /\ wf' = wf /\ job' = job /\ drawn' = drawn /\ mux' = mux
  /\ event' = event /\ runner' = runner /\ cleaner' = cleaner /\ serial' = serial
  /\ mixed' = mixed /\ removed' = removed /\ missed' = missed /\ moved' = moved

\* The start concerns triggers, channels and timers.
LEMMA Started ==
    ASSUME WorkflowInv, WorkflowAssumption, boot = "no", boot' # "no", StartRest,
           TimersTyped', TimerInv', ScheduleInv', TrgInv', MatchInv'
    PROVE  WorkflowInv'
  <1>1. /\ req' = req /\ pc' = pc /\ at' = at /\ wf' = wf /\ job' = job /\ drawn' = drawn /\ mux' = mux
        /\ event' = event /\ runner' = runner /\ cleaner' = cleaner /\ serial' = serial
        /\ mixed' = mixed /\ removed' = removed /\ missed' = missed /\ moved' = moved
    BY Zenon DEF StartRest
  <1>2. WorkflowTyped'
    BY <1>1, Zenon DEF WorkflowInv, WorkflowTyped, HandlersTyped, RowsTyped, ActorsTyped, Op
  <1>3. (\A p \in Procs : PlaceInv(p)') /\ MuxInv'
    <2>1. UNCHANGED <<req, pc, at, mux>>
      BY <1>1, Zenon
    <2> QED
      BY <2>1, NotStarted, PlacesKeep, Zenon DEF WorkflowInv
  <1>4. RowInv'
    <2>1. ASSUME NEW p \in Procs
          PROVE  FreshInv(p)' /\ UpdateInv(p)'
      BY <1>1, <2>1, Zenon DEF WorkflowInv, RowInv, FreshInv, UpdateInv, Op, HasWf
    <2>2. GoneInv'
      BY <1>1, Zenon DEF WorkflowInv, RowInv, GoneInv, HasWf
    <2> QED
      BY <2>1, <2>2, Zenon DEF RowInv
  <1>5. JobInv'
    <2>1. UNCHANGED <<req, job, drawn, runner, cleaner, serial>> /\ DOMAIN wf \subseteq DOMAIN wf' /\ moved \subseteq moved'
      BY <1>1, Zenon
    <2> QED
      BY <1>1, <2>1, JobsKeep, Zenon DEF WorkflowInv
  <1>6. EventInv'
    BY <1>1, NotStarted, Zenon DEF WorkflowInv, EventInv
  <1>7. StartInv'
    BY Zenon DEF StartInv
  <1> QED
    BY <1>2, <1>3, <1>4, <1>5, <1>6, <1>7, Zenon DEF WorkflowInv

\* The triggers are loaded, or not (Start).
LEMMA StartKeeps ==
    ASSUME WorkflowInv, WorkflowAssumption, Start
    PROVE  WorkflowInv' /\ JobsSafe
  <1>1. boot = "no" /\ StartRest /\ job' = job /\ wf' = wf /\ mux' = mux /\ missed' = missed /\ at' = at
    BY Zenon DEF Start, StartRest, KeepHandler, rows, ghosts
  <1>2. mux = Free /\ \A p \in Procs : pc[p] = "enter" /\ at[p].wf = ""
    BY <1>1, NotStarted, Zenon
  <1>3. CASE boot' = "failed" /\ UNCHANGED <<trg, waiter, timer>>
    <2>1. trg' = trg /\ waiter' = waiter /\ timer' = timer
      BY <1>3, Zenon
    <2>2. UNCHANGED <<trg, mux, waiter, timer, missed>>
      BY <1>1, <2>1, Zenon
    <2>3. TimersTyped'
      BY <1>1, <2>1, Zenon DEF WorkflowInv, WorkflowTyped, TimersTyped
    <2>4. TimerInv' /\ ScheduleInv'
      BY <1>1, <2>2, ScheduleKeep, Zenon DEF WorkflowInv
    <2>5. TrgInv'
      BY <1>1, <2>1, Zenon DEF WorkflowInv, RowInv, TrgInv, HasWf, Touched
    <2>6. MatchInv' /\ boot' # "no"
      BY <1>3, Zenon DEF MatchInv
    <2>7. WorkflowInv'
      BY <1>1, <2>3, <2>4, <2>5, <2>6, Started, Zenon
    <2> QED
      BY <1>1, <2>7, NoneLost, Zenon
  <1>4. ASSUME NEW on, on = {w \in DOMAIN wf : Triggered(wf[w])},
               NEW timed, timed = {w \in on : Deref(wf[w].trig.interval) > 0}, boot' = "listed",
               trg' = [w \in on |-> wf[w].trig],
               waiter' = [w \in timed |-> <<wf[w].trig.interval>>],
               timer' = [w \in Wfs |-> IF w \in timed THEN [pc |-> "select", period |-> 60] ELSE NoTimer]
        PROVE  WorkflowInv' /\ JobsSafe
    <2>1. on \subseteq DOMAIN wf /\ timed \subseteq on /\ DOMAIN wf \subseteq Wfs /\ \A w \in DOMAIN wf : wf[w].trig.interval \in Nat
      BY <1>4, Zenon DEF WorkflowInv, WorkflowTyped, RowsTyped, RowTyped
    <2>2. DOMAIN trg' = on /\ \A w \in on : trg'[w] = wf[w].trig
      BY <1>4, Zenon
    <2>3. DOMAIN waiter' = timed /\ \A w \in timed : waiter'[w] = <<wf[w].trig.interval>>
      BY <1>4, Zenon
    <2>4. /\ \A w \in timed : timer'[w] = [pc |-> "select", period |-> 60]
          /\ \A w \in Wfs \ timed : timer'[w] = NoTimer
      BY <1>4, <2>1, Zenon
    <2>5. TimersTyped'
      <3>1. \A w \in DOMAIN trg' : trg'[w].interval \in Nat
        BY <2>1, <2>2, Zenon
      <3>2. \A w \in DOMAIN waiter' : waiter'[w] \in Seq(Nat)
        <4>1. ASSUME NEW w \in timed
              PROVE  waiter'[w] \in Seq(Nat)
          <5>1. wf[w].trig.interval \in Nat
            BY <2>1, <4>1, Zenon
          <5>2. <<wf[w].trig.interval>> \in Seq(Nat)
            BY <5>1, Single, Zenon
          <5> QED
            BY <2>3, <4>1, <5>2, Zenon
        <4> QED
          BY <2>3, <4>1, Zenon
      <3>3. timer' \in [Wfs -> [pc : TimerPc, period : Nat]]
        <4>1. [pc |-> "select", period |-> 60] \in [pc : TimerPc, period : Nat] /\ NoTimer \in [pc : TimerPc, period : Nat]
          BY Zenon DEF TimerPc, NoTimer
        <4> QED
          BY <1>4, <4>1, Zenon
      <3>4. DOMAIN trg' \subseteq Wfs /\ DOMAIN waiter' \subseteq Wfs /\ mux' \in Procs \cup {Free}
        BY <1>1, <1>2, <2>1, <2>2, <2>3, Zenon
      <3> QED
        BY <3>1, <3>2, <3>3, <3>4, Zenon DEF TimersTyped
    <2>6. TimerInv'
      <3>1. ASSUME NEW w \in Wfs
            PROVE  w \in timed <=> timer'[w].pc # "none"
        <4>1. CASE w \in timed
          <5>1. timer'[w] = [pc |-> "select", period |-> 60]
            BY <2>4, <4>1, Zenon
          <5>2. [pc |-> "select", period |-> 60].pc = "select"
            BY Zenon
          <5>3. timer'[w].pc = "select"
            BY <5>1, <5>2, Zenon
          <5> QED
            BY <4>1, <5>3, Zenon
        <4>2. CASE w \notin timed
          <5>1. timer'[w] = NoTimer
            BY <2>4, <3>1, <4>2, Zenon
          <5>2. NoTimer.pc = "none"
            BY Zenon DEF NoTimer
          <5>3. timer'[w].pc = "none"
            BY <5>1, <5>2, Zenon
          <5> QED
            BY <4>2, <5>3, Zenon
        <4> QED
          BY <4>1, <4>2
      <3> QED
        BY <2>3, <3>1, Zenon DEF TimerInv
    <2>7. ScheduleInv'
      <3>1. ASSUME NEW w \in on, NEW i \in Nat, wf[w].trig.interval = i, Deref(i) > 0
            PROVE  LastSent(w, i)'
        <4>1. w \in timed
          BY <1>4, <3>1, Zenon
        <4>2. waiter'[w] = <<i>> /\ w \in DOMAIN waiter'
          BY <2>3, <3>1, <4>1, Zenon
        <4>3. waiter'[w] # <<>> /\ waiter'[w][Len(waiter'[w])] = i
          BY <4>2, Single
        <4>4. ~Sends(w)'
          BY <1>1, <1>2, Zenon DEF Sends
        <4> QED
          BY <4>2, <4>3, <4>4, Zenon DEF LastSent
      <3> QED
        BY <2>2, <3>1, Zenon DEF ScheduleInv
    <2>8. TrgInv'
      BY <1>1, <2>1, <2>2, Zenon DEF TrgInv, HasWf
    <2>9. MatchInv'
      <3>1. Wanted' = on
        BY <1>1, <1>4, Zenon DEF Wanted, Triggered
      <3>2. \A w \in Wfs : Matches(w)'
        BY <1>1, <2>2, <3>1, Zenon DEF Matches
      <3> QED
        BY <3>2, Zenon DEF MatchInv
    <2>10. boot' # "no"
      BY <1>4, Zenon
    <2>11. WorkflowInv'
      BY <1>1, <2>5, <2>6, <2>7, <2>8, <2>9, <2>10, Started, Zenon
    <2> QED
      BY <1>1, <2>11, NoneLost, Zenon
  <1>5. CASE /\ boot' = "listed"
             /\ LET on == {w \in DOMAIN wf : Triggered(wf[w])}
                    timed == {w \in on : Deref(wf[w].trig.interval) > 0}
                IN  /\ trg' = [w \in on |-> wf[w].trig]
                    /\ waiter' = [w \in timed |-> <<wf[w].trig.interval>>]
                    /\ timer' = [w \in Wfs |-> IF w \in timed THEN [pc |-> "select", period |-> 60] ELSE NoTimer]
    <2>1. PICK on : on = {w \in DOMAIN wf : Triggered(wf[w])}
      OBVIOUS
    <2>2. PICK timed : timed = {w \in on : Deref(wf[w].trig.interval) > 0}
      OBVIOUS
    <2>3. /\ boot' = "listed" /\ trg' = [w \in on |-> wf[w].trig]
          /\ waiter' = [w \in timed |-> <<wf[w].trig.interval>>]
          /\ timer' = [w \in Wfs |-> IF w \in timed THEN [pc |-> "select", period |-> 60] ELSE NoTimer]
      BY <1>5, <2>1, <2>2, Zenon
    <2> QED
      BY <1>4, <2>1, <2>2, <2>3, Zenon
  <1> QED
    BY <1>3, <1>5, Zenon DEF Start

----------------------------------------------------------------------------
(* The theorems. *)

\* An empty table.
LEMMA Empty ==
    DOMAIN <<>> = {}
  OBVIOUS

\* The jobs are numbered.
LEMMA Numbered ==
    ASSUME NEW S, NEW s \in Seq(S)
    PROVE  Len(s) \in Nat /\ DOMAIN s = 1 .. Len(s) /\ \A j \in 1 .. Len(s) : s[j] \in S
  OBVIOUS

\* The routine task at its start.
LEMMA CleanerStarts ==
    ASSUME NEW l
    PROVE  /\ DOMAIN Cleaner(l) = {"pc", "all", "list", "phase"} /\ DOMAIN Cleaner(l).all = {} /\ Cleaner(l).list = {}
           /\ Cleaner(l).phase \in Ended
  <1>1. /\ DOMAIN Cleaner(l) = {"pc", "all", "list", "phase"} /\ Cleaner(l).all = <<>> /\ Cleaner(l).list = {}
        /\ Cleaner(l).phase = "succeed"
    BY DEF Cleaner
  <1> QED
    BY <1>1, Empty, Zenon DEF Ended

\* The initial states (WorkflowInit).
LEMMA WorkflowStart ==
    ASSUME WorkflowAssumption, NEW env, NEW loads, ProperStart(env), Bound(loads),
           InitHandlers(loads), at = [p \in Procs |-> WorkflowLocal], WorkflowInit(env)
    PROVE  WorkflowInv
  <1>1. /\ req \in loads /\ pc = [p \in Procs |-> "enter"]
    BY Zenon DEF InitHandlers
  <1>2. /\ wf = env.wf /\ job = env.job /\ drawn = Len(env.job) /\ trg = <<>> /\ mux = Free /\ waiter = <<>>
        /\ timer = [w \in Wfs |-> NoTimer] /\ event = NewEvent(env.entry)
        /\ (\E l \in {"idle", "off"} : runner = Runner(l)) /\ (\E l \in {"list", "off"} : cleaner = Cleaner(l))
        /\ boot = "no" /\ serial = env.serial /\ mixed = {} /\ removed = {} /\ missed = {} /\ moved = {}
    BY Zenon DEF WorkflowInit
  <1>3. \A p \in Procs : pc[p] = "enter" /\ at[p] = WorkflowLocal
    BY <1>1, Zenon
  <1>4. /\ DOMAIN WorkflowLocal = {"wf", "row", "send", "code"} /\ RowTyped(WorkflowLocal.row) /\ WorkflowLocal.send \in Nat
        /\ WorkflowLocal.wf = ""
    BY Zenon DEF WorkflowLocal, RowTyped, NoTrigger, Nil
  <1>5. /\ DOMAIN runner = {"pc", "job", "rec", "row", "found"} /\ DOMAIN runner.rec = JobFields
        /\ RowTyped(runner.row) /\ ~runner.found /\ runner.pc \in {"idle", "off"}
    <2>1. PICK l \in {"idle", "off"} : runner = Runner(l)
      BY <1>2, Zenon
    <2> QED
      BY <2>1, RunnerIs, Zenon
  <1>6. /\ DOMAIN cleaner = {"pc", "all", "list", "phase"} /\ DOMAIN cleaner.all = {} /\ cleaner.list = {}
        /\ cleaner.phase \in Ended
    <2>1. PICK l \in {"list", "off"} : cleaner = Cleaner(l)
      BY <1>2, Zenon
    <2> QED
      BY <2>1, CleanerStarts, Zenon
  <1>7. DOMAIN event = {"pc", "kind", "seen", "cur", "failed", "old", "steady"} /\ event.steady = {} /\ event.seen = {}
    BY <1>2, Zenon DEF NewEvent
  <1>8. /\ drawn \in Nat /\ DOMAIN job = 1 .. drawn /\ \A j \in DOMAIN job : DOMAIN job[j] = JobFields
    <2>1. env.job \in Seq([wf : Wfs, status : JobStatuses, by : {"user", "timer", "event"}, age : Nat])
      BY Zenon DEF ProperStart
    <2>2. PICK s \in Seq([wf : Wfs, status : JobStatuses, by : {"user", "timer", "event"}, age : Nat]) : s = env.job
      BY <2>1, Zenon
    <2>3. Len(s) \in Nat /\ DOMAIN s = 1 .. Len(s)
      BY <2>2, Numbered, Zenon
    <2>4. \A j \in 1 .. Len(s) : s[j] \in [wf : Wfs, status : JobStatuses, by : {"user", "timer", "event"}, age : Nat]
      BY <2>2, Numbered, Zenon
    <2>5. \A r \in [wf : Wfs, status : JobStatuses, by : {"user", "timer", "event"}, age : Nat] : DOMAIN r = JobFields
      BY Zenon DEF JobFields
    <2> QED
      BY <1>2, <2>2, <2>3, <2>4, <2>5, Zenon
  <1>9. DOMAIN trg = {} /\ DOMAIN waiter = {}
    BY <1>2, Empty, Zenon
  <1>10. WorkflowTyped
    <2>1. HandlersTyped
      <3>1. pc \in [Procs -> HandlerPc]
        BY <1>1, Zenon DEF HandlerPc
      <3>2. DOMAIN at = Procs
        BY Zenon
      <3>3. \A p \in Procs : Op(p) \in {"wfcreate", "wfupdate"} => req[p].trig.interval \in Nat
        BY <1>1, Zenon DEF Bound, Op
      <3> QED
        BY <1>3, <1>4, <3>1, <3>2, <3>3, Zenon DEF HandlersTyped
    <2>2. RowsTyped
      <3>1. DOMAIN wf \subseteq Wfs /\ \A w \in DOMAIN wf : RowTyped(wf[w])
        BY <1>2, Zenon DEF ProperStart, RowTyped
      <3> QED
        BY <1>8, <3>1, Zenon DEF RowsTyped
    <2>3. TimersTyped
      <3>1. NoTimer \in [pc : TimerPc, period : Nat]
        BY Zenon DEF NoTimer, TimerPc
      <3>2. timer \in [Wfs -> [pc : TimerPc, period : Nat]]
        BY <1>2, <3>1, Zenon
      <3> QED
        BY <1>2, <1>9, <3>2, Zenon DEF TimersTyped
    <2>4. ActorsTyped
      BY <1>2, <1>5, <1>6, <1>7, Zenon DEF ActorsTyped
    <2> QED
      BY <2>1, <2>2, <2>3, <2>4, Zenon DEF WorkflowTyped
  <1>11. (\A p \in Procs : PlaceInv(p)) /\ MuxInv
    BY <1>2, <1>3, <1>4, Zenon DEF PlaceInv, MuxInv
  <1>12. RowInv
    <2>1. ASSUME NEW p \in Procs
          PROVE  FreshInv(p) /\ UpdateInv(p)
      <3>1. NewWf[p] \notin DOMAIN wf /\ NewWf[p] \notin removed
        BY <1>2, <2>1, Zenon DEF ProperStart
      <3>2. NewWf[p] # "" /\ \A q \in Procs : at[q].wf = ""
        <4>1. NewWf[p] \in Wfs /\ "" \notin Wfs
          BY <2>1, WorkflowAssumption DEF WorkflowAssumption
        <4> QED
          BY <1>3, <1>4, <4>1, Zenon
      <3>3. pc[p] = "enter"
        BY <1>3, <2>1, Zenon
      <3> QED
        BY <1>5, <3>1, <3>2, <3>3, Zenon DEF FreshInv, UpdateInv
    <2>2. GoneInv /\ TrgInv /\ MatchInv
      BY <1>2, <1>9, Zenon DEF GoneInv, TrgInv, MatchInv
    <2> QED
      BY <2>1, <2>2, Zenon DEF RowInv
  <1>13. TimerInv /\ ScheduleInv
    <2>1. NoTimer.pc = "none"
      BY Zenon DEF NoTimer
    <2>2. \A w \in Wfs : timer[w] = NoTimer
      BY <1>2, Zenon
    <2> QED
      BY <1>9, <2>1, <2>2, Zenon DEF TimerInv, ScheduleInv
  <1>14. JobInv
    <2>1. JobHasWorkflow
      BY <1>2, Zenon DEF JobHasWorkflow, HasWf, ProperStart
    <2>2. \A p \in Procs : BusyInv(p)
      BY <1>3, Zenon DEF BusyInv
    <2>3. RunnerInv /\ CleanInv
      BY <1>5, <1>6, Zenon DEF RunnerInv, CleanInv
    <2> QED
      BY <2>1, <2>2, <2>3, Zenon DEF JobInv
  <1>15. EventInv /\ StartInv
    BY <1>3, <1>7, Zenon DEF EventInv, StartInv
  <1> QED
    BY <1>10, <1>11, <1>12, <1>13, <1>14, <1>15, Zenon DEF WorkflowInv

\* A step of a handler (WorkflowStep).
LEMMA HandlersKeep ==
    ASSUME WorkflowInv, WorkflowAssumption, NEW p \in Procs, WorkflowStep(p)
    PROVE  WorkflowInv' /\ JobsSafe
  <1>1. boot # "no"
    BY Zenon DEF WorkflowStep
  <1>2. ASSUME PauseJob(p) \/ ResumeJob(p) \/ CancelJob(p)
        PROVE  WorkflowInv' /\ JobsSafe
    <2>1. CASE PauseJob(p)
      <3>1. Control(p, {"running"}, {"running"}, "pausing") /\ (\A s \in {"running"} : s \notin Ended) /\ "pausing" \notin Ended
        BY <2>1, Zenon DEF PauseJob, Ended
      <3>2. PICK may, from, to : Control(p, may, from, to) /\ (\A s \in from : s \notin Ended) /\ to \notin Ended
        BY <3>1, Zenon
      <3> QED
        BY <1>1, <3>2, ControlInv, Zenon
    <2>2. CASE ResumeJob(p)
      <3>1. Control(p, {"paused"}, {"paused"}, "running") /\ (\A s \in {"paused"} : s \notin Ended) /\ "running" \notin Ended
        BY <2>2, Zenon DEF ResumeJob, Ended
      <3>2. PICK may, from, to : Control(p, may, from, to) /\ (\A s \in from : s \notin Ended) /\ to \notin Ended
        BY <3>1, Zenon
      <3> QED
        BY <1>1, <3>2, ControlInv, Zenon
    <2>3. CASE CancelJob(p)
      <3>1. /\ Control(p, JobStatuses \ Final, {"initializing"} \cup Active, "canceled")
            /\ (\A s \in {"initializing"} \cup Active : s \notin Ended) /\ "canceled" \notin Ended
        BY <2>3 DEF CancelJob, Ended, Active
      <3>2. PICK may, from, to : Control(p, may, from, to) /\ (\A s \in from : s \notin Ended) /\ to \notin Ended
        BY <3>1, Zenon
      <3> QED
        BY <1>1, <3>2, ControlInv, Zenon
    <2> QED
      BY <1>2, <2>1, <2>2, <2>3, Zenon
  <1> QED
    BY <1>1, <1>2, ReadInv, CreateInv, ChangeInv, RemoveInv, StartJobInv, Sent, Zenon DEF WorkflowStep

\* A step of a timer, of the handler of an entry, of the routine task or of the runner
\* (WorkflowActor, WorkflowEnv).
LEMMA ActorsKeep ==
    ASSUME WorkflowInv, WorkflowAssumption, WorkflowActor \/ WorkflowEnv
    PROVE  WorkflowInv' /\ JobsSafe
  <1>1. CASE Start
    BY <1>1, StartKeeps, Zenon
  <1>2. ASSUME boot # "no", NEW w \in Wfs, TimerStep(w) \/ Tick(w)
        PROVE  WorkflowInv' /\ JobsSafe
    <2>1. CASE TimerUpdate(w)
      <3>1. PICK s \in Seq(Nat) : waiter[w] = s
        BY <1>2, <2>1, Zenon DEF TimerUpdate, WorkflowInv, WorkflowTyped, TimersTyped
      <3> QED
        BY <1>2, <2>1, <3>1, IntervalInv, Zenon
    <2> QED
      BY <1>2, <2>1, TickInv, RssInv, ExitInv, Zenon DEF TimerStep
  <1>3. CASE boot # "no" /\ handleEntryCreate
    BY <1>3, TakeInv, LoopInv, RoundInv, TriggerInv, Zenon DEF handleEntryCreate
  <1>4. CASE boot # "no" /\ cleanUpFinishJobs
    BY <1>4, CleanListInv, CleanDropInv, CleanExcessInv, Zenon DEF cleanUpFinishJobs
  <1>5. CASE boot # "no" /\ Runs
    <2>1. CASE SaveWorkflowJob
      <3>1. PICK j, rec, row : runner.job = j /\ runner.rec = rec /\ runner.row = row
        BY Zenon
      <3> QED
        BY <1>5, <2>1, <3>1, SaveJobInv, Zenon
    <2> QED
      BY <1>5, <2>1, RunnerReadInv, ClaimInv, RunnerGetInv, Zenon DEF Runs
  <1> QED
    BY <1>1, <1>2, <1>3, <1>4, <1>5, Zenon DEF WorkflowActor, WorkflowEnv

\* Nothing happens.
LEMMA WorkflowStutters ==
    ASSUME WorkflowInv, UNCHANGED <<handlerVars, workflowVars>>
    PROVE  WorkflowInv'
  <1>1. req' = req /\ pc' = pc /\ at' = at /\ KeepAll
    BY DEF handlerVars, KeepAll
  <1>2. /\ wf' = wf /\ job' = job /\ drawn' = drawn
        /\ trg' = trg /\ mux' = mux /\ waiter' = waiter /\ timer' = timer
        /\ event' = event /\ runner' = runner /\ cleaner' = cleaner /\ boot' = boot /\ serial' = serial
        /\ mixed' = mixed /\ removed' = removed /\ missed' = missed /\ moved' = moved
    BY <1>1, AllKept, Zenon
  <1>3. HandlersRest /\ JobsRest /\ ChannelsRest
    BY <1>1, <1>2, Zenon DEF HandlersRest, JobsRest, ChannelsRest
  <1>4. RowsTyped' /\ JobInv' /\ \A v \in Wfs : HasEventJob(v) => HasEventJob(v)'
    BY <1>3, JobsAside, Zenon
  <1>5. TimersTyped' /\ TimerInv' /\ ScheduleInv'
    BY <1>3, ChannelsAside, Zenon
  <1>6. EventInv'
    BY <1>2, <1>3, <1>4, EventAside, Zenon
  <1>7. WorkflowTyped'
    BY <1>1, <1>2, <1>4, <1>5, Zenon DEF WorkflowInv, WorkflowTyped, HandlersTyped, ActorsTyped, Op
  <1>8. (\A p \in Procs : PlaceInv(p)') /\ MuxInv'
    BY <1>1, <1>2, Zenon DEF WorkflowInv, PlaceInv, MuxInv, W
  <1>9. RowInv'
    <2>1. UNCHANGED <<req, pc, at, wf, trg, mixed, removed, boot>>
      BY <1>1, <1>2
    <2> QED
      BY <1>2, <2>1, RowsKeep, Zenon DEF WorkflowInv
  <1>10. StartInv'
    BY <1>1, <1>2, Zenon DEF WorkflowInv, StartInv
  <1> QED
    BY <1>4, <1>5, <1>6, <1>7, <1>8, <1>9, <1>10, Zenon DEF WorkflowInv

\* The invariant holds in every state.
LEMMA WorkflowsCorrect ==
    ASSUME NEW env, NEW loads, ProperStart(env), Bound(loads)
    PROVE  WorkflowSpec(env, loads) => []WorkflowInv
  <1>1. InitHandlers(loads) /\ at = [p \in Procs |-> WorkflowLocal] /\ WorkflowInit(env) => WorkflowInv
    BY WorkflowAssumption, WorkflowStart, Zenon
  <1>2. WorkflowInv /\ [WorkflowNext]_<<handlerVars, workflowVars>> => WorkflowInv'
    BY WorkflowAssumption, HandlersKeep, ActorsKeep, WorkflowStutters, Zenon DEF WorkflowNext
  <1> QED
    BY <1>1, <1>2, PTL DEF WorkflowSpec

\* A deletion that was acknowledged leaves neither the workflow nor, with SQLite, a job of
\* it, whatever requests, timers, jobs and the routine task do meanwhile: unless another
\* request or the save of a job worked on the same workflow (DeletionIsComplete;
\* DeleteWorkflow, SaveWorkflowJob).
THEOREM DeletionCorrect ==
    ASSUME NEW env, NEW loads, ProperStart(env), Bound(loads)
    PROVE  WorkflowSpec(env, loads) => []DeletionIsComplete
  <1>1. WorkflowInv => DeletionIsComplete
    BY Zenon DEF WorkflowInv, RowInv, GoneInv, JobInv, DeletionIsComplete, DeletedWorkflowIsGone
  <1> QED
    BY <1>1, WorkflowsCorrect, PTL

\* The triggers have the configuration of the rows when no request is under way, timers
\* follow the intervals, and a created entry starts every workflow that watched for it
\* (TriggersFollowRows; handleWorkflowUpdate, runWorkflowTimer, handleEntryCreate).
THEOREM TriggersCorrect ==
    ASSUME NEW env, NEW loads, ProperStart(env), Bound(loads)
    PROVE  WorkflowSpec(env, loads) => []TriggersFollowRows
  <1>1. ASSUME WorkflowInv
        PROVE  TriggersFollowRows
    <2>1. ASSUME Quiet, NEW w \in Wfs \ mixed
          PROVE  /\ w \in DOMAIN trg <=> w \in Wanted
                 /\ w \in DOMAIN trg => trg[w] = wf[w].trig
      <3>1. boot = "listed" /\ \A p \in Procs : pc[p] = "done"
        BY <2>1, Zenon DEF Quiet
      <3>2. ~Telling(w)
        BY <3>1, Zenon DEF Telling
      <3> QED
        BY <1>1, <2>1, <3>1, <3>2, Zenon DEF WorkflowInv, RowInv, MatchInv, Matches
    <2>2. ASSUME Quiet, NEW w \in DOMAIN trg \ (missed \cup mixed), trg[w].rss, Deref(trg[w].interval) > 0,
                 w \in DOMAIN waiter => waiter[w] = <<>>
          PROVE  timer[w].pc \notin {"none", "exit"} /\ timer[w].period = trg[w].interval
      <3>1. mux = Free /\ w \in Wfs /\ trg[w].interval \in Nat
        BY <1>1, <2>2, Zenon DEF Quiet, WorkflowInv, WorkflowTyped, TimersTyped
      <3>2. LastSent(w, trg[w].interval)
        BY <1>1, <2>2, <3>1, Zenon DEF WorkflowInv, ScheduleInv
      <3>3. w \in DOMAIN waiter /\ timer[w].pc # "exit" /\ timer[w].period = trg[w].interval
        BY <2>2, <3>1, <3>2, Zenon DEF LastSent, Sends
      <3>4. timer[w].pc # "none"
        BY <1>1, <3>1, <3>3, Zenon DEF WorkflowInv, TimerInv
      <3> QED
        BY <3>3, <3>4, Zenon
    <2>3. WatchedIsTriggered
      <3>1. ASSUME event.pc = "done", ~event.failed, NEW w \in event.steady
            PROVE  Touched(w) \/ HasEventJob(w)
        <4>1. Touched(w) \/ EventTurn(w)
          BY <1>1, <3>1, Zenon DEF WorkflowInv, EventInv
        <4> QED
          BY <3>1, <4>1, Zenon DEF EventTurn
      <3> QED
        BY <3>1, Zenon DEF WatchedIsTriggered, Touched
    <2>4. \A w \in Wfs : w \in DOMAIN waiter <=> timer[w].pc # "none"
      BY <1>1, Zenon DEF WorkflowInv, TimerInv
    <2>5. TriggersMatchRows
      BY <2>1, Zenon DEF TriggersMatchRows
    <2>6. ScheduleIsFollowed
      BY <2>2, Zenon DEF ScheduleIsFollowed
    <2> QED
      BY <2>3, <2>4, <2>5, <2>6, Zenon DEF TriggersFollowRows
  <1>2. WorkflowInv => TriggersFollowRows
    BY <1>1
  <1> QED
    BY <1>2, WorkflowsCorrect, PTL

\* A job that runs or is paused is not deleted unless its status changed after a deletion
\* had looked at it, and the routine task deletes only finished jobs that are old or too
\* many (JobIsNotLost; DeleteWorkflow, cleanUpFinishJobs).
THEOREM JobsCorrect ==
    ASSUME NEW env, NEW loads, ProperStart(env), Bound(loads)
    PROVE  WorkflowSpec(env, loads) => JobIsNotLost
  <1>1. WorkflowInv /\ [WorkflowNext]_<<handlerVars, workflowVars>> => JobsSafe
    <2>1. ASSUME UNCHANGED <<handlerVars, workflowVars>>
          PROVE  JobsSafe
      <3>1. KeepAll
        BY <2>1 DEF KeepAll
      <3>2. job' = job
        BY <3>1, AllKept, Zenon
      <3> QED
        BY <3>2, NoneLost, Zenon
    <2> QED
      BY <2>1, WorkflowAssumption, HandlersKeep, ActorsKeep, Zenon DEF WorkflowNext
  <1>2. JobsSafe => [\A j \in DOMAIN job \ DOMAIN job' : job[j].status \in Active => j \in moved]_workflowVars
    BY Zenon DEF JobsSafe
  <1>3. JobsSafe =>
          [cleaner' # cleaner => \A j \in DOMAIN job \ DOMAIN job' :
             /\ job[j].status \in DOMAIN JobLiveTime
             /\ \/ job[j].age >= JobLiveTime[job[j].status]
                \/ Cardinality(Newer(j, cleaner.all)) >= MaxKept]_workflowVars
    BY Zenon DEF JobsSafe
  <1> QED
    BY <1>1, <1>2, <1>3, WorkflowsCorrect, PTL DEF WorkflowSpec, JobIsNotLost, BusyIsNotDeleted, CleanedIsOldOrExcess

=============================================================================
