---------------------------- MODULE EntryCleanup ----------------------------
(***************************************************************************)
(* How an unlinked entry is destroyed: core.RemoveEntry publishes a remove *)
(* event, a listener of the event bus records a scheduled task             *)
(* (entryCleanExecutor.handleEvent), and the dispatcher's loop runs the    *)
(* task, which deletes the data of the file and then its row.  A routine   *)
(* task scans for unlinked entries whose event or task was lost.           *)
(*                                                                         *)
(* Clients, the queue, the listeners, the dispatcher's loop and the scan   *)
(* are goroutines of one process: a crash loses what they hold, while the  *)
(* entry, children and task tables survive.  Tasks of one entry differ     *)
(* only in their status, so the task table is a count per entry and        *)
(* status; finished tasks are only kept for display and are not counted.   *)
(***************************************************************************)
EXTENDS Integers, FiniteSets, Sequences

CONSTANTS
    Id, Name, Root, Reader, NoId, MaxVersion, MaxSize,  \* as in MetaStore
    HardLinks,  \* clients also call MirrorEntry
    QueueCap,   \* capacity of core's event queue (8 in the code)
    MaxFaults   \* bound on crashes and failing database or storage calls

ASSUME CleanupAssumption ==
    HardLinks \in BOOLEAN /\ QueueCap \in Nat \ {0} /\ MaxFaults \in Nat

ASSUME StoreAssumption ==
    Root \in Id /\ NoId \notin Id /\ MaxVersion \in Nat /\ MaxSize \in Nat

VARIABLES
    rows, used, entry, children, unlinked, copy,  \* as in MetaStore
    data,        \* files that have chunk data
    cleaned,     \* history: files whose chunk data was deleted
    late,        \* history: files opened since execute last looked for open handles
    opening,     \* files a client has opened in the store but not yet counted
    opened,      \* files with an open handle (fileEntries in core)
    toPublish,   \* committed removals whose client still has to publish: id -> count
    eventQ,      \* core's queue of remove events
    listening,   \* listeners about to look for a waiting task: id -> count
    saving,      \* listeners that found none and will save one: id -> count
    waiting,     \* tasks with status Wait: id -> count
    executing,   \* tasks with status Executing: id -> count
    batch,       \* tasks the loop has listed and not yet dispatched: id -> count
    run,         \* the task the loop executes
    scan,        \* the orphan scan in progress
    aged,        \* entries whose last change is older than orphanThreshold
    expired,     \* entries whose Executing tasks have passed their ExpirationTime
    held,        \* history: files that had an open handle when they first lost a link
    faults       \* crashes and failures so far

Store == INSTANCE MetaStore

tables == <<rows, used, entry, children, unlinked, copy>>
chunks == <<data, cleaned>>
clients == <<opening, opened, toPublish, held, late>>
bus == <<eventQ, listening, saving>>
tasks == <<waiting, executing, expired>>
loop == <<batch, run>>

vars == <<tables, chunks, clients, bus, tasks, loop, scan, aged, faults>>

None == [e \in Id |-> 0]

Add(f, e, k) == [f EXCEPT ![e] = @ + k]

Idle == [id |-> NoId, step |-> "idle"]

NoScan == [todo |-> {}, id |-> NoId]

Init ==
    /\ Store!Init
    /\ data = {} /\ cleaned = {} /\ opening = {} /\ opened = {} /\ held = {} /\ late = {}
    /\ toPublish = None /\ eventQ = <<>> /\ listening = None /\ saving = None
    /\ waiting = None /\ executing = None /\ expired = {}
    /\ batch = None /\ run = Idle
    /\ scan = NoScan /\ aged = {} /\ faults = 0

Executes(e, step) == run = [id |-> e, step |-> step]

\* A call to the database or the storage may fail, MaxFaults times at most.
Fault == faults < MaxFaults /\ faults' = faults + 1

-----------------------------------------------------------------------------
(* Clients. *)

CreateEntry(p, e, n, g) ==
    /\ Store!CreateEntry(p, e, n, g)
    /\ aged' = aged \ {p}
    /\ UNCHANGED <<chunks, clients, bus, tasks, loop, scan, faults>>

MirrorEntry(e, p, n) ==
    /\ HardLinks
    /\ Store!MirrorEntry(e, p, n)
    /\ aged' = aged \ {e, p}
    /\ UNCHANGED <<chunks, clients, bus, tasks, loop, scan, faults>>

\* The event is published after the transaction, and once more by
\* ChangeEntryParent when the entry was in the way of a rename (k = 2).
RemoveEntry(p, e, n, k) ==
    /\ Store!RemoveEntry(p, e, n)
    /\ toPublish' = Add(toPublish, e, k)
    /\ held' = IF e \in opened \ unlinked THEN held \cup {e} ELSE held
    /\ aged' = aged \ {e, p}
    /\ UNCHANGED <<chunks, opening, opened, late, bus, tasks, loop, scan, faults>>

\* publicEntryActionEvent blocks while the queue is full.
Publish(e) ==
    /\ toPublish[e] > 0
    /\ Len(eventQ) < QueueCap
    /\ toPublish' = Add(toPublish, e, -1)
    /\ eventQ' = Append(eventQ, e)
    /\ UNCHANGED <<tables, chunks, opening, opened, held, late, listening, saving,
                   tasks, loop, scan, aged, faults>>

\* Open commits to the store (which leaves changed_at alone) before it counts
\* the handle.  At most one handle per file at a time.
OpenTx(e) ==
    /\ e \notin opening \cup opened
    /\ Store!Open(e, FALSE)
    /\ opening' = opening \cup {e}
    /\ UNCHANGED <<chunks, opened, toPublish, held, late, bus, tasks, loop, scan, aged, faults>>

OpenCount(e) ==
    /\ e \in opening
    /\ opening' = opening \ {e}
    /\ opened' = opened \cup {e}
    /\ late' = late \cup {e}
    /\ UNCHANGED <<tables, chunks, toPublish, held, bus, tasks, loop, scan, aged, faults>>

\* A handle writes: AppendSegments updates the row and records a segment.
Write(e) ==
    /\ e \in opened \cap rows
    /\ Store!HasRoom({e})
    /\ entry' = Store!AddRef(entry, e, 0)
    /\ data' = data \cup {e}
    /\ aged' = aged \ {e}
    /\ UNCHANGED <<rows, used, children, unlinked, copy, cleaned, clients, bus, tasks, loop, scan, faults>>

CloseFile(e) ==
    /\ e \in opened
    /\ opened' = opened \ {e}
    /\ held' = held \ {e}
    /\ UNCHANGED <<tables, chunks, opening, toPublish, late, bus, tasks, loop, scan, aged, faults>>

-----------------------------------------------------------------------------
(* The event bus. *)

\* entryActionEventHandler reads the entry again and drops the event when the
\* row is gone; the bus starts a goroutine per listener.
Deliver ==
    /\ eventQ # <<>>
    /\ eventQ' = Tail(eventQ)
    /\ listening' = IF Head(eventQ) \in rows THEN Add(listening, Head(eventQ), 1) ELSE listening
    /\ UNCHANGED <<tables, chunks, clients, saving, tasks, loop, scan, aged, faults>>

\* handleEvent, first call: getWaitingTask.
HandleEvent(e) ==
    /\ listening[e] > 0
    /\ listening' = Add(listening, e, -1)
    /\ \/ /\ saving' = IF waiting[e] = 0 THEN Add(saving, e, 1) ELSE saving
          /\ UNCHANGED faults
       \/ Fault /\ UNCHANGED saving
    /\ UNCHANGED <<tables, chunks, clients, eventQ, tasks, loop, scan, aged>>

\* handleEvent, second call: SaveTask.
SaveTask(e) ==
    /\ saving[e] > 0
    /\ saving' = Add(saving, e, -1)
    /\ \/ /\ waiting' = Add(waiting, e, 1)
          /\ expired' = expired \ {e}
          /\ UNCHANGED faults
       \/ Fault /\ UNCHANGED <<waiting, expired>>
    /\ UNCHANGED <<tables, chunks, clients, eventQ, listening, executing, loop, scan, aged>>

-----------------------------------------------------------------------------
(* The dispatcher's loop. *)

\* mutant: an Executing task is left to the execution that has it
NeverTimesOut == executing

\* Executing tasks whose time is over become Failed.
TimedOut == [e \in Id |-> IF e \in expired THEN 0 ELSE executing[e]]

\* findRunnableTasks lists the waiting tasks.  The loop itself executes
\* nothing now, so the Executing tasks were left behind by a crash or by a
\* SaveTask that failed.
FindRunnableTasks ==
    /\ run = Idle
    /\ batch = None
    /\ batch' = waiting
    /\ executing' = TimedOut
    /\ UNCHANGED <<tables, chunks, clients, bus, waiting, expired, run, scan, aged, faults>>

Dispatch(e) ==
    /\ run = Idle
    /\ batch[e] > 0
    /\ batch' = Add(batch, e, -1)
    /\ \/ /\ waiting' = Add(waiting, e, -1)
          /\ executing' = Add(executing, e, 1)
          /\ run' = [id |-> e, step |-> "check"]
          /\ UNCHANGED faults
       \/ Fault /\ UNCHANGED <<waiting, executing, run>>
    /\ UNCHANGED <<tables, chunks, clients, bus, expired, scan, aged>>

GoesTo(step) == run' = [run EXCEPT !.step = step]

\* mutant: the executor does not ask for open handles
CheckNotOpened(e) ==
    /\ Executes(e, "check")
    /\ GoesTo(IF e \notin rows THEN "failed" ELSE IF entry[e].isGroup THEN "destroy" ELSE "clean")
    /\ UNCHANGED <<tables, chunks, clients, bus, tasks, batch, scan, aged, faults>>

\* execute: an open file is retried later, and the row is read.
Check(e) ==
    /\ Executes(e, "check")
    /\ \/ /\ GoesTo(IF e \in opened THEN "wait" ELSE
                 IF e \notin rows THEN "failed" ELSE
                 IF entry[e].isGroup THEN "destroy" ELSE "clean")
          /\ UNCHANGED faults
       \/ Fault /\ e \notin opened /\ GoesTo("failed")
    /\ late' = late \ ({e} \cap rows)
    /\ UNCHANGED <<tables, chunks, opening, opened, toPublish, held, bus, tasks, batch, scan, aged>>

\* mutant: an error of CleanEntryData is only logged
CleanOrNot(e) ==
    /\ Executes(e, "clean")
    /\ GoesTo("destroy")
    /\ cleaned' = cleaned \cup {e}
    /\ data' \in {data, data \ {e}}
    /\ UNCHANGED <<tables, clients, bus, tasks, batch, scan, aged, faults>>

\* CleanEntryData reads the entry again and deletes its chunks; an error may
\* come when some of them are gone.
Clean(e) ==
    /\ Executes(e, "clean")
    /\ cleaned' = cleaned \cup {e}
    /\ \/ data' = data \ {e} /\ GoesTo("destroy") /\ UNCHANGED faults
       \/ UNCHANGED data /\ Fault /\ GoesTo("failed")
    /\ UNCHANGED <<tables, clients, bus, tasks, batch, scan, aged>>

\* DestroyEntry; the index delete that follows only logs its errors.
Destroy(e) ==
    /\ Executes(e, "destroy")
    /\ \/ Store!DeleteRemovedEntry(e) /\ GoesTo("succeed") /\ UNCHANGED faults
       \/ UNCHANGED tables /\ Fault /\ GoesTo("failed")
    /\ UNCHANGED <<chunks, clients, bus, tasks, batch, scan, aged>>

\* The task's final status is saved; when that fails it stays Executing.
Finish(e) ==
    /\ \E s \in {"succeed", "failed", "wait"} : Executes(e, s)
    /\ run' = Idle
    /\ \/ /\ executing' = Add(executing, e, -1)
          /\ waiting' = IF run.step = "wait" THEN Add(waiting, e, 1) ELSE waiting
          /\ UNCHANGED faults
       \/ Fault /\ UNCHANGED <<waiting, executing>>
    /\ UNCHANGED <<tables, chunks, clients, bus, expired, batch, scan, aged>>

-----------------------------------------------------------------------------
(* The orphan scan. *)

\* ScanOrphanEntries: rows without links that did not change lately.
Orphans == {e \in rows : entry[e].refCount = 0 /\ e \in aged}

ScanOrphanEntries ==
    /\ scan = NoScan
    /\ Orphans # {}
    /\ scan' = [todo |-> Orphans, id |-> NoId]
    /\ UNCHANGED <<tables, chunks, clients, bus, tasks, loop, aged, faults>>

\* createCleanupTask, first call: a task that waits or executes is enough.
ScanCheck(e) ==
    /\ scan.id = NoId
    /\ e \in scan.todo
    /\ scan' = [todo |-> scan.todo \ {e},
                id   |-> IF waiting[e] + executing[e] = 0 THEN e ELSE NoId]
    /\ UNCHANGED <<tables, chunks, clients, bus, tasks, loop, aged, faults>>

\* createCleanupTask, second call: SaveTask.
ScanSave(e) ==
    /\ scan.id = e
    /\ scan' = [scan EXCEPT !.id = NoId]
    /\ \/ /\ waiting' = Add(waiting, e, 1)
          /\ expired' = expired \ {e}
          /\ UNCHANGED faults
       \/ Fault /\ UNCHANGED <<waiting, expired>>
    /\ UNCHANGED <<tables, chunks, clients, bus, executing, loop, aged>>

-----------------------------------------------------------------------------
(* Time and crashes. *)

Age(e) ==
    /\ e \in rows \ aged
    /\ aged' = aged \cup {e}
    /\ UNCHANGED <<tables, chunks, clients, bus, tasks, loop, scan, faults>>

Expire(e) ==
    /\ executing[e] > 0
    /\ e \notin expired
    /\ expired' = expired \cup {e}
    /\ UNCHANGED <<tables, chunks, clients, bus, waiting, executing, loop, scan, aged, faults>>

\* Only the tables and the stored data survive.
Crash ==
    /\ Fault
    /\ opening' = {} /\ opened' = {} /\ held' = {} /\ toPublish' = None
    /\ eventQ' = <<>> /\ listening' = None /\ saving' = None
    /\ batch' = None /\ run' = Idle /\ scan' = NoScan
    /\ UNCHANGED <<tables, chunks, late, tasks, aged>>

-----------------------------------------------------------------------------

Client ==
    \/ \E p \in used, e \in Id, n \in Name, g \in BOOLEAN : CreateEntry(p, e, n, g)
    \/ \E e, p \in used, n \in Name : MirrorEntry(e, p, n)
    \/ \E p, e \in used, n \in Name, k \in {1, 2} : RemoveEntry(p, e, n, k)
    \/ \E e \in used : OpenTx(e) \/ OpenCount(e) \/ Write(e) \/ CloseFile(e)

Executor == FindRunnableTasks \/ \E e \in used : Dispatch(e) \/ Check(e) \/ Clean(e) \/ Destroy(e) \/ Finish(e)

Scan == ScanOrphanEntries \/ \E e \in used : ScanCheck(e) \/ ScanSave(e)

Next ==
    \/ Client
    \/ \E e \in used : Publish(e) \/ HandleEvent(e) \/ SaveTask(e) \/ Age(e) \/ Expire(e)
    \/ Deliver \/ Executor \/ Scan \/ Crash

\* The loop and the scan are driven by tickers that never stop, entries age and
\* tasks expire with the clock, and clients count and close the files they
\* opened.  Nobody has to create, open, remove or publish anything, and events
\* may never be delivered.
Fairness ==
    /\ WF_vars(Executor)
    /\ WF_vars(Scan)
    /\ \A e \in Id \ {Root} :
          /\ WF_vars(OpenCount(e))
          /\ WF_vars(CloseFile(e))
          /\ WF_vars(Age(e))
          /\ WF_vars(Expire(e))

Spec == Init /\ [][Next]_vars /\ Fairness

-----------------------------------------------------------------------------
(* Properties. *)

\* A name always leads to a row whose data is there.  The test of core says so
\* of hard links: after one of three links is deleted, the others still resolve
\* and "Expect(mustGetEntry(mFile2).RefCount).Should(Equal(2))"
\* (core_test.go:240).  The dispatcher's execute does not look at the links.
LinkedIsIntact == \A r \in children : r.child \in rows \ cleaned

\* The same of an entry that never lost a link: cleanup destroys nothing that
\* nobody removed, whatever is lost, repeated or interrupted on the way from
\* RemoveEntry to execute, and whatever the orphan scan meets.
KeptIsIntact == \A r \in children : r.child \in unlinked \/ r.child \in rows \ cleaned

\* A file that is open when it loses its first link keeps its row and its data
\* until it is closed: the handle was counted before the remove event existed,
\* so every task for it finds IsFileOpened and is retried.  (A file that has
\* lost another link before may have a task that is past this test.)
HeldIsIntact == held \subseteq rows \ cleaned

\* What somebody still uses, by name or through an open file, is not destroyed
\* (execute and scanOrphanEntriesTask of entryCleanExecutor).
UsedIsIntact == KeptIsIntact /\ HeldIsIntact

\* No chunk data outlives its row (nothing would ever delete it): data goes
\* first, and an error or a crash in between leaves the row for another try.
\* The exception is a file that was opened after execute had looked for open
\* handles: what is written to it then may be left behind.
DestroyedHasNoData == data \subseteq rows \cup late

\* An entry without links is eventually destroyed, although its event, its
\* task or the process that ran it may be lost: Executing tasks expire, and the
\* scan makes new tasks for what is left.  (A MirrorEntry that had resolved the
\* file before it was unlinked may link it again.)
OrphanIsDestroyed ==
    LET orphan(e) == e \in rows /\ entry[e].refCount = 0
    IN  \A e \in Id \ {Root} : orphan(e) ~> ~orphan(e)
=============================================================================
