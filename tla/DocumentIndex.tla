--------------------------- MODULE DocumentIndex ---------------------------
(***************************************************************************)
(* The paths in the search index (pkg/dispatch/index_task.go,              *)
(* pkg/indexer/metadb.go) and the dispatcher that runs the tasks           *)
(* (pkg/dispatch/dispatcher.go).  A change_parent event goes through a     *)
(* queue and a goroutine of its own to documentURIUpdateExecutor, which    *)
(* records a task; the dispatcher runs recorded tasks one after the other. *)
(***************************************************************************)
EXTENDS FileSystem

CONSTANTS
  Docs          \* entries that have a document in the index

VARIABLES
  doc,          \* documents: id -> uri
  round,        \* dispatcher: tasks of this round that are left, indices of tasks
  restarts      \* restarts so far

indexVars == <<doc, round, restarts>>

Waiting(e) == \E i \in DOMAIN tasks : tasks[i].id = e /\ tasks[i].status = "wait"

\* handleEvent: an entry with a waiting task gets no second one, so the newer
\* path is dropped.  There is no lock between the look and the save.
HandleEvent ==
  \E i \in DOMAIN eventQ :
    /\ ~eventQ[i].seen
    /\ eventQ' = IF Waiting(eventQ[i].id) THEN RemoveAt(eventQ, i) ELSE [eventQ EXCEPT ![i].seen = TRUE]
    /\ UNCHANGED <<tasks, overtaken, faults, indexVars>>

\* A task that cannot be recorded is gone with its event.
SaveNewTask ==
  \E i \in DOMAIN eventQ :
    /\ eventQ[i].seen
    /\ eventQ' = RemoveAt(eventQ, i)
    /\ \/ /\ Fine
          /\ tasks' = Append(tasks, [id |-> eventQ[i].id, uri |-> eventQ[i].uri, status |-> "wait"])
          /\ UNCHANGED overtaken
       \/ /\ Fail
          /\ overtaken' = overtaken \cup {eventQ[i].id} \cup Under(eventQ[i].id)
          /\ UNCHANGED tasks
    /\ UNCHANGED indexVars

Tasks(st) == {i \in DOMAIN tasks : tasks[i].status = st}
SetStatus(i, st) == tasks' = [tasks EXCEPT ![i].status = st]

\* A round starts: waiting tasks in the order they were recorded; a task left
\* executing by an earlier process fails when its hour is over.
findRunnableTasks ==
  /\ round = <<>>
  /\ \/ /\ Tasks("wait") # {}
        /\ round' = SetToSortSeq(Tasks("wait"), <)
        /\ UNCHANGED tasks
     \/ /\ Tasks("executing") # {}
        /\ tasks' = [i \in DOMAIN tasks |-> IF tasks[i].status = "executing"
                                            THEN [tasks[i] EXCEPT !.status = "failed"] ELSE tasks[i]]
        /\ UNCHANGED round
  /\ UNCHANGED <<eventQ, overtaken, faults, doc, restarts>>

\* dispatch: the task is saved as executing; if that fails it waits for another round.
StartTask ==
  /\ round # <<>>
  /\ tasks[Head(round)].status = "wait"
  /\ \/ Fine /\ SetStatus(Head(round), "executing") /\ UNCHANGED round
     \/ Fail /\ round' = Tail(round) /\ UNCHANGED tasks
  /\ UNCHANGED <<eventQ, overtaken, doc, restarts>>

\* UpdateChildrenURI joins the event's path with the names below the group now.
NamesFrom(g, d) ==
  LET k == CHOOSE k \in 1 .. Cardinality(Ids) : Up(d, k) = g
  IN  [j \in 1 .. k |-> entry[Up(d, k - j)].name]

\* Mutant: documents below a moved group keep their path.
UpdateURIOne(t) == [d \in Docs |-> IF d = t.id THEN t.uri ELSE doc[d]]

UpdateURI(t) ==
  IF IsGroup(t.id)
  THEN [d \in Docs |-> IF d \in Below(t.id) THEN t.uri \o NamesFrom(t.id, d) ELSE doc[d]]
  ELSE [d \in Docs |-> IF d = t.id THEN t.uri ELSE doc[d]]

\* execute, and the task is saved with its result.  The entry cannot be read
\* (failed), the index cannot be written (only logged: succeed), or the result
\* cannot be saved.
ExecuteTask ==
  LET i == Head(round)
  IN  /\ round # <<>>
      /\ tasks[i].status = "executing"
      /\ \/ Fine /\ doc' = UpdateURI(tasks[i]) /\ SetStatus(i, "succeed") /\ UNCHANGED overtaken
         \/ Fail /\ doc' = UpdateURI(tasks[i]) /\ UNCHANGED <<tasks, overtaken>>
         \/ /\ Fail
            /\ \E st \in {"failed", "succeed"} : SetStatus(i, st)
            /\ overtaken' = overtaken \cup {tasks[i].id} \cup Under(tasks[i].id)
            /\ UNCHANGED doc
      /\ round' = Tail(round)
      /\ UNCHANGED <<eventQ, restarts>>

IndexStep ==
  /\ HandleEvent \/ SaveNewTask \/ findRunnableTasks \/ StartTask \/ ExecuteTask
  /\ UNCHANGED <<req, pc, at, resp, treeVars, size, moved, kept, content, raced>>

-----------------------------------------------------------------------------
(* Properties.                                                             *)

Settled == eventQ = <<>> /\ Tasks("wait") = {} /\ Tasks("executing") = {}

\* When nothing is left to do the index knows the path of every document
\* (documentURIUpdateExecutor.execute), unless an entry was moved again before
\* the first move had reached the index, or a call failed, or the process was
\* restarted with the event or the task in its hands.
UriIsCurrent ==
  Settled => \A d \in Docs : Linked(d) /\ Root \in Above(d) /\ d \notin overtaken
                             => doc[d] = ProbableEntryPath(d)
=============================================================================
