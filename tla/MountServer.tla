---------------------------- MODULE MountServer ----------------------------
(***************************************************************************)
(* A nanafs process with a FUSE mount, a WebDAV server, the archiving of   *)
(* RSS groups and the dispatcher at work on one namespace.                 *)
(***************************************************************************)
EXTENDS FuseNodes, WebdavServer, RssArchive, DocumentIndex

CONSTANTS
  Props,          \* property rows at the start
  Bytes,          \* contents of the files at the start
  Inodes,         \* inodes the kernel knows at the start
  Load,           \* sets of requests to run at the same time
  MaxRestarts(_)  \* requests -> restarts of the process

serverVars == <<handlerVars, treeVars, fsVars, node, indexVars>>

Inode(e) == [path |-> ProbableEntryPath(e), name |-> Tree[e].name, kind |-> Tree[e].kind, acc |-> Tree[e].acc]

Init ==
  /\ InitHandlers(Load)
  /\ at = [p \in Procs |-> Local]
  /\ entry = Tree /\ prop = Props /\ data = Bytes
  /\ size = [e \in DOMAIN Tree |-> Len(Bytes[e])]
  /\ eventQ = <<>> /\ tasks = <<>>
  /\ moved = {} /\ overtaken = {} /\ kept = <<>> /\ content = Bytes /\ raced = {}
  /\ node = [e \in Inodes |-> Inode(e)]
  /\ doc = [e \in Docs |-> ProbableEntryPath(e)]
  /\ round = <<>> /\ restarts = 0

\* The process ends and starts again: calls under way, events and the round of
\* the dispatcher are lost, tables stay.  The mount starts with the root.
Restart ==
  LET lost == {eventQ[i].id : i \in DOMAIN eventQ} \cup {tasks[i].id : i \in Tasks("executing")}
  IN  /\ restarts < MaxRestarts(req)
      /\ restarts' = restarts + 1
      /\ resp' = [p \in Procs |-> IF pc[p] \in {"enter", "done"} THEN resp[p] ELSE <<"lost">>]
      /\ pc' = [p \in Procs |-> IF pc[p] = "enter" THEN "enter" ELSE "done"]
      /\ eventQ' = <<>>
      /\ round' = <<>>
      /\ overtaken' = overtaken \cup lost \cup UNION {Under(e) : e \in lost}
      /\ node' = [e \in {Root} |-> node[Root]]
      /\ UNCHANGED <<req, at, faults, treeVars, size, tasks, moved, kept, content, raced, doc>>

Next ==
  \/ \E p \in Procs : \/ FuseStep(p) /\ UNCHANGED indexVars
                      \/ DavStep(p) /\ UNCHANGED <<node, indexVars>>
                      \/ ArchiveStep(p) /\ UNCHANGED <<node, indexVars>>
  \/ IndexStep /\ UNCHANGED node
  \/ Restart

Spec == Init /\ [][Next]_serverVars /\ WF_serverVars(Next)

\* Every call returns, the dispatcher has worked off every task, and a run of the
\* archive has filed the feed (calls, goroutines and rounds are finite, and the
\* runtime schedules them all).  One call does not return: NanaNode.Readdir repeats
\* a listing for ever in which a call has failed or a child has vanished.
MountSettles ==
  <>[] /\ \A p \in Procs : \/ pc[p] \in {"enter", "done"}
                           \/ pc[p] = "loop" /\ (faults > 0 \/ moved # {})
       /\ Settled /\ OldIsFiled
=============================================================================
