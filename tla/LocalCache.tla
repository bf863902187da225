----------------------------- MODULE LocalCache -----------------------------
(***************************************************************************)
(* The cache of segment pages on the local disk (pkg/storage/cache.go) in  *)
(* front of an object storage.  A page is fetched once, into a file of the *)
(* cache directory and into memory; the node in memory is shared by all    *)
(* readers and counted; an unused node waits in a priority queue until its *)
(* file is removed to make room.                                           *)
(*                                                                         *)
(* cachedFileMapper.mux is released around every disk access, and Close    *)
(* decrements the count before it takes it, so each of those pieces is a   *)
(* step.  The heap is abstracted to a bag: which node is the first is a    *)
(* choice, and index says only whether the node believes itself in the     *)
(* queue.  A crash loses the memory and keeps the directory.               *)
(***************************************************************************)
EXTENDS Integers, FiniteSetsExt

CONSTANTS
    Getter,     \* goroutines that read pages
    File,       \* pages, named key_idx
    Limit,      \* localCacheSizeLimit
    Nodes,      \* numbers of cacheNode objects
    MaxCopies,  \* bound on how often one node is queued
    MaxCrash    \* bound on crashes

ASSUME LocalCacheAssumption ==
    Limit \in Nat /\ Nodes \subseteq Nat \ {0} /\ MaxCopies \in Nat \ {0} /\ MaxCrash \in Nat

VARIABLES
    disk,     \* the cache directory: file -> absent, partial or full
    usage,    \* localCacheSizeUsage
    cached,   \* cachedNode: file -> node or 0
    pending,  \* files being fetched
    queue,    \* unusedNodeQ: node -> how often it is in it
    node,     \* nodeUsingInfo and its cacheNode
    getter,   \* the goroutines
    crashes

cacheVars == <<disk, usage, cached, pending, queue, node, getter, crashes>>

\* A page has two units; a partly written one has the first of them.
Size == 2

Bytes(state) == CASE state = "full" -> Size [] state = "partial" -> 1 [] OTHER -> 0

DiskBytes == MapThenSumSet(LAMBDA f : Bytes(disk[f]), File)

\* index: -1 when popped, "in" the queue, or 0 although never queued.
NoNode == [file |-> CHOOSE f \in File : TRUE, index |-> "out", ref |-> 0, mem |-> "nil",
           clashed |-> FALSE]   \* history: an Open met another Open or a Close of the node

IdleGetter == [pc |-> "idle", file |-> CHOOSE f \in File : TRUE, n |-> 0, crt |-> 0,
         rm |-> 1, left |-> 0, victim |-> CHOOSE f \in File : TRUE, size |-> 0]

InitCache ==
    /\ disk = [f \in File |-> "absent"]
    /\ usage = 0
    /\ cached = [f \in File |-> 0]
    /\ pending = {}
    /\ queue = [n \in Nodes |-> 0]
    /\ node = [n \in Nodes |-> NoNode]
    /\ getter = [p \in Getter |-> IdleGetter]
    /\ crashes = 0

Go(p, pc) == getter' = [getter EXCEPT ![p].pc = pc]

\* The call returns: with the node, or with an error.
Return(p) == getter' = [getter EXCEPT ![p] = IdleGetter]

\* Nodes something still points to; the others are garbage and their numbers free.
Referenced ==
    {n \in Nodes : queue[n] > 0 \/ (\E f \in File : cached[f] = n) \/ (\E p \in Getter : getter[p].n = n)}

Queued == \E n \in Nodes : queue[n] > 0

\* Other copies of a node that heap operations may have moved: a move sets index.
Moved(q, nd) ==
    {[n \in Nodes |-> IF n \in s THEN [nd[n] EXCEPT !.index = "in"] ELSE nd[n]] :
        s \in SUBSET {n \in Nodes : q[n] > 0 /\ nd[n].index = "out"}}

\* heap.Remove(q, n.index): the node itself, or for index 0 whatever is first.
HeapRemove(n) ==
    \E m \in Nodes :
        /\ queue[m] > 0
        /\ node[n].index = "in" => m = n
        /\ queue' = [queue EXCEPT ![m] = @ - 1]
        /\ node' \in Moved(queue', [node EXCEPT ![m].index = "out", ![n].index = "out"])

Busy(n) ==
    \E q \in Getter : getter[q].n = n /\ getter[q].pc \in {"open", "loading", "return", "memclose"}

\* fetchCacheNode, up to the first Unlock: a hit takes the node out of the queue.
FetchHit(p, f) ==
    /\ getter[p].pc = "idle" /\ cached[f] # 0
    /\ getter' = [getter EXCEPT ![p].pc = "ref", ![p].file = f, ![p].n = cached[f]]
    /\ IF node[cached[f]].index # "out" /\ Queued
       THEN HeapRemove(cached[f])
       ELSE UNCHANGED <<queue, node>>
    /\ UNCHANGED <<disk, usage, cached, pending, crashes>>

FetchWait(p, f) ==
    /\ getter[p].pc = "idle" /\ cached[f] = 0 /\ f \in pending
    /\ getter' = [getter EXCEPT ![p].pc = "wait", ![p].file = f]
    /\ UNCHANGED <<disk, usage, cached, pending, queue, node, crashes>>

\* Mutant: every miss fetches for itself.
FetchMissAlways(p, f) ==
    /\ getter[p].pc = "idle" /\ cached[f] = 0
    /\ pending' = pending \cup {f}
    /\ getter' = [getter EXCEPT ![p].pc = "head", ![p].file = f]
    /\ UNCHANGED <<disk, usage, cached, queue, node, crashes>>

FetchMiss(p, f) ==
    /\ getter[p].pc = "idle" /\ cached[f] = 0 /\ f \notin pending
    /\ Cardinality(Nodes \ Referenced) > Cardinality(pending)
    /\ pending' = pending \cup {f}
    /\ getter' = [getter EXCEPT ![p].pc = "head", ![p].file = f]
    /\ UNCHANGED <<disk, usage, cached, queue, node, crashes>>

\* The waiter, after a Broadcast that found the file no longer pending.
Wake(p) ==
    /\ getter[p].pc = "wait" /\ getter[p].file \notin pending
    /\ IF cached[getter[p].file] = 0 THEN Return(p)
       ELSE getter' = [getter EXCEPT ![p].pc = "ref", ![p].n = cached[getter[p].file]]
    /\ UNCHANGED <<disk, usage, cached, pending, queue, node, crashes>>

-----------------------------------------------------------------------------
\* cacheNode.Open: read the count, ...
OpenLoadRef(p) ==
    LET n == getter[p].n IN
    /\ getter[p].pc = "ref"
    /\ getter' = [getter EXCEPT ![p].pc = "open", ![p].crt = node[n].ref]
    /\ node' = [node EXCEPT ![n].clashed = @ \/ Busy(n)]
    /\ UNCHANGED <<disk, usage, cached, pending, queue, crashes>>

\* ... then either be the one who loads the file, or count oneself in.
OpenCount(p) ==
    LET n == getter[p].n
        first == getter[p].crt = 0 /\ node[n].ref = 0
    IN
    /\ getter[p].pc = "open"
    /\ getter' = [getter EXCEPT ![p].pc = IF first THEN "loading" ELSE "held", ![p].crt = 0]
    /\ node' = [node EXCEPT ![n].ref = @ + 1]
    /\ UNCHANGED <<disk, usage, cached, pending, queue, crashes>>

\* openLocalCache: a partly written file does not decompress.
OpenLoad(p) ==
    LET n == getter[p].n IN
    /\ getter[p].pc = "loading"
    /\ \/ /\ disk[node[n].file] = "full"
          /\ node' = [node EXCEPT ![n].mem = "data"]
          /\ Go(p, "held")
       \/ /\ node' = [node EXCEPT ![n].mem = "nil", ![n].clashed = TRUE]
          /\ Return(p)
    /\ UNCHANGED <<disk, usage, cached, pending, queue, crashes>>

\* Mutant: every Close releases the memory.
CloseAlways(p) ==
    LET n == getter[p].n IN
    /\ getter[p].pc = "held" /\ queue[n] < MaxCopies
    /\ node' = [node EXCEPT ![n].ref = @ - 1, ![n].clashed = @ \/ Busy(n)]
    /\ Go(p, "return")
    /\ UNCHANGED <<disk, usage, cached, pending, queue, crashes>>

\* cacheNode.Close: decrement, ...
Close(p) ==
    LET n == getter[p].n IN
    /\ getter[p].pc = "held"
    /\ node[n].ref = 1 => queue[n] < MaxCopies
    /\ node' = [node EXCEPT ![n].ref = @ - 1, ![n].clashed = @ \/ Busy(n)]
    /\ IF node[n].ref = 1 THEN Go(p, "return") ELSE Return(p)
    /\ UNCHANGED <<disk, usage, cached, pending, queue, crashes>>

\* ... returnNode queues whatever node has the file's name now, ...
ReturnNode(p) ==
    LET m == cached[node[getter[p].n].file] IN
    /\ getter[p].pc = "return"
    /\ Go(p, "memclose")
    /\ IF m = 0 THEN UNCHANGED <<queue, node>>
       ELSE /\ queue' = [queue EXCEPT ![m] = @ + 1]
            /\ node' \in Moved(queue', [node EXCEPT ![m].index = "in"])
    /\ UNCHANGED <<disk, usage, cached, pending, crashes>>

\* ... and memCacheNode.Close gives the memory back.
MemClose(p) ==
    /\ getter[p].pc = "memclose"
    /\ UNCHANGED <<disk, usage, cached, pending, queue, crashes>>
    /\ Return(p)
    /\ LET n == getter[p].n
           quiet == node[n].ref = 0 /\ \A q \in Getter \ {p} : getter[q].n # n
       IN  node' = [node EXCEPT ![n] = IF n \in Referenced'
                                       THEN [node[n] EXCEPT !.mem = "nil", !.clashed = @ /\ ~quiet]
                                       ELSE NoNode]

-----------------------------------------------------------------------------
\* makeLocalCache fails: the file stops being pending, what was accounted and
\* written stays.
Fail(p) ==
    /\ pending' = pending \ {getter[p].file}
    /\ Return(p)

\* Head of the object; the storage may fail.
BuildHead(p) ==
    /\ getter[p].pc = "head"
    /\ \/ Go(p, "account") /\ UNCHANGED pending
       \/ Fail(p)
    /\ UNCHANGED <<disk, usage, cached, queue, node, crashes>>

\* mustAccountCacheUsage: make room, or remember the usage that was read.
Account(p) ==
    /\ getter[p].pc = "account"
    /\ getter' = [getter EXCEPT ![p] =
                IF usage + Size > Limit
                THEN [getter[p] EXCEPT !.pc = "evict", !.left = getter[p].rm, !.rm = IF @ < 2 THEN @ + 1 ELSE @]
                ELSE [getter[p] EXCEPT !.pc = "cas", !.crt = usage]]
    /\ UNCHANGED <<disk, usage, cached, pending, queue, node, crashes>>

\* The context is done.
AccountCanceled(p) ==
    /\ getter[p].pc = "account"
    /\ Fail(p)
    /\ UNCHANGED <<disk, usage, cached, queue, node, crashes>>

\* Mutant: the usage is added without comparing it again.
AccountAdd(p) ==
    /\ getter[p].pc = "cas"
    /\ usage' = usage + Size /\ Go(p, "create")
    /\ UNCHANGED <<disk, cached, pending, queue, node, crashes>>

AccountSwap(p) ==
    /\ getter[p].pc = "cas"
    /\ IF usage = getter[p].crt
       THEN usage' = usage + Size /\ getter' = [getter EXCEPT ![p] = [IdleGetter EXCEPT !.pc = "create", !.file = getter[p].file]]
       ELSE UNCHANGED usage /\ getter' = [getter EXCEPT ![p].pc = "account", ![p].crt = 0]
    /\ UNCHANGED <<disk, cached, pending, queue, node, crashes>>

Create(p) ==
    /\ getter[p].pc = "create"
    /\ \/ /\ disk' = [disk EXCEPT ![getter[p].file] = "partial"]
          /\ Go(p, "copy") /\ UNCHANGED pending
       \/ Fail(p) /\ UNCHANGED disk
    /\ UNCHANGED <<usage, cached, queue, node, crashes>>

\* Get, retried, and the copy into the file and through the decoder; an evictor
\* may have unlinked the file meanwhile.
Copy(p) ==
    /\ getter[p].pc = "copy"
    /\ \/ /\ disk' = [disk EXCEPT ![getter[p].file] = IF @ = "partial" THEN "full" ELSE @]
          /\ Go(p, "insert") /\ UNCHANGED pending
       \/ Fail(p) /\ UNCHANGED disk
    /\ UNCHANGED <<usage, cached, queue, node, crashes>>

\* fetchCacheNode: the new node, with index 0 although it is in no queue.
Insert(p) ==
    /\ getter[p].pc = "insert" /\ Nodes # Referenced
    /\ LET n == CHOOSE n \in Nodes \ Referenced : TRUE IN
       /\ node' = [node EXCEPT ![n] = [NoNode EXCEPT !.file = getter[p].file, !.index = "zero",
                                                     !.ref = 1, !.mem = "data"]]
       /\ cached' = [cached EXCEPT ![getter[p].file] = n]
       /\ getter' = [getter EXCEPT ![p].pc = "held", ![p].n = n]
    /\ pending' = pending \ {getter[p].file}
    /\ UNCHANGED <<disk, usage, queue, crashes>>

-----------------------------------------------------------------------------
\* cleanSpace: one of the removals is done.
Removed(p) ==
    getter' = [getter EXCEPT ![p].left = @ - 1,
                     ![p].pc = IF getter[p].left = 1 THEN "account" ELSE "evict"]

\* removeNextCacheFile under the mutex: nothing is unused, or the node popped is
\* no longer mapped, ...
PopNothing(p) ==
    /\ getter[p].pc = "evict" /\ ~Queued
    /\ Removed(p)
    /\ UNCHANGED <<disk, usage, cached, pending, queue, node, crashes>>

\* ... or its file is to be removed, whichever node has the name now.
Pop(p) ==
    /\ getter[p].pc = "evict"
    /\ \E m \in Nodes :
        /\ queue[m] > 0
        /\ queue' = [queue EXCEPT ![m] = @ - 1]
        /\ node' \in Moved(queue', [node EXCEPT ![m].index = "out"])
        /\ IF cached[node[m].file] = 0 THEN Removed(p)
           ELSE getter' = [getter EXCEPT ![p].pc = "stat", ![p].victim = node[m].file,
                                 ![p].n = cached[node[m].file]]
    /\ UNCHANGED <<disk, usage, cached, pending, crashes>>

\* Any error of Stat, a missing file too, ends the fetch.
Stat(p) ==
    /\ getter[p].pc = "stat"
    /\ IF disk[getter[p].victim] = "absent" THEN Fail(p)
       ELSE /\ getter' = [getter EXCEPT ![p].pc = "remove", ![p].size = Bytes(disk[getter[p].victim])]
            /\ UNCHANGED pending
    /\ UNCHANGED <<disk, usage, cached, queue, node, crashes>>

RemoveFile(p) ==
    /\ getter[p].pc = "remove"
    /\ IF disk[getter[p].victim] = "absent" THEN Fail(p) /\ UNCHANGED disk
       ELSE /\ disk' = [disk EXCEPT ![getter[p].victim] = "absent"]
            /\ Go(p, "unmap") /\ UNCHANGED pending
    /\ UNCHANGED <<usage, cached, queue, node, crashes>>

Unmap(p) ==
    /\ getter[p].pc = "unmap"
    /\ IF node[getter[p].n].index # "out" /\ Queued
       THEN HeapRemove(getter[p].n)
       ELSE UNCHANGED <<queue, node>>
    /\ cached' = [cached EXCEPT ![getter[p].victim] = 0]
    /\ Go(p, "release")
    /\ UNCHANGED <<disk, usage, pending, crashes>>

Release(p) ==
    /\ getter[p].pc = "release"
    /\ usage' = usage - getter[p].size
    /\ getter' = [getter EXCEPT ![p] = [getter[p] EXCEPT !.left = @ - 1, !.n = 0, !.size = 0, !.victim = IdleGetter.victim,
                                         !.pc = IF getter[p].left = 1 THEN "account" ELSE "evict"]]
    /\ UNCHANGED <<disk, cached, pending, queue, node, crashes>>

-----------------------------------------------------------------------------
\* The process dies; at the next start load counts and queues every file it finds.
Crash ==
    /\ crashes < MaxCrash
    /\ \E start \in {s \in [File -> Nodes \cup {0}] :
                        \A f, g \in File : (s[f] = 0 <=> disk[f] = "absent")
                                           /\ (f # g /\ s[f] = s[g] => s[f] = 0)} :
        /\ cached' = start
        /\ queue' = [n \in Nodes |-> IF \E f \in File : start[f] = n THEN 1 ELSE 0]
        /\ node' = [n \in Nodes |->
                        IF \E f \in File : start[f] = n
                        THEN [NoNode EXCEPT !.file = CHOOSE f \in File : start[f] = n, !.index = "in"]
                        ELSE NoNode]
    /\ usage' = DiskBytes
    /\ pending' = {}
    /\ getter' = [p \in Getter |-> IdleGetter]
    /\ crashes' = crashes + 1
    /\ UNCHANGED disk

Step(p) ==
    \/ \E f \in File : FetchHit(p, f) \/ FetchWait(p, f) \/ FetchMiss(p, f)
    \/ Wake(p) \/ OpenLoadRef(p) \/ OpenCount(p) \/ OpenLoad(p)
    \/ Close(p) \/ ReturnNode(p) \/ MemClose(p)
    \/ BuildHead(p) \/ Account(p) \/ AccountCanceled(p) \/ AccountSwap(p)
    \/ Create(p) \/ Copy(p) \/ Insert(p)
    \/ PopNothing(p) \/ Pop(p) \/ Stat(p) \/ RemoveFile(p) \/ Unmap(p) \/ Release(p)

CacheNext == (\E p \in Getter : Step(p)) \/ Crash

CacheSpec == InitCache /\ [][CacheNext]_cacheVars

-----------------------------------------------------------------------------
Building == {"head", "account", "cas", "create", "copy", "insert",
             "evict", "stat", "remove", "unmap", "release"}

\* What the files of the cache directory take is covered by the accounted usage and
\* stays within the configured limit (mustAccountCacheUsage, removeNextCacheFile),
\* with any number of concurrent fetches, evictions, failures and restarts.
DiskWithinLimit ==
    LET releasing == MapThenSumSet(LAMBDA p : IF getter[p].pc \in {"unmap", "release"}
                                              THEN getter[p].size ELSE 0, Getter)
    IN  DiskBytes + releasing <= usage /\ usage <= Limit

\* A page is fetched by one goroutine at a time, and one that is waited for is being
\* fetched: nobody waits in fetchCacheNode for a Broadcast that cannot come.
PendingIsFetched ==
    \A f \in File :
        Cardinality({p \in Getter : getter[p].pc \in Building /\ getter[p].file = f})
            = (IF f \in pending THEN 1 ELSE 0)

\* A goroutine that holds a node can read its data, whatever is evicted, closed by
\* others or mapped anew meanwhile (cacheNode.Open and Close), unless two calls of
\* Open or Close of that node overlapped or its file could not be loaded; and the
\* count of references covers every goroutine that uses the node.
HeldHasData ==
    /\ \A p \in Getter :
        getter[p].pc = "held" /\ ~node[getter[p].n].clashed => node[getter[p].n].mem = "data"
    /\ \A n \in Nodes :
        node[n].ref >= Cardinality({p \in Getter : getter[p].n = n /\ getter[p].pc \in {"loading", "held"}})
=============================================================================
