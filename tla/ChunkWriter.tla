---------------------------- MODULE ChunkWriter ----------------------------
(***************************************************************************)
(* The writer that all write handles of one open file share                *)
(* (pkg/bio/chunk.go).  WriteAt puts data into pages of uncommitted        *)
(* segments, one goroutine per page; full pages and the pages of segments  *)
(* that are ready to commit are uploaded by a pool of workers; a goroutine *)
(* per chunk appends the segments to the metastore in order.               *)
(*                                                                         *)
(* One atomic step of the model is what a goroutine does between two       *)
(* accesses that another goroutine can come between.  Three locks occur:   *)
(* segWriter.mux (mux), uncommittedPage.mux (locked) and the condition     *)
(* variable on segWriter.mux; uncommittedSeg.mux only ever guards a single *)
(* step.  The slice segWriter.uncommitted is read and written without a    *)
(* common lock, so its updates are a read step and a write step.           *)
(***************************************************************************)
EXTENDS Integers, FiniteSets, Sequences, SequencesExt

CONSTANTS
    Client,      \* goroutines that call the writer's methods
    Writers,     \* those of them that write
    Ranges,      \* the ranges <<off, end>> they write
    Chunks,      \* number of chunks of the file
    PageLen,     \* bytes per page
    ChunkPages,  \* pages per chunk
    CommitLimit, \* commit goroutines a file may have (5)
    MaxWrites,   \* calls of WriteAt
    MaxFlushes,  \* calls of Flush or Fsync
    MaxFaults,   \* failing uploads and appends
    Cancels      \* whether the context of the handles may be cancelled

ASSUME WriterAssumption ==
    /\ Writers \subseteq Client
    /\ \A r \in Ranges : r \in Nat \X Nat /\ r[1] < r[2] /\ r[2] <= Chunks * PageLen * ChunkPages
    /\ {Chunks, PageLen, ChunkPages, CommitLimit} \subseteq Nat \ {0}
    /\ {MaxWrites, MaxFlushes, MaxFaults} \subseteq Nat
    /\ Cancels \in BOOLEAN

VARIABLES
    segs,         \* every uncommittedSeg created
    pages,        \* every uncommittedPage created
    uncommitted,  \* per chunk: segWriter.uncommitted
    mux,          \* per chunk: whether segWriter.mux is held
    chunkErr,     \* per chunk: segWriter.chunkErr is set
    unready,      \* chunkWriter.unready
    committing,   \* chunkWriter.commitLimit
    writerMux,    \* whether a Flush holds chunkWriter.writerMux
    calls,        \* per client: the call in progress, or how the last one ended
    preWrites,    \* preWrite goroutines
    flushing,     \* flushData tasks
    commits,      \* commitSegment goroutines
    store,        \* the segments appended to the metastore, in order
    acked,        \* per byte: the number of the last write acknowledged, or 0
    budget,       \* the writes, flushes and faults that have happened
    cancelled,    \* the context is done
    crashed       \* a goroutine has panicked

vars == <<segs, pages, uncommitted, mux, chunkErr, unready, committing, writerMux, calls,
          preWrites, flushing, commits, store, acked, budget, cancelled, crashed>>

data == <<segs, pages, flushing>>

slices == <<uncommitted, unready, committing>>

ghost == <<store, acked, budget>>

process == <<cancelled, crashed>>

ChunkLen == PageLen * ChunkPages

Chunk == 0 .. Chunks - 1

Byte == 0 .. Chunks * ChunkLen - 1

ChunkOf(o) == o \div ChunkLen

PageOf(o) == o \div PageLen

Pos == 0 .. PageLen - 1

-----------------------------------------------------------------------------

NoCall == [pc |-> "idle", op |-> "none", ok |-> TRUE, from |-> 0, crt |-> 0, end |-> 0,
           val |-> 0, seg |-> 0, page |-> 0, hdr |-> <<>>, todo |-> {}]

Init ==
    /\ segs = <<>> /\ pages = <<>>
    /\ uncommitted = [k \in Chunk |-> <<>>]
    /\ mux = [k \in Chunk |-> FALSE] /\ chunkErr = [k \in Chunk |-> FALSE]
    /\ unready = 0 /\ committing = 0 /\ writerMux = FALSE
    /\ calls = [c \in Client |-> NoCall]
    /\ preWrites = {} /\ flushing = {} /\ commits = <<>>
    /\ store = <<>> /\ acked = [o \in Byte |-> 0]
    /\ budget = [writes |-> 0, flushes |-> 0, faults |-> 0]
    /\ cancelled = FALSE /\ crashed = FALSE

(* The pages that tryCommit has to commit, and whether it can lock them.   *)
OpenPages(s) ==
    IF segs[s].ready THEN {} ELSE {p \in ToSet(segs[s].pages) : ~pages[p].committed}

Lockable(S) == \A s \in S : \A p \in OpenPages(s) : ~pages[p].locked

(* tryCommit on the segments of S: all of their pages go to the workers.   *)
PagesAfter(S) ==
    [p \in DOMAIN pages |-> [pages[p] EXCEPT !.committed = @ \/ \E s \in S : p \in OpenPages(s)]]

SegsAfter(S) ==
    [s \in DOMAIN segs |->
        IF s \in S
        THEN [segs[s] EXCEPT !.ready = TRUE, !.uploads = @ + Cardinality(OpenPages(s))]
        ELSE segs[s]]

(* Dispatch hands the tasks over, unless the context is done: then it may  *)
(* drop them, whatever the wait group expects.                             *)
Dispatch(P) ==
    \E dropped \in SUBSET P :
        /\ dropped # {} => cancelled
        /\ flushing' = flushing \cup {[page |-> p, pc |-> "wait"] : p \in P \ dropped}

DispatchAll(S) == Dispatch(UNION {OpenPages(s) : s \in S})

(* cond.Broadcast wakes the goroutines that wait, and no others.           *)
Broadcast(k) ==
    commits' = [i \in DOMAIN commits |->
                    IF commits[i].chunk = k /\ commits[i].pc = "waiting"
                    THEN [commits[i] EXCEPT !.pc = "woken"] ELSE commits[i]]

Goto(c, pc) == calls' = [calls EXCEPT ![c].pc = pc]

Return(c, ok) ==
    calls' = [calls EXCEPT ![c] = [NoCall EXCEPT !.op = calls[c].op, !.ok = ok]]

Count(what) == budget' = [budget EXCEPT ![what] = @ + 1]

-----------------------------------------------------------------------------
(* WriteAt                                                                 *)

(* A write lies within one chunk: one that spans chunks is the sequence of *)
(* its parts.                                                              *)
WriteAt(c, off, end) ==
    /\ c \in Writers
    /\ calls[c].pc = "idle" /\ budget.writes < MaxWrites
    /\ ChunkOf(off) = ChunkOf(end - 1)
    /\ Count("writes")
    /\ calls' = [calls EXCEPT ![c] = [NoCall EXCEPT !.pc = "put", !.op = "WriteAt",
                                                    !.from = off, !.crt = off, !.end = end,
                                                    !.val = budget.writes + 1]]
    /\ acked' = [o \in Byte |-> IF off <= o /\ o < end THEN 0 ELSE acked[o]]
    /\ UNCHANGED <<mux, chunkErr, writerMux, preWrites, commits, store, data, slices, process>>

(* put, called for every page of the range, takes the segment writer's     *)
(* lock; writeSegData has looked the segment writer up before the first.   *)
Put(c) ==
    LET k == ChunkOf(calls[c].crt)
    IN  /\ calls[c].pc = "put"
        /\ calls[c].crt = calls[c].from => ~writerMux
        /\ ~mux[k]
        /\ mux' = [mux EXCEPT ![k] = TRUE]
        /\ Goto(c, "find")
        /\ UNCHANGED <<chunkErr, writerMux, preWrites, commits, data, slices, ghost, process>>

(* The newest uncommitted segment that ends at or before off.  The newer   *)
(* ones are committed on the way: modifyAt is never set, so they always    *)
(* count as timed out.                                                     *)
Usable(k, off) ==
    {j \in DOMAIN uncommitted[k] :
        LET s == segs[uncommitted[k][j]] IN ~s.ready /\ s.off + s.size <= off}

Newer(k, j) == {uncommitted[k][i] : i \in {i \in DOMAIN uncommitted[k] : i > j}}

PagesAt(s, idx) == SelectSeq(segs[s].pages, LAMBDA p : pages[p].idx = idx)

(* findUncommittedPage.  A page that is being uploaded cannot be rewritten:*)
(* then, as when no segment is usable, put makes a new segment.            *)
FindUncommittedPage(c) ==
    LET off == calls[c].crt
        k   == ChunkOf(off)
        j   == Max({0} \cup Usable(k, off))
        s   == IF j = 0 THEN 0 ELSE uncommitted[k][j]
        at  == IF j = 0 THEN <<>> ELSE PagesAt(s, PageOf(off))
        p   == IF at = <<>> THEN 0 ELSE at[1]
        new == s = 0 \/ (p # 0 /\ pages[p].committed)
    IN  /\ calls[c].pc = "find"
        /\ Lockable(Newer(k, j))
        /\ p # 0 => ~pages[p].locked
        /\ segs' = SegsAfter(Newer(k, j))
        /\ pages' = PagesAfter(Newer(k, j))
        /\ DispatchAll(Newer(k, j))
        /\ calls' = [calls EXCEPT ![c].seg = s, ![c].page = p,
                                  ![c].pc = IF new THEN "read" ELSE IF p = 0 THEN "page" ELSE "visit"]
        /\ mux' = [mux EXCEPT ![k] = new \/ p # 0]
        /\ UNCHANGED <<chunkErr, writerMux, preWrites, commits, slices, ghost, process>>

(* page.mux is released before the visitor is counted.                     *)
Visit(c) ==
    /\ calls[c].pc = "visit"
    /\ pages' = [pages EXCEPT ![calls[c].page].visitor = @ + 1]
    /\ mux' = [mux EXCEPT ![ChunkOf(calls[c].crt)] = FALSE]
    /\ Goto(c, "add")
    /\ UNCHANGED <<segs, chunkErr, writerMux, preWrites, flushing, commits, slices, ghost, process>>

(* append(w.uncommitted, seg): the slice is read ...                       *)
NewSegment(c) ==
    LET k == ChunkOf(calls[c].crt)
    IN  /\ calls[c].pc = "read"
        /\ segs' = Append(segs, [chunk |-> k, off |-> calls[c].crt, size |-> 0, ready |-> FALSE,
                                 uploads |-> 0, pages |-> <<>>])
        /\ calls' = [calls EXCEPT ![c].pc = "append", ![c].seg = Len(segs) + 1,
                                  ![c].hdr = uncommitted[k]]
        /\ UNCHANGED <<pages, mux, chunkErr, writerMux, preWrites, flushing, commits, slices,
                       ghost, process>>

(* Mutant: the new segment is not counted in unready.                      *)
AppendUncounted(c) ==
    LET k == ChunkOf(calls[c].crt)
    IN  /\ calls[c].pc = "append"
        /\ uncommitted' = [uncommitted EXCEPT ![k] = Append(calls[c].hdr, calls[c].seg)]
        /\ calls' = [calls EXCEPT ![c].pc = "spawn", ![c].hdr = <<>>]
        /\ UNCHANGED <<mux, chunkErr, unready, committing, writerMux, preWrites, commits, data,
                       ghost, process>>

(* ... and written.                                                        *)
AppendUncommitted(c) ==
    LET k == ChunkOf(calls[c].crt)
    IN  /\ calls[c].pc = "append"
        /\ uncommitted' = [uncommitted EXCEPT ![k] = Append(calls[c].hdr, calls[c].seg)]
        /\ unready' = unready + 1
        /\ calls' = [calls EXCEPT ![c].pc = "spawn", ![c].hdr = <<>>]
        /\ UNCHANGED <<mux, chunkErr, committing, writerMux, preWrites, commits, data, ghost,
                       process>>

(* The only uncommitted segment gets a goroutine, once there are fewer     *)
(* than CommitLimit; put waits for that with the lock held.                *)
Spawn(c) ==
    LET k == ChunkOf(calls[c].crt)
    IN  /\ calls[c].pc = "spawn"
        /\ \/ /\ Len(uncommitted[k]) = 1
              /\ committing < CommitLimit
              /\ committing' = committing + 1
              /\ commits' = Append(commits, [chunk |-> k, pc |-> "loop", seg |-> 0, hdr |-> <<>>])
           \/ /\ Len(uncommitted[k]) # 1
              /\ UNCHANGED <<committing, commits>>
        /\ mux' = [mux EXCEPT ![k] = FALSE]
        /\ Goto(c, "page")
        /\ UNCHANGED <<uncommitted, chunkErr, unready, writerMux, preWrites, data, ghost,
                       process>>

NewPage(c) ==
    /\ calls[c].pc = "page"
    /\ pages' = Append(pages, [seg |-> calls[c].seg, idx |-> PageOf(calls[c].crt),
                               committed |-> FALSE, visitor |-> 0, locked |-> FALSE,
                               data |-> [i \in Pos |-> 0], stored |-> [i \in Pos |-> 0],
                               err |-> FALSE])
    /\ segs' = [segs EXCEPT ![calls[c].seg].pages = Append(@, Len(pages) + 1)]
    /\ calls' = [calls EXCEPT ![c].pc = "add", ![c].page = Len(pages) + 1]
    /\ UNCHANGED <<mux, chunkErr, writerMux, preWrites, flushing, commits, slices, ghost,
                   process>>

AddUpload(c) ==
    /\ calls[c].pc = "add"
    /\ segs' = [segs EXCEPT ![calls[c].seg].uploads = @ + 1]
    /\ Goto(c, "lock")
    /\ UNCHANGED <<pages, mux, chunkErr, writerMux, preWrites, flushing, commits, slices,
                   ghost, process>>

PageEnd(o) == (PageOf(o) + 1) * PageLen

(* page.mux.Lock(); go w.preWrite(...), which will unlock it.              *)
LockPage(c) ==
    LET r  == calls[c]
        hi == IF PageEnd(r.crt) < r.end THEN PageEnd(r.crt) ELSE r.end
    IN  /\ r.pc = "lock"
        /\ ~pages[r.page].locked
        /\ pages' = [pages EXCEPT ![r.page].locked = TRUE]
        /\ preWrites' = preWrites \cup {[client |-> c, page |-> r.page, lo |-> r.crt, hi |-> hi,
                                         val |-> r.val, pc |-> "write"]}
        /\ calls' = [calls EXCEPT ![c].pc = IF hi = r.end THEN "written" ELSE "put", ![c].crt = hi]
        /\ UNCHANGED <<segs, mux, chunkErr, writerMux, flushing, commits, slices, ghost,
                       process>>

(* writeSegData takes an error of the chunk over: WriteAt then reports     *)
(* fewer bytes than it was given, and no error.                            *)
TakeChunkErr(c) ==
    LET k == ChunkOf(calls[c].from)
    IN  /\ calls[c].pc = "written"
        /\ chunkErr' = [chunkErr EXCEPT ![k] = FALSE]
        /\ calls' = [calls EXCEPT ![c].pc = "wait", ![c].ok = ~chunkErr[k]]
        /\ UNCHANGED <<mux, writerMux, preWrites, commits, data, slices, ghost, process>>

(* wg.Wait(): the data of every page has reached the page's node.          *)
WriteReturn(c) ==
    LET r == calls[c]
    IN  /\ r.pc = "wait"
        /\ \A w \in preWrites : w.client = c => w.pc # "write"
        /\ Return(c, r.ok)
        /\ acked' = [o \in Byte |-> IF r.ok /\ r.from <= o /\ o < r.end THEN r.val ELSE acked[o]]
        /\ UNCHANGED <<mux, chunkErr, writerMux, preWrites, commits, store, budget, data,
                       slices, process>>

-----------------------------------------------------------------------------
(* preWrite                                                                *)

(* Mutant: the page stays locked.                                          *)
FilledLocked(p, w) ==
    [pages[p] EXCEPT !.data = [i \in Pos |->
        LET o == pages[p].idx * PageLen + i IN IF w.lo <= o /\ o < w.hi THEN w.val ELSE @[i]]]

Filled(p, w) ==
    [pages[p] EXCEPT !.data = [i \in Pos |->
        LET o == pages[p].idx * PageLen + i IN IF w.lo <= o /\ o < w.hi THEN w.val ELSE @[i]],
                     !.locked = FALSE]

(* The data is written and the page unlocked; a write up to the end of the *)
(* page commits it.                                                        *)
PreWrite(w) ==
    LET p      == w.page
        commit == w.hi = (pages[p].idx + 1) * PageLen /\ ~pages[p].committed
    IN  /\ w.pc = "write"
        /\ pages' = [pages EXCEPT ![p] = [Filled(p, w) EXCEPT !.committed = @ \/ commit]]
        /\ segs' = [segs EXCEPT ![pages[p].seg].uploads = @ + (IF commit THEN 1 ELSE 0)]
        /\ Dispatch(IF commit THEN {p} ELSE {})
        /\ preWrites' = (preWrites \ {w}) \cup {[w EXCEPT !.pc = "leave"]}
        /\ UNCHANGED <<mux, chunkErr, writerMux, calls, commits, slices, ghost, process>>

(* atomic.AddInt32(&page.visitor, -1), also for the write that made the    *)
(* page, so that a page at rest has -1 visitors.                           *)
Leave(w) ==
    /\ w.pc = "leave"
    /\ pages' = [pages EXCEPT ![w.page].visitor = @ - 1]
    /\ preWrites' = (preWrites \ {w}) \cup {[w EXCEPT !.pc = "grow"]}
    /\ UNCHANGED <<segs, mux, chunkErr, writerMux, calls, flushing, commits, slices, ghost,
                   process>>

(* The segment grows; at the end of the chunk it is committed.             *)
Grow(w) ==
    LET s     == pages[w.page].seg
        last  == w.hi = (segs[s].chunk + 1) * ChunkLen
        S     == IF last THEN {s} ELSE {}
        grown == IF w.hi > segs[s].off + segs[s].size THEN w.hi - segs[s].off ELSE segs[s].size
    IN  /\ w.pc = "grow"
        /\ Lockable(S)
        /\ segs' = [SegsAfter(S) EXCEPT ![s].size = grown, ![s].uploads = @ - 1]
        /\ pages' = PagesAfter(S)
        /\ DispatchAll(S)
        /\ IF last THEN Broadcast(segs[s].chunk) ELSE UNCHANGED commits
        /\ preWrites' = preWrites \ {w}
        /\ UNCHANGED <<mux, chunkErr, writerMux, calls, slices, ghost, process>>

-----------------------------------------------------------------------------
(* flushData                                                               *)

(* The task ends: with an error, the page and the chunk have it.           *)
Uploaded(f, err, stored) ==
    LET p == f.page
        s == pages[p].seg
    IN  /\ pages' = [pages EXCEPT ![p].err = err, ![p].stored = stored]
        /\ segs' = [segs EXCEPT ![s].uploads = @ - 1]
        /\ chunkErr' = [chunkErr EXCEPT ![segs[s].chunk] = @ \/ err]
        /\ flushing' = flushing \ {f}

NoVisitor(p) == pages[p].visitor # 0

(* It waits while the page has 0 visitors.                                 *)
FlushWait(f) ==
    /\ f.pc = "wait"
    /\ \/ /\ NoVisitor(f.page)
          /\ flushing' = (flushing \ {f}) \cup {[f EXCEPT !.pc = "upload"]}
          /\ UNCHANGED <<pages, segs, chunkErr>>
       \/ /\ ~NoVisitor(f.page) /\ cancelled
          /\ Uploaded(f, TRUE, pages[f.page].stored)
    /\ UNCHANGED <<mux, writerMux, calls, preWrites, commits, slices, ghost, process>>

(* prepareID and CommitTemporaryNode.                                      *)
FlushUpload(f) ==
    /\ f.pc = "upload"
    /\ \/ /\ Uploaded(f, FALSE, pages[f.page].data)
          /\ UNCHANGED budget
       \/ /\ budget.faults < MaxFaults
          /\ Count("faults")
          /\ Uploaded(f, TRUE, pages[f.page].stored)
       \/ /\ cancelled
          /\ Uploaded(f, TRUE, pages[f.page].stored)
          /\ UNCHANGED budget
    /\ UNCHANGED <<mux, writerMux, calls, preWrites, commits, store, acked, slices, process>>

-----------------------------------------------------------------------------
(* commitSegment                                                           *)

At(i, pc) == i \in DOMAIN commits /\ commits[i].pc = pc

Step(i, pc) == commits' = [commits EXCEPT ![i].pc = pc]

(* An index out of range: nothing recovers it, and the process dies.       *)
Panic ==
    /\ crashed' = TRUE
    /\ calls' = [c \in Client |-> [NoCall EXCEPT !.pc = "dead"]]
    /\ preWrites' = {} /\ flushing' = {} /\ commits' = <<>>

(* The loop ends when nothing is uncommitted or the context is done, which *)
(* abandons what is left.                                                  *)
CommitLoop(i) ==
    /\ At(i, "loop")
    /\ \/ /\ uncommitted[commits[i].chunk] # <<>> /\ ~cancelled
          /\ Step(i, "first")
          /\ UNCHANGED committing
       \/ /\ uncommitted[commits[i].chunk] = <<>> \/ cancelled
          /\ commits' = RemoveAt(commits, i)
          /\ committing' = committing - 1
    /\ UNCHANGED <<uncommitted, mux, chunkErr, unready, writerMux, calls, preWrites, data,
                   ghost, process>>

(* w.mux.Lock(); seg := w.uncommitted[0]                                   *)
CommitFirst(i) ==
    LET k == commits[i].chunk
    IN  /\ At(i, "first")
        /\ ~mux[k]
        /\ \/ /\ uncommitted[k] # <<>>
              /\ commits' = [commits EXCEPT ![i].pc = "ready?", ![i].seg = uncommitted[k][1]]
              /\ mux' = [mux EXCEPT ![k] = TRUE]
              /\ UNCHANGED <<calls, preWrites, flushing, crashed>>
           \/ /\ uncommitted[k] = <<>>
              /\ Panic
              /\ UNCHANGED mux
        /\ UNCHANGED <<segs, pages, chunkErr, writerMux, cancelled, slices, ghost>>

(* for !seg.readyToCommit                                                  *)
CommitReady(i) ==
    LET k == commits[i].chunk
    IN  /\ At(i, "ready?")
        /\ \/ /\ segs[commits[i].seg].ready
              /\ mux' = [mux EXCEPT ![k] = FALSE]
              /\ Step(i, "uploads")
           \/ /\ ~segs[commits[i].seg].ready
              /\ Step(i, "sleep")
              /\ UNCHANGED mux
        /\ UNCHANGED <<chunkErr, writerMux, calls, preWrites, data, slices, ghost, process>>

(* cond.Wait() joins the waiters and unlocks ...                           *)
CommitSleep(i) ==
    /\ At(i, "sleep")
    /\ mux' = [mux EXCEPT ![commits[i].chunk] = FALSE]
    /\ Step(i, "waiting")
    /\ UNCHANGED <<chunkErr, writerMux, calls, preWrites, data, slices, ghost, process>>

(* ... and locks again when woken.                                         *)
CommitWake(i) ==
    /\ At(i, "woken")
    /\ ~mux[commits[i].chunk]
    /\ mux' = [mux EXCEPT ![commits[i].chunk] = TRUE]
    /\ Step(i, "try")
    /\ UNCHANGED <<chunkErr, writerMux, calls, preWrites, data, slices, ghost, process>>

(* modifyAt is never set: the segment counts as timed out.  This tryCommit *)
(* has a context that is never done.                                       *)
CommitTry(i) ==
    LET S == {commits[i].seg}
    IN  /\ At(i, "try")
        /\ Lockable(S)
        /\ segs' = SegsAfter(S) /\ pages' = PagesAfter(S)
        /\ flushing' = flushing \cup
                {[page |-> p, pc |-> "wait"] : p \in OpenPages(commits[i].seg)}
        /\ Step(i, "ready?")
        /\ UNCHANGED <<mux, chunkErr, writerMux, calls, preWrites, slices, ghost, process>>

(* Mutant: the goroutine does not wait for the uploads.                    *)
CommitAtOnce(i) ==
    LET s == segs[commits[i].seg]
    IN  /\ At(i, "uploads")
        /\ Step(i, IF \E p \in ToSet(s.pages) : pages[p].err THEN "discard" ELSE "append")
        /\ UNCHANGED <<mux, chunkErr, writerMux, calls, preWrites, data, slices, ghost, process>>

(* seg.uploads.Wait(); seg.uploaded()                                      *)
CommitUploads(i) ==
    LET s == segs[commits[i].seg]
    IN  /\ At(i, "uploads")
        /\ s.uploads = 0
        /\ Step(i, IF \E p \in ToSet(s.pages) : pages[p].err THEN "discard" ELSE "append")
        /\ UNCHANGED <<mux, chunkErr, writerMux, calls, preWrites, data, slices, ghost,
                       process>>

(* AppendSegments.  It fails when the segment is there already, and then   *)
(* as after any other failure the loop tries again.                        *)
CommitAppend(i) ==
    LET s    == commits[i].seg
        fail == /\ chunkErr' = [chunkErr EXCEPT ![commits[i].chunk] = TRUE]
                /\ Step(i, "loop")
                /\ UNCHANGED store
        dup  == \E j \in DOMAIN store : store[j].seg = s
    IN  /\ At(i, "append")
        /\ \/ /\ ~dup
              /\ store' = Append(store, [seg |-> s, off |-> segs[s].off, len |-> segs[s].size])
              /\ Step(i, "pop")
              /\ UNCHANGED <<chunkErr, budget>>
           \/ /\ dup /\ fail
              /\ UNCHANGED budget
           \/ /\ ~dup /\ budget.faults < MaxFaults
              /\ fail
              /\ Count("faults")
        /\ UNCHANGED <<mux, writerMux, calls, preWrites, acked, data, slices, process>>

(* w.uncommitted = w.uncommitted[1:], after a commit or to discard: the    *)
(* slice is read ...                                                       *)
CommitPop(i) ==
    LET k == commits[i].chunk
    IN  /\ At(i, "pop") \/ At(i, "discard")
        /\ \/ /\ uncommitted[k] # <<>>
              /\ commits' = [commits EXCEPT ![i].pc = IF @ = "pop" THEN "popped" ELSE "discarded",
                                            ![i].hdr = uncommitted[k]]
              /\ UNCHANGED <<calls, preWrites, flushing, crashed>>
           \/ /\ uncommitted[k] = <<>>
              /\ Panic
        /\ UNCHANGED <<segs, pages, mux, chunkErr, writerMux, cancelled, slices, ghost>>

(* ... and written.                                                        *)
CommitPopped(i) ==
    LET k == commits[i].chunk
    IN  /\ At(i, "popped") \/ At(i, "discarded")
        /\ uncommitted' = [uncommitted EXCEPT ![k] = Tail(commits[i].hdr)]
        /\ unready' = unready - 1
        /\ chunkErr' = [chunkErr EXCEPT ![k] = @ \/ At(i, "discarded")]
        /\ commits' = [commits EXCEPT ![i] = [@ EXCEPT !.pc = "loop", !.seg = 0, !.hdr = <<>>]]
        /\ UNCHANGED <<mux, committing, writerMux, calls, preWrites, data, ghost, process>>

-----------------------------------------------------------------------------
(* Flush and Fsync                                                         *)

Written == {ChunkOf(o) : o \in {segs[s].off : s \in DOMAIN segs}}

(* Flush holds writerMux throughout.                                       *)
Flush(c, op) ==
    /\ calls[c].pc = "idle" /\ budget.flushes < MaxFlushes
    /\ ~writerMux
    /\ writerMux' = TRUE
    /\ Count("flushes")
    /\ calls' = [calls EXCEPT ![c] = [NoCall EXCEPT !.pc = "flush", !.op = op, !.todo = Written]]
    /\ UNCHANGED <<mux, chunkErr, preWrites, commits, store, acked, data, slices, process>>

(* The next segment writer: an error it has ends the flush.                *)
FlushNext(c) ==
    /\ calls[c].pc = "flush"
    /\ \/ \E k \in calls[c].todo :
             /\ chunkErr[k]
             /\ chunkErr' = [chunkErr EXCEPT ![k] = FALSE]
             /\ writerMux' = FALSE
             /\ Return(c, FALSE)
       \/ \E k \in calls[c].todo :
             /\ ~chunkErr[k]
             /\ calls' = [calls EXCEPT ![c].pc = "commit", ![c].crt = k * ChunkLen,
                                       ![c].hdr = uncommitted[k], ![c].todo = @ \ {k}]
             /\ UNCHANGED <<chunkErr, writerMux>>
       \/ /\ calls[c].todo = {}
          /\ writerMux' = FALSE
          /\ IF calls[c].op = "Flush" THEN Return(c, TRUE) ELSE Goto(c, "sync")
          /\ UNCHANGED chunkErr
    /\ UNCHANGED <<mux, preWrites, commits, data, slices, ghost, process>>

(* p.tryCommit(ctx) for its segments one by one, then cond.Broadcast().    *)
FlushCommit(c) ==
    LET hdr == calls[c].hdr
        S   == IF hdr = <<>> THEN {} ELSE {hdr[1]}
    IN  /\ calls[c].pc = "commit"
        /\ Lockable(S)
        /\ segs' = SegsAfter(S) /\ pages' = PagesAfter(S)
        /\ DispatchAll(S)
        /\ \/ /\ hdr # <<>>
              /\ calls' = [calls EXCEPT ![c].hdr = Tail(@)]
              /\ UNCHANGED commits
           \/ /\ hdr = <<>>
              /\ Broadcast(ChunkOf(calls[c].crt))
              /\ Goto(c, "flush")
        /\ UNCHANGED <<mux, chunkErr, writerMux, preWrites, slices, ghost, process>>

(* Fsync polls until everything is committed or its context is done.       *)
FsyncReturn(c) ==
    /\ calls[c].pc = "sync"
    /\ \/ unready = 0 /\ Return(c, TRUE)
       \/ cancelled /\ Return(c, FALSE)
    /\ UNCHANGED <<mux, chunkErr, writerMux, preWrites, commits, data, slices, ghost, process>>

Cancel ==
    /\ Cancels /\ ~cancelled
    /\ cancelled' = TRUE
    /\ UNCHANGED <<mux, chunkErr, writerMux, calls, preWrites, commits, crashed, data, slices,
                   ghost>>

-----------------------------------------------------------------------------

CallStep(c) ==
    \/ Put(c) \/ FindUncommittedPage(c) \/ Visit(c) \/ NewSegment(c) \/ AppendUncommitted(c)
    \/ Spawn(c) \/ NewPage(c) \/ AddUpload(c) \/ LockPage(c) \/ TakeChunkErr(c) \/ WriteReturn(c)
    \/ FlushNext(c) \/ FlushCommit(c) \/ FsyncReturn(c)

PreWriteStep == \E w \in preWrites : PreWrite(w) \/ Leave(w) \/ Grow(w)

FlushDataStep == \E f \in flushing : FlushWait(f) \/ FlushUpload(f)

CommitStep(i) ==
    \/ CommitLoop(i) \/ CommitFirst(i) \/ CommitReady(i) \/ CommitSleep(i) \/ CommitWake(i)
    \/ CommitTry(i) \/ CommitUploads(i) \/ CommitAppend(i) \/ CommitPop(i) \/ CommitPopped(i)

Next ==
    \/ \E c \in Client, r \in Ranges : WriteAt(c, r[1], r[2])
    \/ \E c \in Client, op \in {"Flush", "Fsync"} : Flush(c, op)
    \/ \E c \in Client : CallStep(c)
    \/ PreWriteStep
    \/ FlushDataStep
    \/ \E i \in DOMAIN commits : CommitStep(i)
    \/ Cancel

(* Every goroutine that can go on eventually does, and a sync.Mutex does   *)
(* not starve a goroutine that waits for it.                               *)
Fairness ==
    /\ \A c \in Client : WF_vars(CallStep(c)) /\ SF_vars(Put(c))
    /\ WF_vars(PreWriteStep)
    /\ WF_vars(FlushDataStep)
    /\ WF_vars(\E i \in DOMAIN commits : CommitStep(i))

Spec == Init /\ [][Next]_vars

FairSpec == Spec /\ Fairness

-----------------------------------------------------------------------------

Stored(s) == \E i \in DOMAIN store : store[i].seg = s

\* What the metastore lists is in the object storage: every page of an
\* appended segment was uploaded, with all that was ever written to it.
\* commitSegment relies on uploads.Wait for that, while put, preWrite and
\* tryCommit add to the same wait group without a common lock.
AppendedIsUploaded ==
    \A p \in DOMAIN pages : Stored(pages[p].seg) => pages[p].stored = pages[p].data

\* The segments of a chunk are appended in the order in which put made them,
\* so that the reader takes the newer of two for the newer: pages are uploaded
\* in any order and two commit goroutines can be at work on one chunk.
AppendedInOrder ==
    \A i, j \in DOMAIN store :
        i < j /\ segs[store[i].seg].chunk = segs[store[j].seg].chunk
        => store[i].seg < store[j].seg

Synced(c) == calls[c].pc = "idle" /\ calls[c].op = "Fsync" /\ calls[c].ok

\* When the Fsync of a writer returns nil, every write it was acknowledged
\* before is in a segment that the metastore lists and the object storage
\* holds: unready reaches zero after the last append.  An upload that fails
\* while Fsync waits also brings unready to zero, so faults are left out.
SyncedIsStored ==
    budget.faults = 0 /\ ~cancelled => \A c \in Writers : Synced(c) =>
        \A o \in Byte : acked[o] # 0 =>
            \E p \in DOMAIN pages :
                /\ Stored(pages[p].seg) /\ pages[p].idx = PageOf(o)
                /\ pages[p].stored[o % PageLen] = acked[o]

\* A WriteAt returns, unless the process dies: no goroutine keeps put from the
\* locks it needs.
WriteAtReturns ==
    \A c \in Client : calls[c].op = "WriteAt" ~> (calls[c].pc = "idle" \/ crashed)
=============================================================================
