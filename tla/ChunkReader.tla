---------------------------- MODULE ChunkReader ----------------------------
(***************************************************************************)
(* The reader that all handles of one open file share (pkg/bio/chunk.go),  *)
(* the page cache behind it (pkg/bio/pagecache.go) and the compaction that *)
(* rewrites the segments of a chunk into one (CompactChunksData).          *)
(*                                                                         *)
(* A read asks a segment tree per chunk which segments hold its pages and  *)
(* runs a goroutine per page; the page is found in or added to the cache,  *)
(* and filled from the segments the goroutine was given.  The commit of a  *)
(* segment forgets the tree and the pages of its chunk.                    *)
(*                                                                         *)
(* What the tree finds is the newest segment of each byte: how it is built *)
(* is the subject of SegmentTree.  The writer is taken by what it does to  *)
(* the store and to this reader: its inside is ChunkWriter.                *)
(***************************************************************************)
EXTENDS Integers, Sequences, SequencesExt, FiniteSets

CONSTANTS
    Reader,      \* goroutines that read the file
    Size,        \* bytes of the file
    PageLen,     \* bytes per page
    ChunkPages,  \* pages per chunk
    InitRanges,  \* the ranges <<lo, hi>> of the segments there are at first
    WriteRanges, \* the ranges that are written while the file is read
    QueueCap,    \* capacity of pageCacheReleaseQ
    Setting      \* the settings a behaviour may have, with the fields
                 \*   pages     maxPageCacheTotal
                 \*   pool      size of pageCacheLFU
                 \*   readers   how many of Reader read
                 \*   writes    segments written while the file is read
                 \*   compacts  runs of CompactChunksData
                 \*   faults    failures of metastore and storage, and restarts

ASSUME ReaderAssumption ==
    /\ {Size, PageLen, ChunkPages, QueueCap} \subseteq Nat \ {0}
    /\ Setting \subseteq [pages : Nat \ {0}, pool : Nat \ {0}, readers : Nat, writes : Nat,
                         compacts : Nat, faults : Nat]
    /\ \A r \in ToSet(InitRanges) \cup WriteRanges : 0 <= r[1] /\ r[1] < r[2] /\ r[2] <= Size

VARIABLES
    segList,     \* the segments in the metastore, by append_at
    gone,        \* segments whose objects the storage has deleted
    st,          \* segReader.st of each chunk: the segments it was built from
    needCompact, \* chunkReader.needCompact
    tree,        \* the pages in the page tree
    pages,       \* page -> its references and its data
    total,       \* crtPageCacheTotal
    lfu,         \* the pages in pageCacheLFU
    queue,       \* pageCacheReleaseQ
    victim,      \* the page that is evicted while the pool is locked
    releaser,    \* the goroutine that empties the queue
    tasks,       \* the goroutines that read a page
    call,        \* reader -> its ReadAt
    compact,     \* the run of CompactChunksData
    pending,     \* chunks with a segment appended and not yet invalidated
    writing,     \* the range a writer has buffered, <<>> if none
    budget,      \* the setting of this behaviour, less what is used up
    content,     \* byte -> the value last written to it
    older,       \* byte -> values replaced in chunks not yet invalidated
    hurt,        \* compaction met a fault or a write: see CompactSync
    crashed      \* a nil page was dereferenced

cache   == <<tree, pages, total, lfu, queue, victim, releaser>>
storage == <<segList, gone, pending, content, older>>
vars    == <<storage, st, needCompact, cache, tasks, call, compact, writing, budget, hurt,
             crashed>>

Byte  == 0 .. Size - 1
Page  == 0 .. (Size - 1) \div PageLen
Chunk == 0 .. (Size - 1) \div (PageLen * ChunkPages)

PageOf(b)  == b \div PageLen
ChunkOf(b) == b \div (PageLen * ChunkPages)
ChunkAt(g) == g \div ChunkPages

Nil       == -1
Compactor == "compactor"
Caller    == Reader \cup {Compactor}
NoSt      == <<Nil>>
NoNode    == <<>>

NoCall == [pc |-> "idle", todo |-> {}, pages |-> {}, err |-> FALSE, cloudy |-> FALSE,
           buf |-> [b \in Byte |-> Nil], may |-> [b \in Byte |-> {}]]

NoCompact == [pc |-> "idle", chunk |-> 0, doomed |-> <<>>]

Segment(id, lo, hi, data) ==
    [id |-> id, chunk |-> ChunkOf(lo), lo |-> lo, hi |-> hi, data |-> data]

Written(id, r) == Segment(id, r[1], r[2], [b \in r[1] .. r[2] - 1 |-> id])

-----------------------------------------------------------------------------
(* The segments of a chunk and what a page of them shows                   *)

(* ListSegments                                                            *)
SegmentsOf(k) == SelectSeq(segList, LAMBDA s : s.chunk = k)

Covering(L, b) == {i \in DOMAIN L : L[i].lo <= b /\ b < L[i].hi}

(* The piece of st.query that holds byte b: its index in L, 0 for a hole.  *)
Newest(L, b) ==
    LET S == Covering(L, b)
    IN  IF S = {} THEN 0 ELSE CHOOSE i \in S : \A j \in S : j <= i

ValueIn(L, b) == IF Newest(L, b) = 0 THEN 0 ELSE L[Newest(L, b)].data[b]

BytesOf(g) == {b \in Byte : PageOf(b) = g}

(* The segments that page g is read from.                                  *)
Opened(L, g) == {L[Newest(L, b)].id : b \in {c \in BytesOf(g) : Newest(L, c) # 0}}

(* mergePage; a page of a single segment is that segment's own node.       *)
mergePage(L, g) == [b \in BytesOf(g) |-> ValueIn(L, b)]

Visible(b) == ValueIn(SegmentsOf(ChunkOf(b)), b)

-----------------------------------------------------------------------------

Init ==
    /\ segList = [i \in DOMAIN InitRanges |-> Written(i, InitRanges[i])]
    /\ gone = {} /\ pending = {}
    /\ st = [k \in Chunk |-> NoSt] /\ needCompact = FALSE
    /\ tree = {} /\ lfu = {} /\ queue = <<>> /\ total = 0
    /\ pages = [g \in Page |-> [ref |-> 0, node |-> NoNode, stale |-> FALSE, slipped |-> FALSE]]
    /\ victim = Nil /\ releaser = [pc |-> "idle", page |-> Nil]
    /\ tasks = {} /\ call = [p \in Caller |-> NoCall] /\ compact = NoCompact
    /\ writing = <<>>
    /\ budget \in Setting
    /\ content = [b \in Byte |-> Visible(b)]
    /\ older = [b \in Byte |-> {}]
    /\ hurt = FALSE /\ crashed = FALSE

Use(b) == budget[b] > 0 /\ budget' = [budget EXCEPT ![b] = @ - 1]

Fault == Use("faults")

NextID == 1 + Len(InitRanges) + budget.writes

-----------------------------------------------------------------------------
(* ReadAt                                                                  *)

Begin(p, G) ==
    call' = [call EXCEPT ![p] =
        [NoCall EXCEPT !.pc = "wait", !.todo = {ChunkAt(g) : g \in G}, !.pages = G,
                       !.may = [b \in Byte |-> {Visible(b)} \cup older[b]]]]

ReadAt(p, G) ==
    /\ call[p].pc = "idle"
    /\ Begin(p, G)
    /\ Use("readers")
    /\ UNCHANGED <<storage, st, needCompact, cache, tasks, compact, writing, hurt, crashed>>

Task(p, g, L, dest) == [p |-> p, page |-> g, pc |-> "find", segs |-> L, dest |-> dest]

(* Pages behind the ones asked for are read ahead, unless the read starts  *)
(* the file.                                                               *)
PreRead(p, k) ==
    IF 0 \in call[p].pages THEN {}
    ELSE {g \in Page : ChunkAt(g) = k /\ g \notin call[p].pages}

(* readChunkRange: under segReader.mux the tree is there or is built; each *)
(* page then has a goroutine of its own with the segments it will need.    *)
readChunkRange(p, k) ==
    LET list == IF st[k] = NoSt THEN SegmentsOf(k) ELSE st[k]
        G    == {g \in call[p].pages : ChunkAt(g) = k}
    IN  /\ k \in call[p].todo
        /\ \/ /\ st' = [st EXCEPT ![k] = list]
              /\ needCompact' = (needCompact \/ (st[k] = NoSt /\ Len(list) > 1))
              /\ \E A \in SUBSET PreRead(p, k) :
                     tasks' = tasks \cup {Task(p, g, list, TRUE) : g \in G}
                                    \cup {Task(p, g, list, FALSE) : g \in A}
              /\ call' = [call EXCEPT ![p].todo = @ \ {k}]
              /\ UNCHANGED budget
           \/ /\ st[k] = NoSt
              /\ Fault
              /\ call' = [call EXCEPT ![p].todo = @ \ {k}, ![p].err = TRUE]
              /\ UNCHANGED <<st, needCompact, tasks>>
        /\ UNCHANGED <<storage, cache, compact, writing, hurt, crashed>>

(* wg.Wait().  When a page could not be read, `return n, err` returns the  *)
(* named result err, which is nil: the caller never learns of it.          *)
ReadReturn(p) ==
    /\ call[p].pc = "wait" /\ call[p].todo = {}
    /\ \A t \in tasks : t.p = p => ~t.dest
    /\ call' = [call EXCEPT ![p].pc = "done"]
    /\ UNCHANGED <<storage, st, needCompact, cache, tasks, compact, writing, budget, hurt, crashed>>

(* Mutant: only the tree is forgotten, the pages stay.                     *)
ForgottenTree(k) == pages

(* invalidate, page by page under the lock of each.                        *)
Forgotten(k) ==
    [g \in Page |-> IF ChunkAt(g) = k /\ g \in tree
                    THEN [pages[g] EXCEPT !.node = NoNode, !.stale = FALSE] ELSE pages[g]]

invalidate(k) ==
    /\ k \in pending
    /\ pending' = pending \ {k}
    /\ st' = [st EXCEPT ![k] = NoSt]
    /\ pages' = Forgotten(k)
    /\ older' = [b \in Byte |-> IF ChunkOf(b) = k THEN {} ELSE older[b]]
    /\ UNCHANGED <<segList, gone, content, needCompact, tree, total, lfu, queue, victim,
                   releaser, tasks, call, compact, writing, budget, hurt, crashed>>

-----------------------------------------------------------------------------
(* pageCache                                                               *)

Move(t, pc) == tasks' = (tasks \ {t}) \cup {[t EXCEPT !.pc = pc]}

(* A reader in newPage waits with pageCache.mux locked, and so does one    *)
(* that evicts.                                                            *)
Entered == \E t \in tasks : t.pc \in {"full", "sleep", "evict"}

(* releasePage ends with a Signal: the reader that sleeps looks again.     *)
Woken(T) == {[t EXCEPT !.pc = IF t.pc = "sleep" THEN "full" ELSE t.pc] : t \in T}

(* LFUPool.Put while the pool is free: a full pool evicts some other page. *)
(* One without references is released while the pool stays locked; one     *)
(* with references goes to the queue, which may be full.                   *)
PutFits(g) ==
    /\ g \in lfu \/ Cardinality(lfu) < budget.pool
    /\ lfu' = lfu \cup {g}
    /\ UNCHANGED <<queue, victim>>

PutEvicts(g, e) ==
    /\ g \notin lfu /\ Cardinality(lfu) >= budget.pool
    /\ e \in lfu /\ pages[e].ref = 0
    /\ lfu' = (lfu \ {e}) \cup {g}
    /\ victim' = e
    /\ UNCHANGED queue

PutDefers(g, e) ==
    /\ g \notin lfu /\ Cardinality(lfu) >= budget.pool
    /\ e \in lfu /\ pages[e].ref > 0
    /\ Len(queue) < QueueCap
    /\ lfu' = (lfu \ {e}) \cup {g}
    /\ queue' = Append(queue, e)
    /\ UNCHANGED victim

(* The rest of pageCache.read under its mutex, once the page is there.     *)
PutPage(t, T) ==
    /\ victim = Nil
    /\ \/ PutFits(t.page) /\ tasks' = T \cup {[t EXCEPT !.pc = "ref"]}
       \/ \E e \in lfu : PutDefers(t.page, e) /\ tasks' = T \cup {[t EXCEPT !.pc = "ref"]}
       \/ \E e \in lfu : PutEvicts(t.page, e) /\ tasks' = T \cup {[t EXCEPT !.pc = "evict"]}
    /\ pages' = [pages EXCEPT ![t.page].slipped = FALSE]

(* findPage, or insertPage while the limit allows a new page.              *)
FindPage(t) ==
    /\ t.pc = "find" /\ ~Entered
    /\ t.page \in tree
    /\ PutPage(t, tasks \ {t})
    /\ UNCHANGED <<storage, st, needCompact, tree, total, releaser, call, compact, writing,
                   budget, hurt, crashed>>

insertPage(t) ==
    /\ t.pc = "full" \/ (t.pc = "find" /\ ~Entered)
    /\ t.page \notin tree
    /\ total < budget.pages
    /\ tree' = tree \cup {t.page} /\ total' = total + 1
    /\ PutPage(t, tasks \ {t})
    /\ UNCHANGED <<storage, st, needCompact, releaser, call, compact, writing, budget, hurt, crashed>>

(* newPage at the limit: the count is read, and then the reader sleeps.    *)
newPageFull(t) ==
    /\ t.page \notin tree /\ total >= budget.pages
    /\ \/ t.pc = "find" /\ ~Entered /\ Move(t, "full")
       \/ t.pc = "full" /\ Move(t, "sleep")
    /\ UNCHANGED <<storage, st, needCompact, cache, call, compact, writing, budget, hurt, crashed>>

(* releasePage: the page may be filled again, but only a Put counts it.    *)
Released(e) ==
    /\ total' = total - 1
    /\ pages' = [pages EXCEPT ![e].node = NoNode, ![e].stale = FALSE,
                              ![e].slipped = e \notin lfu]

(* The reader that evicted goes on.                                        *)
EvictPage(t) ==
    /\ t.pc = "evict"
    /\ Released(victim)
    /\ victim' = Nil
    /\ tasks' = Woken(tasks \ {t}) \cup {[t EXCEPT !.pc = "ref"]}
    /\ UNCHANGED <<storage, st, needCompact, tree, lfu, queue, releaser, call, compact, writing,
                   budget, hurt, crashed>>

(* atomic.AddInt32(&page.ref, 1)                                           *)
Held(g) == [pages EXCEPT ![g].ref = @ + 1]

(* The page is referenced; under page.mux an invalid one is filled from    *)
(* the segments the task was given.  An object that is gone may still be   *)
(* in the local cache.  After a failure the reference is never given back. *)
initPage(t) ==
    LET g == t.page
        k == ChunkAt(g)
    IN  /\ t.pc = "ref"
        /\ \/ /\ pages[g].node # NoNode
              /\ pages' = Held(g)
              /\ Move(t, "read")
              /\ UNCHANGED <<call, budget>>
           \/ /\ pages[g].node = NoNode
              /\ pages' = [Held(g) EXCEPT ![g].node = mergePage(t.segs, g),
                     ![g].stale = t.segs # SegmentsOf(k) /\ k \notin pending]
              /\ Move(t, "read")
              /\ UNCHANGED <<call, budget>>
           \/ /\ pages[g].node = NoNode
              /\ IF Opened(t.segs, g) \cap gone # {} THEN UNCHANGED budget
                 ELSE Opened(t.segs, g) # {} /\ Fault
              /\ pages' = Held(g)
              /\ call' = [call EXCEPT ![t.p].err = @ \/ t.dest]
              /\ tasks' = tasks \ {t}
        /\ UNCHANGED <<storage, st, needCompact, tree, total, lfu, queue, victim, releaser,
                       compact, writing, hurt, crashed>>

(* page.node.ReadAt under the read lock, and release.  The page may have   *)
(* been invalidated or released since it was unlocked; the nil pointer is  *)
(* not recovered, since utils.Recover does not run as the deferred call.   *)
readPage(t) ==
    LET g == t.page
    IN  /\ t.pc = "read"
        /\ IF t.dest /\ pages[g].node = NoNode
           THEN crashed' = TRUE /\ UNCHANGED <<pages, tasks, call>>
           ELSE /\ pages' = [pages EXCEPT ![g].ref = @ - 1]
                /\ tasks' = tasks \ {t}
                /\ call' = IF ~t.dest THEN call
                           ELSE [call EXCEPT ![t.p].cloudy = @ \/ pages[g].stale,
                                  ![t.p].buf = [b \in Byte |->
                                      IF PageOf(b) = g THEN pages[g].node[b] ELSE @[b]]]
                /\ UNCHANGED crashed
        /\ UNCHANGED <<storage, st, needCompact, tree, total, lfu, queue, victim, releaser,
                       compact, writing, budget, hurt>>

-----------------------------------------------------------------------------
(* The goroutine that releases pages                                       *)

ReleaserIdle == releaser.pc = "idle"

(* Mutant: a page that is referenced is dropped from the queue.            *)
TakenDropped(g) ==
    IF pages[g].ref = 0 THEN [pc |-> "release", page |-> g] ELSE [pc |-> "idle", page |-> Nil]

Taken(g) == [pc |-> IF pages[g].ref = 0 THEN "release" ELSE "put", page |-> g]

(* A page from the queue is released, or put back while it is referenced.  *)
TakeQueued ==
    LET g == Head(queue)
    IN  /\ ReleaserIdle /\ queue # <<>>
        /\ queue' = Tail(queue)
        /\ releaser' = Taken(g)
        /\ UNCHANGED <<storage, st, needCompact, tree, pages, total, lfu, victim, tasks, call,
                       compact, writing, budget, hurt, crashed>>

PutBack ==
    /\ releaser.pc = "put" /\ victim = Nil
    /\ \/ PutFits(releaser.page) /\ releaser' = [pc |-> "idle", page |-> Nil]
       \/ \E e \in lfu : PutDefers(releaser.page, e) /\ releaser' = [pc |-> "idle", page |-> Nil]
       \/ \E e \in lfu : PutEvicts(releaser.page, e) /\ releaser' = [pc |-> "evict", page |-> e]
    /\ pages' = [pages EXCEPT ![releaser.page].slipped = FALSE]
    /\ UNCHANGED <<storage, st, needCompact, tree, total, tasks, call, compact, writing, budget,
                   hurt, crashed>>

(* The ticker, when more than 80% of the pages are in use.                 *)
Tick(g) ==
    /\ ReleaserIdle /\ victim = Nil
    /\ 5 * total > 4 * budget.pages
    /\ g \in lfu /\ pages[g].ref = 0
    /\ lfu' = lfu \ {g} /\ victim' = g
    /\ releaser' = [pc |-> "evict", page |-> g]
    /\ UNCHANGED <<storage, st, needCompact, tree, pages, total, queue, tasks, call, compact,
                   writing, budget, hurt, crashed>>

ReleaseTaken ==
    /\ releaser.pc \in {"release", "evict"}
    /\ Released(releaser.page)
    /\ victim' = IF releaser.pc = "evict" THEN Nil ELSE victim
    /\ releaser' = [pc |-> "idle", page |-> Nil]
    /\ tasks' = Woken(tasks)
    /\ UNCHANGED <<storage, st, needCompact, tree, lfu, queue, call, compact, writing, budget,
                   hurt, crashed>>

-----------------------------------------------------------------------------
(* The writer: WriteAt has buffered a range; its segment is committed some *)
(* time later.  A write that does not extend the file asks for compaction. *)

Write(r) ==
    /\ writing = <<>>
    /\ writing' = r
    /\ needCompact' = (needCompact \/ r[2] < Size)
    /\ Use("writes")
    /\ UNCHANGED <<storage, st, cache, tasks, call, compact, hurt, crashed>>

(* AppendSegments; every read that runs may see the new value from now on. *)
AppendSegment(s) ==
    /\ segList' = Append(segList, s)
    /\ pending' = pending \cup {s.chunk}
    /\ older' = [b \in Byte |-> IF s.lo <= b /\ b < s.hi THEN older[b] \cup {Visible(b)}
                                ELSE older[b]]

InCompaction(k) == compact.chunk = k /\ compact.pc \in {"read", "sync"}

commitSegment ==
    LET s == Written(NextID, writing)
    IN  /\ writing # <<>> /\ s.chunk \notin pending
        /\ AppendSegment(s)
        /\ content' = [b \in Byte |-> IF s.lo <= b /\ b < s.hi THEN s.id ELSE content[b]]
        /\ call' = [p \in Caller |-> [call[p] EXCEPT !.may = [b \in Byte |->
                       IF s.lo <= b /\ b < s.hi THEN @[b] \cup {s.id} ELSE @[b]]]]
        /\ hurt' = (hurt \/ InCompaction(s.chunk))
        /\ writing' = <<>>
        /\ UNCHANGED <<gone, st, needCompact, cache, tasks, compact, budget, crashed>>

-----------------------------------------------------------------------------
(* CompactChunksData                                                       *)

Compacting(pc) == compact.pc = pc

(* The next chunk; after the last, the run ends.                           *)
NextChunk ==
    compact' = IF compact.chunk + 1 \in Chunk
               THEN [NoCompact EXCEPT !.pc = "list", !.chunk = compact.chunk + 1]
               ELSE NoCompact

(* The task that the hook of a closed reader asked for.                    *)
CompactStart ==
    /\ Compacting("idle") /\ needCompact
    /\ needCompact' = FALSE
    /\ compact' = [NoCompact EXCEPT !.pc = "list"]
    /\ Use("compacts")
    /\ UNCHANGED <<storage, st, cache, tasks, call, writing, hurt, crashed>>

ChunkStart(k) == k * PageLen * ChunkPages
ChunkEnd(k)   == IF ChunkStart(k + 1) > Size THEN Size ELSE ChunkStart(k + 1)

(* Mutant: a segment that starts the chunk counts as covering it.          *)
CoversStart(s, k) == s.lo = ChunkStart(k)

Covers(s, k) == s.lo = ChunkStart(k) /\ s.hi = ChunkEnd(k)

(* One segment is left alone; when the last covers the chunk the others    *)
(* are deleted, else the chunk is read and written again.                  *)
CompactList ==
    LET k    == compact.chunk
        list == SegmentsOf(k)
    IN  /\ Compacting("list")
        /\ \/ /\ Len(list) <= 1
              /\ NextChunk
              /\ UNCHANGED <<call, budget>>
           \/ /\ Len(list) > 1
              /\ Covers(Last(list), k)
              /\ compact' = [compact EXCEPT !.pc = "delete", !.doomed = Front(list)]
              /\ UNCHANGED <<call, budget>>
           \/ /\ Len(list) > 1
              /\ ~Covers(Last(list), k)
              /\ compact' = [compact EXCEPT !.pc = "read", !.doomed = list]
              /\ Begin(Compactor, {g \in Page : ChunkAt(g) = k})
              /\ UNCHANGED budget
           \/ Fault /\ NextChunk /\ UNCHANGED call
        /\ hurt' = (hurt \/ k \in pending)
        /\ UNCHANGED <<storage, st, needCompact, cache, tasks, writing, crashed>>

(* ReadAt has returned, without an error even if a page is missing, and    *)
(* WriteAt buffers what it returned, over what others have buffered.       *)
CompactWrite ==
    /\ Compacting("read") /\ call[Compactor].pc = "done"
    /\ compact' = [compact EXCEPT !.pc = "sync"]
    /\ hurt' = \/ hurt \/ call[Compactor].err \/ call[Compactor].cloudy
               \/ writing # <<>> /\ ChunkOf(writing[1]) = compact.chunk
    /\ UNCHANGED <<storage, st, needCompact, cache, tasks, call, writing, budget, crashed>>

Rewritten(k) ==
    Segment(Nil, ChunkStart(k), ChunkEnd(k),
            [b \in ChunkStart(k) .. ChunkEnd(k) - 1 |->
                IF call[Compactor].buf[b] = Nil THEN 0 ELSE call[Compactor].buf[b]])

(* Fsync: the segment is committed; or its upload fails, which Fsync does  *)
(* not see when it happens after its Flush; or Flush reports an error, and *)
(* the run ends there.                                                     *)
CompactSync ==
    LET k == compact.chunk
        s == [Rewritten(k) EXCEPT !.id = NextID + 10 * (1 + k + budget.compacts * Cardinality(Chunk))]
    IN  /\ Compacting("sync") /\ k \notin pending
        /\ call' = [call EXCEPT ![Compactor] = NoCall]
        /\ \/ /\ AppendSegment(s)
              /\ compact' = [compact EXCEPT !.pc = "delete"]
              /\ UNCHANGED <<budget, hurt>>
           \/ /\ Fault
              /\ compact' = [compact EXCEPT !.pc = "delete"]
              /\ hurt' = TRUE
              /\ UNCHANGED <<segList, pending, older>>
           \/ /\ Fault
              /\ compact' = NoCompact
              /\ UNCHANGED <<segList, pending, older, hurt>>
        /\ UNCHANGED <<gone, content, st, needCompact, cache, tasks, writing, crashed>>

(* deleteSegmentAndData: the objects of a segment, then its row.  What     *)
(* fails is left and the next segment deleted.  Fsync has returned, so the *)
(* chunk is invalidated.                                                   *)
DeleteData ==
    /\ Compacting("delete") /\ compact.chunk \notin pending
    /\ compact.doomed # <<>>
    /\ \/ /\ gone' = gone \cup {Head(compact.doomed).id}
          /\ compact' = [compact EXCEPT !.pc = "row"]
          /\ UNCHANGED budget
       \/ /\ Fault
          /\ compact' = [compact EXCEPT !.doomed = Tail(@)]
          /\ UNCHANGED gone
    /\ UNCHANGED <<segList, pending, content, older, st, needCompact, cache, tasks, call,
                   writing, hurt, crashed>>

DeleteRow ==
    LET d == Head(compact.doomed)
    IN  /\ Compacting("row")
        /\ \/ /\ segList' = SelectSeq(segList, LAMBDA s : s.id # d.id)
              /\ UNCHANGED budget
           \/ /\ Fault
              /\ UNCHANGED segList
        /\ compact' = [compact EXCEPT !.pc = "delete", !.doomed = Tail(@)]
        /\ UNCHANGED <<gone, pending, content, older, st, needCompact, cache, tasks, call,
                       writing, hurt, crashed>>

CompactNext ==
    /\ Compacting("delete") /\ compact.doomed = <<>>
    /\ NextChunk
    /\ UNCHANGED <<storage, st, needCompact, cache, tasks, call, writing, budget, hurt, crashed>>

-----------------------------------------------------------------------------

(* The process ends, by itself or by the nil pointer, and starts again.    *)
Restart ==
    /\ Fault
    /\ st' = [k \in Chunk |-> NoSt] /\ needCompact' = FALSE
    /\ tree' = {} /\ lfu' = {} /\ queue' = <<>> /\ total' = 0
    /\ pages' = [g \in Page |-> [ref |-> 0, node |-> NoNode, stale |-> FALSE, slipped |-> FALSE]]
    /\ victim' = Nil /\ releaser' = [pc |-> "idle", page |-> Nil]
    /\ tasks' = {} /\ call' = [p \in Caller |-> NoCall] /\ compact' = NoCompact
    /\ pending' = {} /\ older' = [b \in Byte |-> {}]
    /\ writing' = <<>> /\ crashed' = FALSE
    /\ UNCHANGED <<segList, gone, content, hurt>>

Reading ==
    \/ \E p \in Reader, g \in Page, h \in Page : g <= h /\ ReadAt(p, g .. h)
    \/ \E p \in Caller : ReadReturn(p) \/ \E k \in Chunk : readChunkRange(p, k)
    \/ \E t \in tasks : FindPage(t) \/ insertPage(t) \/ newPageFull(t) \/ EvictPage(t)
                        \/ initPage(t) \/ readPage(t)

Releasing == TakeQueued \/ PutBack \/ ReleaseTaken \/ \E g \in Page : Tick(g)

Writing ==
    \/ \E r \in WriteRanges : Write(r)
    \/ commitSegment
    \/ \E k \in Chunk : invalidate(k)

Compaction ==
    CompactStart \/ CompactList \/ CompactWrite \/ CompactSync \/ DeleteData \/ DeleteRow
    \/ CompactNext

Next == (~crashed /\ (Reading \/ Releasing \/ Writing \/ Compaction)) \/ Restart

Spec == Init /\ [][Next]_vars

-----------------------------------------------------------------------------

\* Compaction changes no byte of the file and deletes no object a byte is
\* read from, wherever it is interrupted: unless a page could not be read,
\* its own upload failed, or a write to the chunk overlapped.
CompactKeepsContent ==
    ~hurt => \A b \in Byte :
        LET L == SegmentsOf(ChunkOf(b))
        IN  /\ ValueIn(L, b) = content[b]
            /\ Newest(L, b) # 0 => L[Newest(L, b)].id \notin gone

\* A read returns for each byte the value at its start or one written since:
\* unless a page failed, or was filled by a task that had listed the segments
\* before the last commit and was late.
ReadIsFresh ==
    ~hurt => \A p \in Caller :
        call[p].pc = "done" /\ ~call[p].err /\ ~call[p].cloudy =>
            \A b \in Byte : PageOf(b) \in call[p].pages => call[p].buf[b] \in call[p].may[b]

\* A page that holds data and is not being read is in the pool or on its way
\* to be released, so that the limit on pages can be kept: unless it was
\* evicted between its Put and its first reference.  No reference is given
\* back twice, pages are added within the limit, and at most one goroutine
\* waits in the lock of newPage for room (newPage, releasePage).
UnheldPageIsTracked ==
    /\ \A g \in Page :
        /\ pages[g].ref >= 0
        /\ pages[g].node # NoNode /\ pages[g].ref = 0 =>
            g \in lfu \cup ToSet(queue) \cup {victim, releaser.page} \/ pages[g].slipped
    /\ total <= budget.pages /\ Cardinality(lfu) <= budget.pool
    /\ Cardinality({t \in tasks : t.pc \in {"full", "sleep", "evict"}}) <= 1
=============================================================================
