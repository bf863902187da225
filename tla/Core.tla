-------------------------------- MODULE Core --------------------------------
(***************************************************************************)
(* The namespace operations of pkg/core/core.go over the tables of         *)
(* MetaStore, with the entry and child caches of pkg/core/cache.go.        *)
(*                                                                         *)
(* A core operation is not one transaction: it walks paths through the     *)
(* caches, reads the tables, commits, invalidates cache slots, and may     *)
(* call RemoveEntry recursively.  A process (a FUSE, WebDAV, REST or       *)
(* dispatcher goroutine) runs one operation at a time; its call stack is   *)
(* a sequence of frames, innermost first, and every cache access and every *)
(* transaction is a step of its own that other processes can interleave    *)
(* with.  The child rows and ids are values; the types.Entry objects are   *)
(* pointers shared by the cache and the callers, so they are the places    *)
(* (Reader) of MetaStore, and UpdateEntry edits the shared object.         *)
(***************************************************************************)
EXTENDS Integers, FiniteSets, Sequences

CONSTANTS
    Id, Name, Root, Reader, NoId, MaxVersion, MaxSize,  \* as in MetaStore
    Proc,      \* goroutines that run operations
    Op,        \* the operations they are asked for
    Symlink,   \* ids that become symlinks when they are created as non-groups
    NoObj,     \* the nil *types.Entry
    Screened,  \* requests have passed the checks of the kernel's VFS layer
    MaxDepth,  \* bound on the length of a path
    MaxOps     \* bound on the number of requests and cache evictions

ASSUME CoreAssumption ==
    /\ Root \in Id /\ NoId \notin Id /\ NoObj \notin Reader
    /\ MaxVersion \in Nat /\ MaxSize \in Nat /\ MaxDepth \in Nat /\ MaxOps \in Nat

VARIABLES
    rows, used, entry, children, unlinked, copy,  \* as in MetaStore
    entryCache,  \* id -> the cached object
    childCache,  \* cached children rows
    stack,       \* process -> its call stack
    served       \* requests accepted and cache slots evicted so far

Store == INSTANCE MetaStore

caches == <<entryCache, childCache>>

vars == <<rows, used, entry, children, unlinked, copy, entryCache, childCache, stack, served>>

Path == UNION {[1..k -> Name] : k \in 0..MaxDepth}

\* path.Dir and path.Base of a path that is not the root
Dir(path) == SubSeq(path, 1, Len(path) - 1)

Base(path) == path[Len(path)]

\* One activation of an operation.  It walks the paths in legs one after the
\* other: at is the entry reached (or the one an id names), up the one before,
\* todo the rest of the path, found the ends of the legs walked so far.  then
\* says where to go once the last lookup is done.
Frame(op, pc, then, legs, at, name, flag) ==
    [op |-> op, pc |-> pc, then |-> then, legs |-> legs, at |-> at, up |-> at,
     todo |-> IF legs = <<>> THEN <<>> ELSE legs[1], found |-> <<>>,
     name |-> name, flag |-> flag, kids |-> {}, obj |-> NoObj]

\* GetEntryByPath starts at the namespace root.
WalkFrame(op, legs, name, flag) == Frame(op, "get", "ready", legs, Root, name, flag)

IdFrame(op, pc, then, e, flag) == Frame(op, pc, then, <<>>, e, Root, flag)

RemoveFrame(path, all) == WalkFrame("remove", <<path, Dir(path)>>, Base(path), all)

Init ==
    /\ Store!Init
    /\ entryCache = [e \in Id |-> NoObj]
    /\ childCache = {}
    /\ stack = [p \in Proc |-> <<>>]
    /\ served = 0

-----------------------------------------------------------------------------
(* Steps of a process. *)

Busy(p) == stack[p] # <<>>

Top(p) == stack[p][1]

At(p, pc) == Busy(p) /\ Top(p).pc = pc

Runs(p, op, pc) == At(p, pc) /\ Top(p).op = op

Continue(p, frame) == stack' = [stack EXCEPT ![p] = <<frame>> \o Tail(@)]

Goto(p, pc) == Continue(p, [Top(p) EXCEPT !.pc = pc])

Return(p) == stack' = [stack EXCEPT ![p] = Tail(@)]

\* An error ends the operation and every operation that called it.
Fail(p) == stack' = [stack EXCEPT ![p] = <<>>]

Call(p, caller, callee) == stack' = [stack EXCEPT ![p] = <<callee, caller>> \o Tail(@)]

\* Objects some cache slot or some frame points to; the others are garbage.
Live(cache, stk) ==
    {cache[e] : e \in Id} \cup UNION {{stk[p][i].obj : i \in DOMAIN stk[p]} : p \in Proc}

\* Reader bounds the objects that are alive at a time.
Free == Reader \ Live(entryCache, stack)

\* A newly allocated object.
Fresh == CHOOSE o \in Free : TRUE

\* A step that leaves the tables alone.
NoTx == Store!Drop(Reader \ Live(entryCache', stack'))

\* cache.invalidEntry and cache.invalidChild
Invalid(ids) == [e \in Id |-> IF e \in ids THEN NoObj ELSE entryCache[e]]

InvalidChild(par, name) == {r \in childCache : ~(r.parent = par /\ r.name = name)}

-----------------------------------------------------------------------------
(* getEntry, GetEntry, FindEntry, GetEntryByPath. *)

\* GetEntry reports an entry without links as missing, getEntry does not.
Accepts(f, row) ==
    (f.then \in {"ready", "listed"} \/ (f.then = "over" /\ row.isGroup)) => row.refCount # 0

\* The walk goes on to the next name or the next path; the last lookup leaves
\* the object with the caller.
Advance(f, o) ==
    LET done == Append(f.found, [up |-> f.up, at |-> f.at])
    IN  CASE f.todo # <<>> -> [f EXCEPT !.pc = "find", !.obj = NoObj]
          [] f.todo = <<>> /\ Len(done) < Len(f.legs) ->
               [f EXCEPT !.pc = "get", !.obj = NoObj, !.found = done,
                         !.todo = f.legs[Len(done) + 1], !.at = Root, !.up = Root]
          [] f.todo = <<>> /\ Len(done) = Len(f.legs) ->
               [f EXCEPT !.pc = f.then, !.obj = NoObj, !.found = done]
          [] OTHER -> [f EXCEPT !.pc = f.then, !.obj = o]

GotEntry(p, o) ==
    IF Accepts(Top(p), copy[o].row) THEN Continue(p, Advance(Top(p), o)) ELSE Fail(p)

GetCached(p) ==
    /\ At(p, "get")
    /\ entryCache[Top(p).at] # NoObj
    /\ GotEntry(p, entryCache[Top(p).at])
    /\ UNCHANGED <<caches, served>>
    /\ NoTx

GetStored(p) ==
    /\ At(p, "get")
    /\ entryCache[Top(p).at] = NoObj
    /\ UNCHANGED <<caches, served>>
    /\ \/ /\ Top(p).at \notin rows
          /\ Fail(p)
          /\ NoTx
       \/ /\ Free # {}
          /\ Store!GetEntry(Fresh, Top(p).at)
          /\ Continue(p, [Top(p) EXCEPT !.pc = "set", !.obj = Fresh])

SetEntry(p) ==
    /\ At(p, "set")
    /\ entryCache' = [entryCache EXCEPT ![Top(p).at] = Top(p).obj]
    /\ GotEntry(p, Top(p).obj)
    /\ UNCHANGED <<childCache, served>>
    /\ NoTx

\* The frame once the child row of the next name is known.
Descend(f, r) == [f EXCEPT !.pc = "get", !.up = f.at, !.at = r.child, !.todo = Tail(@), !.kids = {}]

NextNameIn(table, f) == {r \in table : r.parent = f.at /\ r.name = Head(f.todo)}

FindCached(p) ==
    /\ At(p, "find")
    /\ \E r \in NextNameIn(childCache, Top(p)) : Continue(p, Descend(Top(p), r))
    /\ UNCHANGED <<caches, served>>
    /\ NoTx

FindStored(p) ==
    /\ At(p, "find")
    /\ NextNameIn(childCache, Top(p)) = {}
    /\ \/ NextNameIn(children, Top(p)) = {} /\ Fail(p)
       \/ \E r \in NextNameIn(children, Top(p)) :
             Continue(p, [Top(p) EXCEPT !.pc = "setChild", !.kids = {r}])
    /\ UNCHANGED <<caches, served>>
    /\ NoTx

SetChild(p) ==
    /\ At(p, "setChild")
    /\ \E r \in Top(p).kids :
          /\ childCache' = InvalidChild(r.parent, r.name) \cup {r}
          /\ Continue(p, Descend(Top(p), r))
    /\ UNCHANGED <<entryCache, served>>
    /\ NoTx

-----------------------------------------------------------------------------
(* What the operations do once their paths are resolved.  A transaction may  *)
(* always fail: its checks do, or the database or the caller's context does. *)

TxFails(p) ==
    /\ At(p, "tx")
    /\ Fail(p)
    /\ UNCHANGED <<caches, served>>
    /\ NoTx

\* A lookup was all that was asked for.
Stat(p) ==
    /\ Runs(p, "stat", "ready")
    /\ Return(p)
    /\ UNCHANGED <<caches, served>>
    /\ NoTx

LastGet(p) ==
    /\ At(p, "end")
    /\ Return(p)
    /\ UNCHANGED <<caches, served>>
    /\ NoTx

\* CreateEntry looks for the name in the table, then commits, then drops the
\* parent from the cache.
CreateCheck(p) ==
    /\ Runs(p, "create", "ready")
    /\ IF Store!FindEntry(Top(p).found[1].at, Top(p).name) # {} THEN Fail(p) ELSE Goto(p, "tx")
    /\ UNCHANGED <<caches, served>>
    /\ NoTx

CreateTx(p) ==
    /\ Runs(p, "create", "tx")
    /\ \E e \in Id : Store!CreateEntry(Top(p).found[1].at, e, Top(p).name, Top(p).flag)
    /\ Goto(p, "done")
    /\ UNCHANGED <<caches, served>>

\* mutant: the parent keeps its cached reference count
CreateDoneCached(p) ==
    /\ Runs(p, "create", "done")
    /\ Return(p)
    /\ UNCHANGED <<caches, served>>
    /\ NoTx

CreateDone(p) ==
    /\ Runs(p, "create", "done")
    /\ entryCache' = Invalid({Top(p).found[1].at})
    /\ Return(p)
    /\ UNCHANGED <<childCache, served>>
    /\ NoTx

\* RemoveEntry of a group removes what ListChildren returned, by path, before
\* the group itself.
RemoveList(p) ==
    /\ Runs(p, "remove", "ready")
    /\ LET e    == Top(p).found[1].at
           kids == IF entry[e].isGroup THEN {r.name : r \in Store!ChildrenOf(e)} ELSE {}
       IN  IF kids # {} /\ ~Top(p).flag
           THEN Fail(p)
           ELSE Continue(p, [Top(p) EXCEPT !.pc = IF kids = {} THEN "tx" ELSE "kids", !.kids = kids])
    /\ UNCHANGED <<caches, served>>
    /\ NoTx

RemoveKid(p) ==
    /\ Runs(p, "remove", "kids")
    /\ \E n \in Top(p).kids :
          LET rest == Top(p).kids \ {n}
          IN  Call(p, [Top(p) EXCEPT !.kids = rest, !.pc = IF rest = {} THEN "tx" ELSE "kids"],
                      RemoveFrame(Append(Top(p).legs[1], n), TRUE))
    /\ UNCHANGED <<caches, served>>
    /\ NoTx

RemoveTx(p) ==
    /\ Runs(p, "remove", "tx")
    /\ Store!RemoveEntry(Top(p).found[2].at, Top(p).found[1].at, Top(p).name)
    /\ Goto(p, "done")
    /\ UNCHANGED <<caches, served>>

RemoveDone(p) ==
    /\ Runs(p, "remove", "done")
    /\ entryCache' = Invalid({Top(p).found[1].at, Top(p).found[2].at})
    /\ childCache' = InvalidChild(Top(p).found[2].at, Top(p).name)
    /\ Return(p)
    /\ UNCHANGED served
    /\ NoTx

\* MirrorEntry checks the kinds, commits, and ends with a lookup of the file.
MirrorCheck(p) ==
    /\ Runs(p, "mirror", "ready")
    /\ IF Store!Mirrorable(Top(p).found[1].at, Top(p).found[2].at) THEN Goto(p, "tx") ELSE Fail(p)
    /\ UNCHANGED <<caches, served>>
    /\ NoTx

MirrorTx(p) ==
    /\ Runs(p, "mirror", "tx")
    /\ Store!MirrorEntry(Top(p).found[1].at, Top(p).found[2].at, Top(p).name)
    /\ Goto(p, "done")
    /\ UNCHANGED <<caches, served>>

MirrorDone(p) ==
    /\ Runs(p, "mirror", "done")
    /\ entryCache' = Invalid({Top(p).found[1].at, Top(p).found[2].at})
    /\ Continue(p, IdFrame("mirror", "get", "end", Top(p).found[1].at, FALSE))
    /\ UNCHANGED <<childCache, served>>
    /\ NoTx

\* mutant: the prefix is not compared
AnyDestination(f) == FALSE

\* The test of ChangeEntryParent for a destination below the moved group: the
\* new parent's path starts with the target's path and a slash.
IntoDescendant(f) ==
    /\ entry[f.found[1].at].isGroup
    /\ Len(f.legs[1]) < Len(f.legs[2])
    /\ SubSeq(f.legs[2], 1, Len(f.legs[1])) = f.legs[1]

\* ChangeEntryParent: an entry in the way is looked up, ...
MoveCheck(p) ==
    /\ Runs(p, "move", "ready")
    /\ LET taken == Store!FindEntry(Top(p).found[2].at, Top(p).name)
       IN  IF IntoDescendant(Top(p))
           THEN Fail(p)
           ELSE IF taken = {}
           THEN Goto(p, "tx")
           ELSE \E r \in taken :
                  Continue(p, [Top(p) EXCEPT !.pc = "get", !.then = "over", !.at = r.child])
    /\ UNCHANGED <<caches, served>>
    /\ NoTx

\* ... must be a file or an empty group that may be replaced, and is removed
\* by path; ...
MoveOver(p) ==
    /\ Runs(p, "move", "over")
    /\ LET e    == Top(p).at
           kids == IF entry[e].isGroup THEN {r.child : r \in Store!ChildrenOf(e)} ELSE {}
       IN  IF kids # {}
           THEN Continue(p, [IdFrame("list", "listed", "listed", e, FALSE) EXCEPT !.kids = kids])
           ELSE IF ~Top(p).flag
           THEN Fail(p)
           ELSE Call(p, [Top(p) EXCEPT !.pc = "removed", !.obj = NoObj],
                        RemoveFrame(Append(Top(p).legs[2], Top(p).name), FALSE))
    /\ UNCHANGED <<caches, served>>
    /\ NoTx

\* stdGroup.ListChildren looks every child up; what ChangeEntryParent would do
\* next with a group that has some is to refuse.
ListNext(p) ==
    /\ Runs(p, "list", "listed")
    /\ \/ Top(p).kids = {} /\ Return(p)
       \/ \E c \in Top(p).kids :
             Continue(p, [Top(p) EXCEPT !.pc = "get", !.at = c, !.kids = @ \ {c}, !.obj = NoObj])
    /\ UNCHANGED <<caches, served>>
    /\ NoTx

MoveRemoved(p) ==
    /\ Runs(p, "move", "removed")
    /\ entryCache' = Invalid({Top(p).at})
    /\ childCache' = InvalidChild(Top(p).found[2].at, Top(p).name)
    /\ Goto(p, "tx")
    /\ UNCHANGED served
    /\ NoTx

\* ... only then the row is moved.
MoveTx(p) ==
    /\ Runs(p, "move", "tx")
    /\ Store!ChangeEntryParent(Top(p).found[1].at, Top(p).found[1].up, Top(p).found[2].at,
                               Base(Top(p).legs[1]), Top(p).name)
    /\ Goto(p, "done")
    /\ UNCHANGED <<caches, served>>

MoveDone(p) ==
    /\ Runs(p, "move", "done")
    /\ entryCache' = Invalid({Top(p).found[1].at, Top(p).found[1].up, Top(p).found[2].at})
    /\ childCache' = InvalidChild(Top(p).found[1].up, Base(Top(p).legs[1]))
    /\ Return(p)
    /\ UNCHANGED served
    /\ NoTx

\* mutant: the row is written whatever its version
UpdateAnyVersion(p) ==
    /\ Runs(p, "update", "tx")
    /\ \E s \in 0..MaxSize :
          LET o == Top(p).obj
              e == copy[o].id
          IN  /\ e \in rows /\ Store!HasRoom({e})
              /\ entry' = [entry EXCEPT ![e] = Store!Bump(@, copy[o].row.refCount, s)]
              /\ copy' = [copy EXCEPT ![o].row.size = s]
              /\ UNCHANGED <<rows, used, children, unlinked>>
              /\ Goto(p, "done")
    /\ UNCHANGED <<caches, served>>

\* UpdateEntry edits the object getEntry returned and writes it back; only a
\* write that succeeded drops it from the cache.
UpdateTx(p) ==
    /\ Runs(p, "update", "tx")
    /\ \E s \in 0..MaxSize : Store!UpdateEntry(Top(p).obj, s)
    /\ IF entry' = entry THEN Fail(p) ELSE Goto(p, "done")
    /\ UNCHANGED <<caches, served>>

UpdateDone(p) ==
    /\ Runs(p, "update", "done")
    /\ entryCache' = Invalid({Top(p).at})
    /\ Continue(p, IdFrame("update", "get", "end", Top(p).at, FALSE))
    /\ UNCHANGED <<childCache, served>>
    /\ NoTx

\* Open commits first; with Trunc it looks the entry up before it drops it.
OpenTx(p) ==
    /\ Runs(p, "open", "tx")
    /\ Store!Open(Top(p).at, Top(p).flag)
    /\ Goto(p, IF Top(p).flag THEN "get" ELSE "done")
    /\ UNCHANGED <<caches, served>>

OpenDone(p) ==
    /\ Runs(p, "open", "done")
    /\ entryCache' = Invalid({Top(p).at})
    /\ Return(p)
    /\ UNCHANGED <<childCache, served>>
    /\ NoTx

\* AppendSegments caches the row its transaction returned.
AppendTx(p) ==
    /\ Runs(p, "append", "tx")
    /\ Free # {}
    /\ \E s \in 0..MaxSize : Store!AppendSegments(Fresh, Top(p).at, s)
    /\ Continue(p, [Top(p) EXCEPT !.pc = "set", !.obj = Fresh])
    /\ UNCHANGED <<caches, served>>

\* symlink.Flush goes to the store and leaves the cache alone.
FlushTx(p) ==
    /\ Runs(p, "flush", "tx")
    /\ \E s \in 0..MaxSize : Store!Flush(Top(p).at, s)
    /\ Return(p)
    /\ UNCHANGED <<caches, served>>

\* entryCleanExecutor.execute: CleanEntryData looks a file up, DestroyEntry
\* deletes the row and drops it from the cache.
CleanTx(p) ==
    /\ Runs(p, "clean", "tx")
    /\ Store!DeleteRemovedEntry(Top(p).at)
    /\ Goto(p, "done")
    /\ UNCHANGED <<caches, served>>

CleanDone(p) ==
    /\ Runs(p, "clean", "done")
    /\ entryCache' = Invalid({Top(p).at})
    /\ Return(p)
    /\ UNCHANGED <<childCache, served>>
    /\ NoTx

\* The caches are bounded and their slots expire.
Evict ==
    /\ served < MaxOps
    /\ served' = served + 1
    /\ \/ /\ \E e \in Id : entryCache[e] # NoObj /\ entryCache' = Invalid({e})
          /\ UNCHANGED childCache
       \/ /\ \E r \in childCache : childCache' = childCache \ {r}
          /\ UNCHANGED entryCache
    /\ UNCHANGED stack
    /\ NoTx

-----------------------------------------------------------------------------
(* Requests. *)

\* What a path names in the tables, from a group e and from the root.
ResolveFrom(e, path) ==
    LET at[k \in 0..Len(path)] ==
            IF k = 0 THEN e
            ELSE LET r == Store!FindEntry(at[k - 1], path[k])
                 IN  IF r = {} THEN NoId ELSE (CHOOSE y \in r : TRUE).child
    IN  at[Len(path)]

Resolve(path) == ResolveFrom(Root, path)

IsDir(path) == Resolve(path) \in rows /\ entry[Resolve(path)].isGroup

\* A file system call reaches NanaFS after the kernel has looked its paths up:
\* parents are directories, and nothing is renamed into itself.
PassesVFS(f) ==
    Screened =>
        CASE f.op = "create" -> IsDir(f.legs[1])
          [] f.op = "move"   -> /\ IsDir(f.legs[2])
                                /\ Resolve(f.legs[1]) # NoId
                                /\ f.legs[1] # f.legs[2]
          [] OTHER -> TRUE

Below == Path \ {<<>>}

Requests ==
    UNION {
        {WalkFrame("stat", <<q>>, Root, FALSE) : q \in Path},
        {WalkFrame("create", <<q>>, n, g) : q \in Path, n \in Name, g \in BOOLEAN},
        {RemoveFrame(q, all) : q \in Below, all \in BOOLEAN},
        {WalkFrame("mirror", <<q, d>>, n, FALSE) : q \in Path, d \in Path, n \in Name},
        \* the same name in the same place is nothing to do
        {f \in {WalkFrame("move", <<q, d>>, n, over) :
                  q \in Below, d \in Path, n \in Name, over \in BOOLEAN} :
           f.legs[1] # Append(f.legs[2], f.name)},
        {IdFrame("update", "get", "tx", e, FALSE) : e \in used},
        {IdFrame("open", "tx", "done", e, trunc) : e \in used, trunc \in BOOLEAN},
        {IdFrame("append", "tx", "end", e, FALSE) : e \in {x \in used : ~entry[x].isGroup}},
        {IdFrame("flush", "tx", "end", e, FALSE) : e \in {x \in Symlink \cap used : ~entry[x].isGroup}},
        {IdFrame("clean", IF entry[e].isGroup THEN "tx" ELSE "get", "tx", e, FALSE) : e \in unlinked}}

Begin(p) ==
    /\ ~Busy(p)
    /\ served < MaxOps
    /\ \E f \in Requests :
          /\ f.op \in Op
          /\ PassesVFS(f)
          /\ stack' = [stack EXCEPT ![p] = <<f>>]
    /\ served' = served + 1
    /\ UNCHANGED caches
    /\ NoTx

Walk(p) == GetCached(p) \/ GetStored(p) \/ SetEntry(p) \/ FindCached(p) \/ FindStored(p) \/ SetChild(p)

TreeOp(p) ==
    \/ CreateCheck(p) \/ CreateTx(p) \/ CreateDone(p)
    \/ RemoveList(p) \/ RemoveKid(p) \/ RemoveTx(p) \/ RemoveDone(p)
    \/ MirrorCheck(p) \/ MirrorTx(p) \/ MirrorDone(p)
    \/ MoveCheck(p) \/ MoveOver(p) \/ ListNext(p) \/ MoveRemoved(p) \/ MoveTx(p) \/ MoveDone(p)

RowOp(p) ==
    \/ Stat(p) \/ LastGet(p) \/ TxFails(p)
    \/ UpdateTx(p) \/ UpdateDone(p)
    \/ OpenTx(p) \/ OpenDone(p)
    \/ AppendTx(p) \/ FlushTx(p)
    \/ CleanTx(p) \/ CleanDone(p)

\* The bound is reached and every request is answered.
Finished == served = MaxOps /\ (\A p \in Proc : ~Busy(p)) /\ UNCHANGED vars

Next == (\E p \in Proc : Begin(p) \/ Walk(p) \/ TreeOp(p) \/ RowOp(p)) \/ Evict \/ Finished

Spec == Init /\ [][Next]_vars

-----------------------------------------------------------------------------
(* Properties. *)

Idle == \A p \in Proc : ~Busy(p)

\* Whatever processes do to each other between a lookup and a commit, the
\* tables only ever make the transitions of MetaStore: stale objects, ids and
\* parents that core carries from one step to a later one cannot make a
\* transaction do anything else.
StoreSpec == Store!Spec

\* When no operation is in progress, a cached row other than a symlink's has
\* the version and the reference count of the table: each operation drops
\* every row its transaction rewrote, so the next UpdateEntry does not
\* conflict.  (symlink.Flush rewrites a row and drops nothing.)
IdleEntryCacheIsCurrent ==
    Idle => \A e \in Id \ Symlink :
              entryCache[e] # NoObj =>
                /\ e \in rows
                /\ copy[entryCache[e]].row.version = entry[e].version
                /\ copy[entryCache[e]].row.refCount = entry[e].refCount

\* When no operation is in progress the child cache holds only rows of the
\* children table: no name that was removed or moved away still resolves.
IdleChildCacheIsCurrent == Idle => childCache \subseteq children

\* When no operation is in progress, neither cache of core answers anything
\* the tables do not say (setEntry, setChild, invalidEntry, invalidChild).
IdleCachesAreCurrent == IdleEntryCacheIsCurrent /\ IdleChildCacheIsCurrent

\* Paths long enough to reach every entry of a tree.
LongPath == UNION {[1..k -> Name] : k \in 0..Cardinality(Id)}

\* No entry is lost: when no operation is in progress, a row with a link is
\* reached from the root, however renames, overwrites and recursive removals
\* failed halfway.
IdleLinkedIsReachable ==
    Idle => \A e \in rows : entry[e].refCount > 0 => \E q \in LongPath : Resolve(q) = e
=============================================================================
