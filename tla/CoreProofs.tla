----------------------------- MODULE CoreProofs -----------------------------
(***************************************************************************)
(* Proofs about the core above the tables: for any goroutines, requests,   *)
(* entries and names, the tables only ever make transitions of MetaStore,  *)
(* so what is proved of MetaStore holds under the core.                    *)
(*                                                                         *)
(* A transaction of the core passes ids, names and objects that it found   *)
(* earlier, in a cache, in a table that has changed since, or in the frame *)
(* of a caller.  The invariant says what each of them still is when it is  *)
(* used (FrameInv): an id that was allocated, and was unlinked when it is  *)
(* to be destroyed, a name of a directory entry, an object.  Ids are never *)
(* taken back, which is why what was read stays usable.                    *)
(***************************************************************************)
EXTENDS Core, TLAPS

\* The operations that walk paths.
PathOp == {"stat", "create", "remove", "mirror", "move"}

\* The steps of a lookup.
WalkPc == {"get", "set", "find", "setChild"}

\* Where a frame can be.
Pc == WalkPc \cup {"ready", "tx", "done", "kids", "over", "removed", "listed", "end"}

\* What a frame is made of.
FrameRec ==
    [op : PathOp \cup {"list", "update", "open", "append", "flush", "clean"},
     pc : Pc, then : {"ready", "over", "tx", "done", "end", "listed"},
     legs : Seq(Seq(Name)), at : Id, up : Id, todo : Seq(Name), found : Seq([up : Id, at : Id]),
     name : Name \cup {Root}, flag : BOOLEAN, kids : SUBSET (Name \cup Id \cup Store!ChildRow),
     obj : Reader \cup {NoObj}]

\* The number of paths an operation walks.
Legs(op) == IF op \in {"stat", "create"} THEN 1 ELSE 2

\* An operation that walks paths has found the ends of all of them once it is
\* past the walk.
WalkInv(f) ==
    /\ f.op \in PathOp
    /\ Len(f.legs) = Legs(f.op)
    /\ f.op # "stat" => f.name \in Name
    /\ f.op = "move" => f.legs[1] # <<>>
    /\ f.pc \in WalkPc => Len(f.found) < Len(f.legs)
    /\ f.pc \notin WalkPc => Len(f.found) = Len(f.legs) /\ f.todo = <<>>
    /\ f.pc \in {"find", "setChild"} => f.todo # <<>>

\* A move that looks up the entry in the way has found both paths.
OverInv(f) ==
    /\ f.op = "move" /\ f.pc \notin {"find", "setChild"}
    /\ Len(f.legs) = 2 /\ Len(f.found) = 2 /\ f.todo = <<>>
    /\ f.name \in Name /\ f.legs[1] # <<>>

\* An operation on an id walks no path; the lookup that ends MirrorEntry and
\* UpdateEntry is followed by no transaction.
IdInv(f) ==
    /\ f.op \in PathOp => f.pc \in {"get", "set", "end"} /\ f.then = "end"
    /\ f.then = "end" /\ f.op = "update" => f.pc \notin {"tx", "done"}
    /\ f.pc \notin {"find", "setChild"}
    /\ f.legs = <<>> /\ f.todo = <<>> /\ f.found = <<>>

\* What a frame holds is fit for the steps that follow, when U are the
\* allocated and X the unlinked ids.
FrameInv(f, U, X) ==
    /\ f \in FrameRec
    /\ f.at \in U /\ f.up \in U
    /\ \A i \in 1..Len(f.found) : f.found[i].at \in U /\ f.found[i].up \in U
    /\ f.then = "ready" => WalkInv(f)
    /\ f.then = "over" => OverInv(f)
    /\ f.then \notin {"ready", "over"} => IdInv(f)
    /\ f.pc = "set" => f.obj \in Reader
    /\ f.op = "update" /\ f.pc = "tx" => f.obj \in Reader
    /\ f.op = "clean" => f.at \in X
    /\ f.pc = "setChild" => f.kids \subseteq {r \in Store!ChildRow : r.child \in U}
    /\ f.op = "remove" /\ f.pc = "kids" => f.kids \subseteq Name
    /\ f.op = "list" => f.kids \subseteq U

\* Every frame of every process is.
StackInv ==
    /\ stack \in [Proc -> Seq(FrameRec)]
    /\ \A p \in Proc : \A i \in 1..Len(stack[p]) : FrameInv(stack[p][i], used, unlinked)

\* The caches hold objects, and rows that name allocated ids.
CacheInv ==
    /\ entryCache \in [Id -> Reader \cup {NoObj}]
    /\ childCache \subseteq {r \in Store!ChildRow : r.child \in used}

\* What the steps need to know of the tables.
TableInv ==
    /\ Root \in used /\ used \subseteq Id /\ rows \subseteq used /\ unlinked \subseteq used
    /\ children \subseteq {r \in Store!ChildRow : r.child \in used}

\* The invariant of the core.
CoreInv == TableInv /\ StackInv /\ CacheInv

-----------------------------------------------------------------------------
(* Stacks. *)

\* A path is a sequence of names.
LEMMA PathIsSeq == Path \subseteq Seq(Name)
  BY CoreAssumption DEF Path

\* A frame stays fit when more ids are allocated or unlinked.
LEMMA FrameGrows ==
    ASSUME NEW f, NEW U, NEW X, NEW V, NEW Y, FrameInv(f, U, X), U \subseteq V, X \subseteq Y
    PROVE  FrameInv(f, V, Y)
  BY Zenon DEF FrameInv

\* A process gets a new stack.
LEMMA StackStep ==
    ASSUME StackInv, NEW p \in Proc, NEW s \in Seq(FrameRec),
           stack' = [stack EXCEPT ![p] = s],
           used \subseteq used', unlinked \subseteq unlinked',
           \A i \in 1..Len(s) : FrameInv(s[i], used', unlinked')
    PROVE  StackInv'
  BY Zenon, FrameGrows DEF StackInv

\* The frames of a busy process, and of its callers.
LEMMA TailIsKept ==
    ASSUME StackInv, NEW p \in Proc, Busy(p), used \subseteq used', unlinked \subseteq unlinked'
    PROVE  /\ FrameInv(Top(p), used, unlinked) /\ FrameInv(Top(p), used', unlinked')
           /\ Top(p) \in FrameRec
           /\ Tail(stack[p]) \in Seq(FrameRec)
           /\ \A i \in 1..Len(Tail(stack[p])) : FrameInv(Tail(stack[p])[i], used', unlinked')
  <1>1. stack[p] \in Seq(FrameRec) /\ stack[p] # <<>>
    BY Zenon DEF StackInv, Busy
  <1>2. Tail(stack[p]) \in Seq(FrameRec) /\ 1 \in 1..Len(stack[p]) /\ Len(Tail(stack[p])) = Len(stack[p]) - 1
        /\ \A i \in 1..Len(Tail(stack[p])) : Tail(stack[p])[i] = stack[p][i + 1]
    BY <1>1
  <1>3. \A i \in 1..Len(stack[p]) : FrameInv(stack[p][i], used', unlinked') /\ FrameInv(stack[p][i], used, unlinked)
    BY Zenon, FrameGrows DEF StackInv
  <1>4. FrameInv(Top(p), used, unlinked) /\ FrameInv(Top(p), used', unlinked')
    BY Zenon, <1>2, <1>3 DEF Top
  <1>5. Top(p) \in FrameRec
    BY Zenon, <1>4 DEF FrameInv
  <1>6. \A i \in 1..Len(Tail(stack[p])) : i + 1 \in 1..Len(stack[p])
    BY <1>1, <1>2
  <1>7. \A i \in 1..Len(Tail(stack[p])) : FrameInv(Tail(stack[p])[i], used', unlinked')
    BY Zenon, <1>2, <1>3, <1>6
  <1> QED
    BY Zenon, <1>2, <1>4, <1>5, <1>7

\* The innermost frame changes.
LEMMA ContinueInv ==
    ASSUME StackInv, NEW p \in Proc, NEW f, Busy(p), Continue(p, f),
           used \subseteq used', unlinked \subseteq unlinked', FrameInv(f, used', unlinked')
    PROVE  StackInv'
  <1> DEFINE t == Tail(stack[p])
             s == <<f>> \o t
  <1>1. t \in Seq(FrameRec) /\ \A i \in 1..Len(t) : FrameInv(t[i], used', unlinked')
    BY Zenon, TailIsKept
  <1>2. stack' = [stack EXCEPT ![p] = s] /\ f \in FrameRec
    BY Zenon DEF Continue, FrameInv
  <1> HIDE DEF t
  <1>3. s \in Seq(FrameRec) /\ Len(s) = Len(t) + 1 /\ s[1] = f /\ \A i \in 2..Len(s) : s[i] = t[i - 1] /\ i - 1 \in 1..Len(t)
    BY <1>1, <1>2
  <1> HIDE DEF s
  <1>4. \A i \in 1..Len(s) : FrameInv(s[i], used', unlinked')
    BY <1>1, <1>3
  <1> QED
    BY Zenon, <1>2, <1>3, <1>4, StackStep

\* The operation calls another one.
LEMMA CallInv ==
    ASSUME StackInv, NEW p \in Proc, NEW f, NEW g, Busy(p), Call(p, f, g),
           used \subseteq used', unlinked \subseteq unlinked',
           FrameInv(f, used', unlinked'), FrameInv(g, used', unlinked')
    PROVE  StackInv'
  <1> DEFINE t == Tail(stack[p])
             s == <<g, f>> \o t
  <1>1. t \in Seq(FrameRec) /\ \A i \in 1..Len(t) : FrameInv(t[i], used', unlinked')
    BY Zenon, TailIsKept
  <1>2. stack' = [stack EXCEPT ![p] = s] /\ f \in FrameRec /\ g \in FrameRec
    BY Zenon DEF Call, FrameInv
  <1> HIDE DEF t
  <1>3. /\ s \in Seq(FrameRec) /\ Len(s) = Len(t) + 2 /\ s[1] = g /\ s[2] = f
        /\ \A i \in 3..Len(s) : s[i] = t[i - 2] /\ i - 2 \in 1..Len(t)
    BY <1>1, <1>2
  <1> HIDE DEF s
  <1>4. \A i \in 1..Len(s) : FrameInv(s[i], used', unlinked')
    BY <1>1, <1>3
  <1> QED
    BY Zenon, <1>2, <1>3, <1>4, StackStep

\* The operation returns, or fails with all its callers.
LEMMA ReturnInv ==
    ASSUME StackInv, NEW p \in Proc, Busy(p), Return(p) \/ Fail(p),
           used \subseteq used', unlinked \subseteq unlinked'
    PROVE  StackInv'
  <1> DEFINE t == Tail(stack[p])
  <1>1. t \in Seq(FrameRec) /\ \A i \in 1..Len(t) : FrameInv(t[i], used', unlinked')
    BY Zenon, TailIsKept
  <1>2. stack' = [stack EXCEPT ![p] = t] \/ stack' = [stack EXCEPT ![p] = <<>>]
    BY Zenon DEF Return, Fail
  <1>3. <<>> \in Seq(FrameRec) /\ \A i \in 1..Len(<<>>) : FrameInv(<<>>[i], used', unlinked')
    OBVIOUS
  <1> HIDE DEF t
  <1> QED
    BY Zenon, <1>1, <1>2, <1>3, StackStep

-----------------------------------------------------------------------------
(* Frames. *)

\* A frame that moves on to its transaction, or past it.
LEMMA GotoInv ==
    ASSUME NEW f, NEW U, NEW X, FrameInv(f, U, X), f.pc \in {"ready", "tx", "removed"}, NEW pc,
           pc \in {"tx", "done"} \/ (pc = "get" /\ f.op = "open"), f.op = "update" => f.pc = "tx" /\ pc # "tx"
    PROVE  FrameInv([f EXCEPT !.pc = pc], U, X)
  <1> DEFINE g == [f EXCEPT !.pc = pc]
  <1>1. f \in FrameRec /\ pc \in Pc \ {"set", "find", "setChild", "kids"}
    BY Zenon DEF FrameInv, Pc, WalkPc
  <1>2. /\ g \in FrameRec /\ g.pc = pc /\ g.op = f.op /\ g.then = f.then /\ g.legs = f.legs /\ g.at = f.at
        /\ g.up = f.up /\ g.todo = f.todo /\ g.found = f.found /\ g.name = f.name /\ g.kids = f.kids
    BY <1>1 DEF FrameRec
  <1> HIDE DEF g
  <1>3. f.then = "ready" => WalkInv(g)
    BY Zenon, <1>1, <1>2 DEF FrameInv, WalkInv, PathOp, WalkPc
  <1>4. f.then = "over" => OverInv(g)
    BY Zenon, <1>1, <1>2 DEF FrameInv, OverInv
  <1>5. f.then \notin {"ready", "over"} => IdInv(g)
    BY Zenon, <1>1, <1>2 DEF FrameInv, IdInv, PathOp
  <1> QED
    BY <1>1, <1>2, <1>3, <1>4, <1>5 DEF FrameInv, g

\* A frame after a lookup.
LEMMA AdvanceInv ==
    ASSUME NEW f, NEW U, NEW X, FrameInv(f, U, X), Root \in U, f.pc \in {"get", "set"}, NEW o \in Reader
    PROVE  FrameInv(Advance(f, o), U, X)
  <1> DEFINE done == Append(f.found, [up |-> f.up, at |-> f.at])
  <1>1. /\ f \in FrameRec /\ f.at \in U /\ f.up \in U /\ f.at \in Id /\ f.up \in Id
        /\ Len(f.found) \in Nat /\ Len(f.legs) \in Nat /\ Root \in Id
    BY CoreAssumption DEF FrameInv, FrameRec
  <1>2. /\ done \in Seq([up : Id, at : Id]) /\ Len(done) = Len(f.found) + 1
        /\ \A i \in 1..Len(done) : done[i].at \in U /\ done[i].up \in U
    BY <1>1 DEF FrameInv, FrameRec
  <1>3. CASE f.then = "ready"
    <2>1. WalkInv(f) /\ Len(f.found) < Len(f.legs) /\ f.op \in PathOp
      BY Zenon, <1>3 DEF FrameInv, WalkInv, WalkPc
    <2>2. CASE f.todo # <<>>
      <3> DEFINE g == [f EXCEPT !.pc = "find", !.obj = NoObj]
      <3>1. Advance(f, o) = g
        BY Zenon, <2>2 DEF Advance
      <3>2. /\ g \in FrameRec /\ g.pc = "find" /\ g.op = f.op /\ g.then = f.then /\ g.legs = f.legs /\ g.at = f.at
            /\ g.up = f.up /\ g.todo = f.todo /\ g.found = f.found /\ g.name = f.name /\ g.kids = f.kids
        BY Zenon, <1>1 DEF FrameRec, Pc, WalkPc
      <3> HIDE DEF g
      <3>3. WalkInv(g)
        BY Zenon, <2>1, <2>2, <3>2 DEF WalkInv, WalkPc
      <3>4. FrameInv(g, U, X)
        BY Zenon, <1>1, <1>3, <2>1, <3>2, <3>3 DEF FrameInv, PathOp
      <3> QED
        BY Zenon, <3>1, <3>4
    <2>3. CASE f.todo = <<>> /\ Len(done) < Len(f.legs)
      <3> DEFINE g == [f EXCEPT !.pc = "get", !.obj = NoObj, !.found = done,
                                !.todo = f.legs[Len(done) + 1], !.at = Root, !.up = Root]
      <3>1. Advance(f, o) = g
        BY <2>3 DEF Advance
      <3> HIDE DEF done
      <3>2. f.legs[Len(done) + 1] \in Seq(Name)
        BY <1>1, <1>2, <2>3 DEF FrameRec
      <3>3. /\ g \in FrameRec /\ g.pc = "get" /\ g.op = f.op /\ g.then = f.then /\ g.legs = f.legs /\ g.at = Root
            /\ g.up = Root /\ g.found = done /\ g.name = f.name /\ g.kids = f.kids
        BY Zenon, <1>1, <1>2, <3>2 DEF FrameRec, Pc, WalkPc
      <3> HIDE DEF g
      <3>4. WalkInv(g)
        BY Zenon, <1>2, <2>1, <2>3, <3>3 DEF WalkInv, WalkPc
      <3>5. FrameInv(g, U, X)
        BY <1>1, <1>2, <1>3, <2>1, <3>3, <3>4 DEF FrameInv, PathOp
      <3> QED
        BY Zenon, <3>1, <3>5
    <2>4. CASE f.todo = <<>> /\ Len(done) = Len(f.legs)
      <3> DEFINE g == [f EXCEPT !.pc = f.then, !.obj = NoObj, !.found = done]
      <3>1. Advance(f, o) = g
        BY <2>4 DEF Advance
      <3> HIDE DEF done
      <3>2. /\ g \in FrameRec /\ g.pc = "ready" /\ g.op = f.op /\ g.then = f.then /\ g.legs = f.legs /\ g.at = f.at
            /\ g.up = f.up /\ g.found = done /\ g.name = f.name /\ g.kids = f.kids /\ g.todo = f.todo
        BY Zenon, <1>1, <1>2, <1>3 DEF FrameRec, Pc, WalkPc
      <3> HIDE DEF g
      <3>3. WalkInv(g)
        BY Zenon, <1>2, <2>1, <2>4, <3>2 DEF WalkInv, WalkPc
      <3>4. FrameInv(g, U, X)
        BY <1>1, <1>2, <1>3, <2>1, <3>2, <3>3 DEF FrameInv, PathOp
      <3> QED
        BY Zenon, <3>1, <3>4
    <2> QED
      BY <1>1, <1>2, <2>1, <2>2, <2>3, <2>4
  <1>4. CASE f.then # "ready"
    <2> DEFINE g == [f EXCEPT !.pc = f.then, !.obj = o]
    <2>1. f.todo = <<>> /\ Len(done) > Len(f.legs)
      BY <1>1, <1>2, <1>4 DEF FrameInv, OverInv, IdInv
    <2>2. Advance(f, o) = g
      BY <1>1, <1>2, <2>1 DEF Advance
    <2>3. f.then \in {"over", "tx", "done", "end", "listed"}
      BY Zenon, <1>1, <1>4 DEF FrameRec
    <2>4. /\ g \in FrameRec /\ g.pc = f.then /\ g.op = f.op /\ g.then = f.then /\ g.legs = f.legs /\ g.at = f.at
          /\ g.up = f.up /\ g.found = f.found /\ g.name = f.name /\ g.kids = f.kids /\ g.todo = f.todo /\ g.obj = o
      BY Zenon, <1>1, <2>3 DEF FrameRec, Pc, WalkPc
    <2> HIDE DEF g
    <2>5. f.then = "over" => OverInv(g)
      BY Zenon, <2>4 DEF FrameInv, OverInv
    <2>6. f.then # "over" => IdInv(g)
      BY Zenon, <1>4, <2>3, <2>4 DEF FrameInv, IdInv, PathOp
    <2>7. FrameInv(g, U, X)
      BY Zenon, <1>1, <1>4, <2>3, <2>4, <2>5, <2>6 DEF FrameInv
    <2> QED
      BY Zenon, <2>2, <2>7
  <1> QED
    BY Zenon, <1>3, <1>4

\* A frame after the child row of the next name is known.
LEMMA DescendInv ==
    ASSUME NEW f, NEW U, NEW X, FrameInv(f, U, X), f.pc \in {"find", "setChild"},
           NEW r, r.child \in U, r.child \in Id
    PROVE  FrameInv(Descend(f, r), U, X)
  <1> DEFINE g == Descend(f, r)
  <1>1. f \in FrameRec /\ f.at \in U /\ f.at \in Id /\ f.todo \in Seq(Name)
    BY Zenon DEF FrameInv, FrameRec
  <1>2. f.then = "ready" /\ WalkInv(f) /\ f.todo # <<>> /\ Len(f.found) < Len(f.legs)
    BY Zenon, <1>1 DEF FrameInv, OverInv, IdInv, WalkInv, WalkPc
  <1>3. Tail(f.todo) \in Seq(Name)
    BY <1>1, <1>2
  <1>4. /\ g \in FrameRec /\ g.pc = "get" /\ g.op = f.op /\ g.then = f.then /\ g.legs = f.legs /\ g.at = r.child
        /\ g.up = f.at /\ g.found = f.found /\ g.name = f.name /\ g.kids = {}
    BY Zenon, <1>1, <1>3 DEF FrameRec, Pc, WalkPc, Descend
  <1> HIDE DEF g
  <1>5. WalkInv(g)
    BY Zenon, <1>2, <1>4 DEF WalkInv, WalkPc
  <1>6. FrameInv(g, U, X)
    BY Zenon, <1>1, <1>2, <1>4, <1>5 DEF FrameInv, WalkInv, PathOp
  <1> QED
    BY Zenon, <1>6 DEF g

\* A frame that was handed an object to cache.
LEMMA SetObjInv ==
    ASSUME NEW f, NEW U, NEW X, FrameInv(f, U, X), f.pc = "get" \/ (f.pc = "tx" /\ f.op = "append"),
           NEW o \in Reader
    PROVE  FrameInv([f EXCEPT !.pc = "set", !.obj = o], U, X)
  <1> DEFINE g == [f EXCEPT !.pc = "set", !.obj = o]
  <1>1. f \in FrameRec
    BY Zenon DEF FrameInv
  <1>2. /\ g \in FrameRec /\ g.pc = "set" /\ g.op = f.op /\ g.then = f.then /\ g.legs = f.legs /\ g.at = f.at
        /\ g.up = f.up /\ g.todo = f.todo /\ g.found = f.found /\ g.name = f.name /\ g.kids = f.kids /\ g.obj = o
    BY Zenon, <1>1 DEF FrameRec, Pc, WalkPc
  <1> HIDE DEF g
  <1>3. f.then = "ready" => WalkInv(g)
    BY Zenon, <1>2 DEF FrameInv, WalkInv, PathOp, WalkPc
  <1>4. f.then = "over" => OverInv(g)
    BY Zenon, <1>2 DEF FrameInv, OverInv
  <1>5. f.then \notin {"ready", "over"} => IdInv(g)
    BY Zenon, <1>2 DEF FrameInv, IdInv, PathOp
  <1> QED
    BY Zenon, <1>1, <1>2, <1>3, <1>4, <1>5 DEF FrameInv, g

\* A frame that was handed a row of the children table to cache.
LEMMA SetChildFrameInv ==
    ASSUME NEW f, NEW U, NEW X, FrameInv(f, U, X), f.pc = "find", NEW r \in Store!ChildRow, r.child \in U
    PROVE  FrameInv([f EXCEPT !.pc = "setChild", !.kids = {r}], U, X)
  <1> DEFINE g == [f EXCEPT !.pc = "setChild", !.kids = {r}]
  <1>1. f \in FrameRec
    BY Zenon DEF FrameInv
  <1>2. f.then = "ready" /\ WalkInv(f) /\ f.op \in PathOp
    BY Zenon, <1>1 DEF FrameInv, OverInv, IdInv, WalkInv
  <1>3. {r} \in SUBSET (Name \cup Id \cup Store!ChildRow)
    BY Zenon
  <1>4. /\ g \in FrameRec /\ g.pc = "setChild" /\ g.op = f.op /\ g.then = f.then /\ g.legs = f.legs /\ g.at = f.at
        /\ g.up = f.up /\ g.todo = f.todo /\ g.found = f.found /\ g.name = f.name /\ g.kids = {r}
    BY Zenon, <1>1, <1>3 DEF FrameRec, Pc, WalkPc
  <1> HIDE DEF g
  <1>5. WalkInv(g)
    BY Zenon, <1>2, <1>4 DEF WalkInv, WalkPc
  <1> QED
    BY Zenon, <1>1, <1>2, <1>4, <1>5 DEF FrameInv, PathOp, g

\* RemoveEntry with the names it still has to remove.
LEMMA KidsInv ==
    ASSUME NEW f, NEW U, NEW X, FrameInv(f, U, X), f.op = "remove", f.pc \in {"ready", "kids"},
           NEW pc \in {"tx", "kids"}, NEW K \in SUBSET Name
    PROVE  FrameInv([f EXCEPT !.pc = pc, !.kids = K], U, X)
  <1> DEFINE g == [f EXCEPT !.pc = pc, !.kids = K]
  <1>1. f \in FrameRec
    BY Zenon DEF FrameInv
  <1>2. f.then = "ready" /\ WalkInv(f)
    BY Zenon, <1>1 DEF FrameInv, OverInv, IdInv, PathOp
  <1>3. K \in SUBSET (Name \cup Id \cup Store!ChildRow) /\ pc \in Pc
    BY Zenon DEF Pc
  <1>4. /\ g \in FrameRec /\ g.pc = pc /\ g.op = f.op /\ g.then = f.then /\ g.legs = f.legs /\ g.at = f.at
        /\ g.up = f.up /\ g.todo = f.todo /\ g.found = f.found /\ g.name = f.name /\ g.kids = K
    BY Zenon, <1>1, <1>3 DEF FrameRec
  <1> HIDE DEF g
  <1>5. WalkInv(g)
    BY Zenon, <1>2, <1>4 DEF WalkInv, WalkPc
  <1> QED
    BY Zenon, <1>1, <1>2, <1>4, <1>5 DEF FrameInv, PathOp, g

\* ChangeEntryParent that looks up the entry in the way.
LEMMA OverFrameInv ==
    ASSUME NEW f, NEW U, NEW X, FrameInv(f, U, X), f.op = "move", f.pc = "ready", NEW e \in U, e \in Id
    PROVE  FrameInv([f EXCEPT !.pc = "get", !.then = "over", !.at = e], U, X)
  <1> DEFINE g == [f EXCEPT !.pc = "get", !.then = "over", !.at = e]
  <1>1. f \in FrameRec
    BY Zenon DEF FrameInv
  <1>2. WalkInv(f) \/ OverInv(f)
    BY Zenon, <1>1 DEF FrameInv, IdInv, PathOp
  <1>3. /\ g \in FrameRec /\ g.pc = "get" /\ g.op = f.op /\ g.then = "over" /\ g.legs = f.legs /\ g.at = e
        /\ g.up = f.up /\ g.todo = f.todo /\ g.found = f.found /\ g.name = f.name /\ g.kids = f.kids
    BY Zenon, <1>1 DEF FrameRec, Pc, WalkPc
  <1> HIDE DEF g
  <1>4. OverInv(g)
    BY Zenon, <1>2, <1>3 DEF WalkInv, OverInv, WalkPc, Legs
  <1> QED
    BY Zenon, <1>1, <1>3, <1>4 DEF FrameInv, g

\* ChangeEntryParent that waits for the removal of the entry in the way.
LEMMA RemovedFrameInv ==
    ASSUME NEW f, NEW U, NEW X, FrameInv(f, U, X), f.op = "move", f.pc = "over"
    PROVE  FrameInv([f EXCEPT !.pc = "removed", !.obj = NoObj], U, X)
  <1> DEFINE g == [f EXCEPT !.pc = "removed", !.obj = NoObj]
  <1>1. f \in FrameRec
    BY Zenon DEF FrameInv
  <1>2. /\ g \in FrameRec /\ g.pc = "removed" /\ g.op = f.op /\ g.then = f.then /\ g.legs = f.legs /\ g.at = f.at
        /\ g.up = f.up /\ g.todo = f.todo /\ g.found = f.found /\ g.name = f.name /\ g.kids = f.kids
    BY Zenon, <1>1 DEF FrameRec, Pc
  <1> HIDE DEF g
  <1>3. f.then = "ready" => WalkInv(g)
    BY Zenon, <1>2 DEF FrameInv, WalkInv, WalkPc
  <1>4. f.then = "over" => OverInv(g)
    BY Zenon, <1>2 DEF FrameInv, OverInv
  <1>5. f.then \in {"ready", "over"}
    BY Zenon, <1>1 DEF FrameInv, IdInv, PathOp
  <1> QED
    BY Zenon, <1>1, <1>2, <1>3, <1>4, <1>5 DEF FrameInv, g

\* ListChildren that looks the next child up.
LEMMA ListFrameInv ==
    ASSUME NEW f, NEW U, NEW X, FrameInv(f, U, X), f.op = "list", NEW c \in f.kids, c \in Id
    PROVE  FrameInv([f EXCEPT !.pc = "get", !.at = c, !.kids = @ \ {c}, !.obj = NoObj], U, X)
  <1> DEFINE K == f.kids \ {c}
             g == [f EXCEPT !.pc = "get", !.at = c, !.kids = K, !.obj = NoObj]
  <1>1. f \in FrameRec /\ K \in SUBSET (Name \cup Id \cup Store!ChildRow) /\ K \subseteq U /\ c \in U
    BY Zenon DEF FrameInv, FrameRec
  <1>2. g = [f EXCEPT !.pc = "get", !.at = c, !.kids = @ \ {c}, !.obj = NoObj]
    BY Zenon
  <1> HIDE DEF K
  <1>3. /\ g \in FrameRec /\ g.pc = "get" /\ g.op = f.op /\ g.then = f.then /\ g.legs = f.legs /\ g.at = c
        /\ g.up = f.up /\ g.todo = f.todo /\ g.found = f.found /\ g.name = f.name /\ g.kids = K
    BY Zenon, <1>1 DEF FrameRec, Pc, WalkPc
  <1> HIDE DEF g
  <1>4. f.then \notin {"ready", "over"} /\ IdInv(f)
    BY Zenon DEF FrameInv, WalkInv, OverInv, PathOp
  <1>5. IdInv(g)
    BY Zenon, <1>3, <1>4 DEF IdInv, PathOp
  <1>6. FrameInv(g, U, X)
    BY Zenon, <1>1, <1>3, <1>4, <1>5 DEF FrameInv
  <1> QED
    BY Zenon, <1>2, <1>6

\* An operation that starts to walk its paths.
LEMMA WalkFrameInv ==
    ASSUME NEW U, NEW X, Root \in U, NEW op \in PathOp, NEW legs \in Seq(Seq(Name)), Len(legs) = Legs(op),
           NEW name \in Name \cup {Root}, op # "stat" => name \in Name, op = "move" => legs[1] # <<>>,
           NEW flag \in BOOLEAN
    PROVE  FrameInv(WalkFrame(op, legs, name, flag), U, X)
  <1> DEFINE g == WalkFrame(op, legs, name, flag)
  <1>1. legs # <<>> /\ legs[1] \in Seq(Name) /\ Root \in Id /\ Len(legs) > 0
    BY CoreAssumption DEF Legs
  <1>2. g = [op |-> op, pc |-> "get", then |-> "ready", legs |-> legs, at |-> Root, up |-> Root,
             todo |-> legs[1], found |-> <<>>, name |-> name, flag |-> flag, kids |-> {}, obj |-> NoObj]
    BY Zenon, <1>1 DEF WalkFrame, Frame
  <1>3. /\ g \in FrameRec /\ g.pc = "get" /\ g.op = op /\ g.then = "ready" /\ g.legs = legs /\ g.at = Root
        /\ g.up = Root /\ g.todo = legs[1] /\ g.found = <<>> /\ g.name = name /\ g.kids = {}
    BY <1>1, <1>2 DEF FrameRec, Pc, WalkPc
  <1> HIDE DEF g
  <1>4. WalkInv(g)
    BY Zenon, <1>1, <1>3 DEF WalkInv, WalkPc
  <1>5. FrameInv(g, U, X)
    BY <1>1, <1>3, <1>4 DEF FrameInv, PathOp
  <1> QED
    BY Zenon, <1>5 DEF g

\* A name appended to a path.
LEMMA AppendPath ==
    ASSUME NEW path \in Seq(Name), NEW n \in Name
    PROVE  Append(path, n) \in Seq(Name) /\ Append(path, n) # <<>>
  <1>1. Append(path, n) \in Seq(Name) /\ Len(Append(path, n)) = Len(path) + 1 /\ Len(path) \in Nat
    OBVIOUS
  <1>2. Len(Append(path, n)) # 0 /\ Len(<<>>) = 0
    BY <1>1
  <1> QED
    BY Zenon, <1>1, <1>2

\* RemoveEntry of a path.
LEMMA RemoveFrameInv ==
    ASSUME NEW U, NEW X, Root \in U, NEW path \in Seq(Name), path # <<>>, NEW all \in BOOLEAN
    PROVE  FrameInv(RemoveFrame(path, all), U, X)
  <1>1. Dir(path) \in Seq(Name) /\ Base(path) \in Name
    BY DEF Dir, Base
  <1>2. <<path, Dir(path)>> \in Seq(Seq(Name)) /\ Len(<<path, Dir(path)>>) = Legs("remove") /\ "remove" \in PathOp
    BY <1>1 DEF Legs, PathOp
  <1> QED
    BY Zenon, <1>1, <1>2, WalkFrameInv DEF RemoveFrame

\* An operation on an id.
LEMMA IdFrameInv ==
    ASSUME NEW U, NEW X, NEW op \in PathOp \cup {"list", "update", "open", "append", "flush", "clean"},
           NEW pc \in {"get", "tx", "listed"}, NEW then \in {"tx", "done", "end", "listed"},
           NEW e \in U, e \in Id, NEW flag \in BOOLEAN,
           op \in PathOp => pc = "get" /\ then = "end", op = "update" => pc = "get", op = "clean" => e \in X
    PROVE  FrameInv(IdFrame(op, pc, then, e, flag), U, X)
  <1> DEFINE g == IdFrame(op, pc, then, e, flag)
  <1>1. g = [op |-> op, pc |-> pc, then |-> then, legs |-> <<>>, at |-> e, up |-> e,
             todo |-> <<>>, found |-> <<>>, name |-> Root, flag |-> flag, kids |-> {}, obj |-> NoObj]
    BY Zenon DEF IdFrame, Frame
  <1>2. /\ g \in FrameRec /\ g.pc = pc /\ g.op = op /\ g.then = then /\ g.legs = <<>> /\ g.at = e
        /\ g.up = e /\ g.todo = <<>> /\ g.found = <<>> /\ g.kids = {}
    BY <1>1 DEF FrameRec, Pc, WalkPc
  <1> HIDE DEF g
  <1>3. IdInv(g)
    BY Zenon, <1>2 DEF IdInv, PathOp
  <1>4. FrameInv(g, U, X)
    BY <1>2, <1>3 DEF FrameInv, PathOp
  <1> QED
    BY Zenon, <1>4 DEF g

\* ListChildren of a group.
LEMMA NewListInv ==
    ASSUME NEW U, NEW X, NEW e \in U, e \in Id, NEW K \in SUBSET U, K \subseteq Id
    PROVE  FrameInv([IdFrame("list", "listed", "listed", e, FALSE) EXCEPT !.kids = K], U, X)
  <1> DEFINE f == IdFrame("list", "listed", "listed", e, FALSE)
             g == [f EXCEPT !.kids = K]
  <1>1. FrameInv(f, U, X) /\ f \in FrameRec /\ f.op = "list" /\ f.then = "listed" /\ f.pc = "listed"
    <2>1. FrameInv(f, U, X)
      BY Zenon, IdFrameInv DEF PathOp
    <2>2. f \in FrameRec
      BY Zenon, <2>1 DEF FrameInv
    <2> QED
      BY Zenon, <2>1, <2>2 DEF IdFrame, Frame
  <1> HIDE DEF f
  <1>2. K \in SUBSET (Name \cup Id \cup Store!ChildRow)
    BY Zenon
  <1>3. /\ g \in FrameRec /\ g.pc = f.pc /\ g.op = f.op /\ g.then = f.then /\ g.legs = f.legs /\ g.at = f.at
        /\ g.up = f.up /\ g.todo = f.todo /\ g.found = f.found /\ g.name = f.name /\ g.kids = K
    BY Zenon, <1>1, <1>2 DEF FrameRec
  <1> HIDE DEF g
  <1>4. IdInv(g)
    BY Zenon, <1>1, <1>3 DEF FrameInv, IdInv
  <1>5. FrameInv(g, U, X)
    BY Zenon, <1>1, <1>3, <1>4 DEF FrameInv
  <1> QED
    BY Zenon, <1>5 DEF f, g

\* Every request is a frame fit to start with.
LEMMA RequestInv ==
    ASSUME TableInv, NEW f \in Requests
    PROVE  FrameInv(f, used, unlinked)
  <1>1. /\ Root \in used /\ used \subseteq Id /\ unlinked \subseteq used
        /\ Path \subseteq Seq(Name) /\ Below \subseteq Seq(Name) /\ \A q \in Below : q # <<>>
    BY Zenon, PathIsSeq DEF TableInv, Below
  <1>2. ASSUME NEW q \in Path, f = WalkFrame("stat", <<q>>, Root, FALSE)
        PROVE  FrameInv(f, used, unlinked)
    <2>1. <<q>> \in Seq(Seq(Name)) /\ Len(<<q>>) = Legs("stat") /\ "stat" \in PathOp
      BY <1>1 DEF Legs, PathOp
    <2> QED
      BY Zenon, <1>1, <1>2, <2>1, WalkFrameInv
  <1>3. ASSUME NEW q \in Path, NEW n \in Name, NEW g \in BOOLEAN, f = WalkFrame("create", <<q>>, n, g)
        PROVE  FrameInv(f, used, unlinked)
    <2>1. <<q>> \in Seq(Seq(Name)) /\ Len(<<q>>) = Legs("create") /\ "create" \in PathOp
      BY <1>1 DEF Legs, PathOp
    <2> QED
      BY Zenon, <1>1, <1>3, <2>1, WalkFrameInv
  <1>4. ASSUME NEW q \in Below, NEW all \in BOOLEAN, f = RemoveFrame(q, all)
        PROVE  FrameInv(f, used, unlinked)
    BY Zenon, <1>1, <1>4, RemoveFrameInv
  <1>5. ASSUME NEW q \in Path, NEW d \in Path, NEW n \in Name, f = WalkFrame("mirror", <<q, d>>, n, FALSE)
        PROVE  FrameInv(f, used, unlinked)
    <2>1. <<q, d>> \in Seq(Seq(Name)) /\ Len(<<q, d>>) = Legs("mirror") /\ "mirror" \in PathOp
      BY <1>1 DEF Legs, PathOp
    <2> QED
      BY Zenon, <1>1, <1>5, <2>1, WalkFrameInv
  <1>6. ASSUME NEW q \in Below, NEW d \in Path, NEW n \in Name, NEW over \in BOOLEAN,
               f = WalkFrame("move", <<q, d>>, n, over)
        PROVE  FrameInv(f, used, unlinked)
    <2>1. <<q, d>> \in Seq(Seq(Name)) /\ Len(<<q, d>>) = Legs("move") /\ "move" \in PathOp /\ <<q, d>>[1] # <<>>
      BY <1>1 DEF Legs, PathOp
    <2> QED
      BY Zenon, <1>1, <1>6, <2>1, WalkFrameInv
  <1>7. ASSUME NEW e \in used, f = IdFrame("update", "get", "tx", e, FALSE)
        PROVE  FrameInv(f, used, unlinked)
    BY Zenon, <1>1, <1>7, IdFrameInv DEF PathOp
  <1>8. ASSUME NEW e \in used, NEW trunc \in BOOLEAN, f = IdFrame("open", "tx", "done", e, trunc)
        PROVE  FrameInv(f, used, unlinked)
    BY Zenon, <1>1, <1>8, IdFrameInv DEF PathOp
  <1>9. ASSUME NEW e \in used, NEW op \in {"append", "flush"}, f = IdFrame(op, "tx", "end", e, FALSE)
        PROVE  FrameInv(f, used, unlinked)
    BY Zenon, <1>1, <1>9, IdFrameInv DEF PathOp
  <1>10. ASSUME NEW e \in unlinked, NEW pc \in {"tx", "get"}, f = IdFrame("clean", pc, "tx", e, FALSE)
         PROVE  FrameInv(f, used, unlinked)
    BY Zenon, <1>1, <1>10, IdFrameInv DEF PathOp
  <1> DEFINE Create(q, n, g) == WalkFrame("create", <<q>>, n, g)
             Mirror(q, d, n) == WalkFrame("mirror", <<q, d>>, n, FALSE)
             Move(q, d, n, over) == WalkFrame("move", <<q, d>>, n, over)
             stat == {WalkFrame("stat", <<q>>, Root, FALSE) : q \in Path}
             create == {Create(q, n, g) : q \in Path, n \in Name, g \in BOOLEAN}
             remove == {RemoveFrame(q, all) : q \in Below, all \in BOOLEAN}
             mirror == {Mirror(q, d, n) : q \in Path, d \in Path, n \in Name}
             move == {Move(q, d, n, over) : q \in Below, d \in Path, n \in Name, over \in BOOLEAN}
             update == {IdFrame("update", "get", "tx", e, FALSE) : e \in used}
             open == {IdFrame("open", "tx", "done", e, trunc) : e \in used, trunc \in BOOLEAN}
             append == {IdFrame("append", "tx", "end", e, FALSE) : e \in {x \in used : ~entry[x].isGroup}}
             flush == {IdFrame("flush", "tx", "end", e, FALSE) :
                         e \in {x \in Symlink \cap used : ~entry[x].isGroup}}
             clean == {IdFrame("clean", IF entry[e].isGroup THEN "tx" ELSE "get", "tx", e, FALSE) :
                         e \in unlinked}
             moves == {g \in move : g.legs[1] # Append(g.legs[2], g.name)}
  <1>11. Requests = UNION {stat, create, remove, mirror, moves, update, open, append, flush, clean}
    BY SMT DEF Requests
  <1>12. f \in stat \/ f \in create \/ f \in remove \/ f \in mirror \/ f \in move
         \/ f \in update \/ f \in open \/ f \in append \/ f \in flush \/ f \in clean
    <2>1. moves \subseteq move
      <3> HIDE DEF move
      <3> QED
        BY Zenon
    <2> HIDE DEF stat, create, remove, mirror, moves, move, update, open, append, flush, clean
    <2> QED
      BY Zenon, <1>11, <2>1
  <1>13. f \in stat => FrameInv(f, used, unlinked)
    BY Zenon, <1>2
  <1>14. f \in create => FrameInv(f, used, unlinked)
    <2>1. \A q \in Path, n \in Name, g \in BOOLEAN : f = Create(q, n, g) => FrameInv(f, used, unlinked)
      BY Zenon, <1>3
    <2> HIDE DEF Create
    <2> QED
      BY SMT, <2>1
  <1>15. f \in remove => FrameInv(f, used, unlinked)
    BY SMT, <1>4
  <1>16. f \in mirror => FrameInv(f, used, unlinked)
    <2>1. \A q \in Path, d \in Path, n \in Name : f = Mirror(q, d, n) => FrameInv(f, used, unlinked)
      BY Zenon, <1>5
    <2> HIDE DEF Mirror
    <2> QED
      BY SMT, <2>1
  <1>17. f \in move => FrameInv(f, used, unlinked)
    <2>1. \A q \in Below, d \in Path, n \in Name, over \in BOOLEAN : f = Move(q, d, n, over) => FrameInv(f, used, unlinked)
      BY Zenon, <1>6
    <2> HIDE DEF Move
    <2> QED
      BY SMT, <2>1
  <1>18. f \in update => FrameInv(f, used, unlinked)
    BY Zenon, <1>7
  <1>19. f \in open => FrameInv(f, used, unlinked)
    BY SMT, <1>8
  <1>20. f \in append => FrameInv(f, used, unlinked)
    BY Zenon, <1>9
  <1>21. f \in flush => FrameInv(f, used, unlinked)
    BY Zenon, <1>9
  <1>22. f \in clean => FrameInv(f, used, unlinked)
    BY Zenon, <1>10
  <1> HIDE DEF stat, create, remove, mirror, moves, move, update, open, append, flush, clean
  <1> QED
    BY Zenon, <1>12, <1>13, <1>14, <1>15, <1>16, <1>17, <1>18, <1>19, <1>20, <1>21, <1>22

-----------------------------------------------------------------------------
(* What all steps share. *)

\* A step that leaves the tables alone drops objects nobody points to.
LEMMA NoTxStep ==
    ASSUME NoTx
    PROVE  Store!Next /\ used' = used /\ unlinked' = unlinked
  <1>1. Store!Drop(Reader \ Live(entryCache', stack')) /\ Reader \ Live(entryCache', stack') \in SUBSET Reader
    BY Zenon DEF NoTx
  <1> QED
    BY Zenon, <1>1 DEF Store!Next, Store!RowStep, Store!Drop

\* Caches that a step leaves alone, or drops slots from.
LEMMA CacheStep ==
    ASSUME CacheInv, used \subseteq used',
           entryCache' = entryCache \/ \E S : entryCache' = Invalid(S),
           childCache' \subseteq childCache
    PROVE  CacheInv'
  BY Zenon DEF CacheInv, Invalid

\* A newly allocated object is one.
LEMMA FreshIsReader ==
    ASSUME Free # {}
    PROVE  Fresh \in Reader
  BY Zenon DEF Fresh, Free

\* The stack of a process p changes to one that is as fit.
Moves(p) ==
    \/ Return(p) \/ Fail(p)
    \/ \E f : FrameInv(f, used, unlinked) /\ Continue(p, f)
    \/ \E f, g : FrameInv(f, used, unlinked) /\ FrameInv(g, used, unlinked) /\ Call(p, f, g)

\* The caches are left alone or slots are dropped.
Keeps == (entryCache' = entryCache \/ \E S : entryCache' = Invalid(S)) /\ childCache' \subseteq childCache

\* A process moves on while the tables grow.
LEMMA MovesStep ==
    ASSUME CoreInv, NEW p \in Proc, Busy(p), Moves(p), used \subseteq used', unlinked \subseteq unlinked'
    PROVE  StackInv'
  <1>1. \A f : FrameInv(f, used, unlinked) => FrameInv(f, used', unlinked')
    BY Zenon, FrameGrows
  <1>2. StackInv
    BY Zenon DEF CoreInv
  <1>3. CASE Return(p) \/ Fail(p)
    BY Zenon, <1>2, <1>3, ReturnInv
  <1>4. ASSUME NEW f, FrameInv(f, used, unlinked), Continue(p, f)
        PROVE  StackInv'
    BY Zenon, <1>1, <1>2, <1>4, ContinueInv
  <1>5. ASSUME NEW f, NEW g, FrameInv(f, used, unlinked), FrameInv(g, used, unlinked), Call(p, f, g)
        PROVE  StackInv'
    BY Zenon, <1>1, <1>2, <1>5, CallInv
  <1> QED
    BY Zenon, <1>3, <1>4, <1>5 DEF Moves

\* A step that leaves the tables alone.
LEMMA QuietStep ==
    ASSUME CoreInv, NEW p \in Proc, Busy(p), Moves(p), Keeps, NoTx
    PROVE  Store!Next /\ StackInv' /\ CacheInv'
  <1>1. Store!Next /\ used \subseteq used' /\ unlinked \subseteq unlinked'
    BY Zenon, NoTxStep
  <1>2. CacheInv
    BY Zenon DEF CoreInv
  <1> QED
    BY Zenon, <1>1, <1>2, MovesStep, CacheStep DEF Keeps

\* A step that commits a transaction.
LEMMA TxStep ==
    ASSUME CoreInv, NEW p \in Proc, Busy(p), Moves(p), UNCHANGED caches,
           used \subseteq used', unlinked \subseteq unlinked'
    PROVE  StackInv' /\ CacheInv'
  <1>1. CacheInv /\ entryCache' = entryCache /\ childCache' = childCache
    BY Zenon DEF CoreInv, caches
  <1> QED
    BY Zenon, <1>1, MovesStep, CacheStep

\* The innermost frame of a process, and what it is about.
LEMMA TopInv ==
    ASSUME CoreInv, NEW p \in Proc, Busy(p)
    PROVE  /\ FrameInv(Top(p), used, unlinked) /\ Top(p) \in FrameRec
           /\ Top(p).at \in used /\ Top(p).at \in Id
           /\ Root \in used /\ used \subseteq Id
  <1>1. FrameInv(Top(p), used, unlinked) /\ Top(p) \in FrameRec /\ Root \in used /\ used \subseteq Id
    <2>1. StackInv /\ TableInv
      BY Zenon DEF CoreInv
    <2>2. stack[p] \in Seq(FrameRec) /\ stack[p] # <<>> /\ 1 \in 1..Len(stack[p])
      BY <2>1 DEF StackInv, Busy
    <2>3. FrameInv(Top(p), used, unlinked)
      BY Zenon, <2>1, <2>2 DEF StackInv, Top
    <2> QED
      BY Zenon, <2>1, <2>3 DEF FrameInv, TableInv
  <1> QED
    BY Zenon, <1>1 DEF FrameInv

\* A frame of an operation on paths that is past the walk has found its paths.
LEMMA FoundInv ==
    ASSUME CoreInv, NEW p \in Proc, Busy(p), Top(p).op \in PathOp,
           Top(p).pc \in {"ready", "tx", "done", "kids", "over", "removed"}
    PROVE  /\ Top(p).found[1].at \in used /\ Top(p).found[1].up \in used
           /\ Top(p).op \in {"remove", "mirror", "move"} => Top(p).found[2].at \in used
           /\ Top(p).op # "stat" => Top(p).name \in Name
           /\ Top(p).op = "move" => Top(p).legs[1] \in Seq(Name) /\ Top(p).legs[1] # <<>>
           /\ Top(p).op \in {"remove", "move"} => Top(p).legs[1] \in Seq(Name) /\ Top(p).legs[2] \in Seq(Name)
           /\ Top(p).flag \in BOOLEAN
  <1> DEFINE f == Top(p)
  <1>1. FrameInv(f, used, unlinked) /\ f \in FrameRec
    BY Zenon, TopInv
  <1> HIDE DEF f
  <1>2. WalkInv(f) \/ OverInv(f)
    BY Zenon, <1>1 DEF FrameInv, IdInv, f
  <1>3. Len(f.found) = Legs(f.op) /\ Len(f.legs) = Legs(f.op) /\ (f.op # "stat" => f.name \in Name)
        /\ (f.op = "move" => f.legs[1] # <<>>)
    BY Zenon, <1>2 DEF WalkInv, OverInv, Legs, WalkPc, f
  <1>4. 1 \in 1..Len(f.found) /\ (f.op \in {"remove", "mirror", "move"} => 2 \in 1..Len(f.found))
    BY <1>3 DEF Legs
  <1>5. f.op \in {"remove", "move"} => f.legs[1] \in Seq(Name) /\ f.legs[2] \in Seq(Name)
    BY <1>1, <1>3 DEF FrameRec, Legs
  <1>6. f.flag \in BOOLEAN
    BY Zenon, <1>1 DEF FrameRec
  <1> QED
    BY Zenon, <1>1, <1>3, <1>4, <1>5, <1>6 DEF FrameInv, f

-----------------------------------------------------------------------------
(* Lookups. *)

\* getEntry answers from the cache.
LEMMA GetCachedStep ==
    ASSUME CoreInv, NEW p \in Proc, GetCached(p)
    PROVE  Store!Next /\ StackInv' /\ CacheInv'
  <1> DEFINE o == entryCache[Top(p).at]
  <1>1. Busy(p) /\ Top(p).pc = "get" /\ o # NoObj /\ GotEntry(p, o) /\ NoTx
        /\ entryCache' = entryCache /\ childCache' = childCache
    BY Zenon DEF GetCached, At, caches
  <1>2. FrameInv(Top(p), used, unlinked) /\ Top(p).at \in Id /\ Root \in used
    BY Zenon, <1>1, TopInv
  <1>3. o \in Reader
    BY Zenon, <1>1, <1>2 DEF CoreInv, CacheInv
  <1> HIDE DEF o
  <1>4. FrameInv(Advance(Top(p), o), used, unlinked)
    BY Zenon, <1>1, <1>2, <1>3, AdvanceInv
  <1>5. Moves(p) /\ Keeps
    BY Zenon, <1>1, <1>4 DEF Moves, Keeps, GotEntry
  <1> QED
    BY Zenon, <1>1, <1>5, QuietStep

\* getEntry reads the row.
LEMMA GetStoredStep ==
    ASSUME CoreInv, NEW p \in Proc, GetStored(p)
    PROVE  Store!Next /\ StackInv' /\ CacheInv'
  <1>1. Busy(p) /\ Top(p).pc = "get" /\ UNCHANGED caches /\ Keeps
    BY Zenon DEF GetStored, At, caches, Keeps
  <1>2. FrameInv(Top(p), used, unlinked) /\ Top(p).at \in used
    BY Zenon, <1>1, TopInv
  <1>3. CASE Fail(p) /\ NoTx
    <2>1. Moves(p)
      BY Zenon, <1>3 DEF Moves
    <2> QED
      BY <1>1, <1>3, <2>1, QuietStep
  <1>4. CASE /\ Free # {} /\ Store!GetEntry(Fresh, Top(p).at)
             /\ Continue(p, [Top(p) EXCEPT !.pc = "set", !.obj = Fresh])
    <2>1. Fresh \in Reader
      BY Zenon, <1>4, FreshIsReader
    <2>2. FrameInv([Top(p) EXCEPT !.pc = "set", !.obj = Fresh], used, unlinked)
      BY Zenon, <1>1, <1>2, <2>1, SetObjInv
    <2>3. Moves(p)
      BY Zenon, <1>4, <2>2 DEF Moves
    <2>4. used' = used /\ unlinked' = unlinked
      BY Zenon, <1>4 DEF Store!GetEntry
    <2>5. Store!Next
      BY Zenon, <1>2, <1>4, <2>1 DEF Store!Next, Store!RowStep
    <2> QED
      BY Zenon, <1>1, <2>3, <2>4, <2>5, TxStep
  <1> QED
    BY Zenon, <1>3, <1>4 DEF GetStored

\* setEntry caches what getEntry or AppendSegments read.
LEMMA SetEntryStep ==
    ASSUME CoreInv, NEW p \in Proc, SetEntry(p)
    PROVE  Store!Next /\ StackInv' /\ CacheInv'
  <1> DEFINE o == Top(p).obj
             e == Top(p).at
  <1>1. Busy(p) /\ Top(p).pc = "set" /\ GotEntry(p, o) /\ NoTx
        /\ entryCache' = [entryCache EXCEPT ![e] = o] /\ childCache' = childCache
    BY Zenon DEF SetEntry, At
  <1>2. FrameInv(Top(p), used, unlinked) /\ e \in Id /\ Root \in used
    BY Zenon, <1>1, TopInv
  <1>3. o \in Reader
    BY Zenon, <1>1, <1>2 DEF FrameInv
  <1>4. FrameInv(Advance(Top(p), o), used, unlinked)
    BY Zenon, <1>1, <1>2, <1>3, AdvanceInv
  <1> HIDE DEF o, e
  <1>5. Moves(p)
    BY Zenon, <1>1, <1>4 DEF Moves, GotEntry
  <1>6. Store!Next /\ used' = used /\ unlinked' = unlinked
    BY Zenon, <1>1, NoTxStep
  <1>7. StackInv'
    BY Zenon, <1>1, <1>5, <1>6, MovesStep
  <1>8. CacheInv'
    BY Zenon, <1>1, <1>2, <1>3, <1>6 DEF CoreInv, CacheInv
  <1> QED
    BY Zenon, <1>6, <1>7, <1>8

\* FindEntry answers from the cache, or reads the children table.
LEMMA FindStep ==
    ASSUME CoreInv, NEW p \in Proc, FindCached(p) \/ FindStored(p)
    PROVE  Store!Next /\ StackInv' /\ CacheInv'
  <1>1. Busy(p) /\ Top(p).pc = "find" /\ NoTx /\ Keeps
    BY Zenon DEF FindCached, FindStored, At, caches, Keeps
  <1>2. FrameInv(Top(p), used, unlinked)
    BY Zenon, <1>1, TopInv
  <1>3. /\ \A r \in NextNameIn(childCache, Top(p)) : r \in Store!ChildRow /\ r.child \in used /\ r.child \in Id
        /\ \A r \in NextNameIn(children, Top(p)) : r \in Store!ChildRow /\ r.child \in used /\ r.child \in Id
    BY Zenon DEF CoreInv, CacheInv, TableInv, NextNameIn
  <1>4. ASSUME NEW r \in NextNameIn(childCache, Top(p)), Continue(p, Descend(Top(p), r))
        PROVE  Moves(p)
    <2>1. FrameInv(Descend(Top(p), r), used, unlinked)
      BY Zenon, <1>1, <1>2, <1>3, DescendInv
    <2> QED
      BY Zenon, <1>4, <2>1 DEF Moves
  <1>5. ASSUME NEW r \in NextNameIn(children, Top(p)),
               Continue(p, [Top(p) EXCEPT !.pc = "setChild", !.kids = {r}])
        PROVE  Moves(p)
    <2>1. FrameInv([Top(p) EXCEPT !.pc = "setChild", !.kids = {r}], used, unlinked)
      BY Zenon, <1>1, <1>2, <1>3, SetChildFrameInv
    <2> QED
      BY Zenon, <1>5, <2>1 DEF Moves
  <1>6. Fail(p) => Moves(p)
    BY Zenon DEF Moves
  <1>7. Moves(p)
    BY Zenon, <1>4, <1>5, <1>6 DEF FindCached, FindStored
  <1> QED
    BY Zenon, <1>1, <1>7, QuietStep

\* setChild caches the row FindEntry read.
LEMMA SetChildStep ==
    ASSUME CoreInv, NEW p \in Proc, SetChild(p)
    PROVE  Store!Next /\ StackInv' /\ CacheInv'
  <1>1. Busy(p) /\ Top(p).pc = "setChild" /\ NoTx /\ entryCache' = entryCache
    BY Zenon DEF SetChild, At
  <1>2. FrameInv(Top(p), used, unlinked) /\ used \subseteq Id
    BY Zenon, <1>1, TopInv
  <1>3. PICK r \in Top(p).kids : /\ childCache' = InvalidChild(r.parent, r.name) \cup {r}
                                 /\ Continue(p, Descend(Top(p), r))
    BY Zenon DEF SetChild
  <1>4. r \in Store!ChildRow /\ r.child \in used /\ r.child \in Id
    BY Zenon, <1>1, <1>2 DEF FrameInv
  <1>5. FrameInv(Descend(Top(p), r), used, unlinked)
    BY Zenon, <1>1, <1>2, <1>4, DescendInv
  <1>6. Moves(p)
    BY Zenon, <1>3, <1>5 DEF Moves
  <1>7. Store!Next /\ used' = used /\ unlinked' = unlinked
    BY Zenon, <1>1, NoTxStep
  <1>8. StackInv'
    BY Zenon, <1>1, <1>6, <1>7, MovesStep
  <1>9. CacheInv'
    BY Zenon, <1>1, <1>3, <1>4, <1>7 DEF CoreInv, CacheInv, InvalidChild
  <1> QED
    BY Zenon, <1>7, <1>8, <1>9

-----------------------------------------------------------------------------
(* Operations on paths. *)

\* Checks before a transaction end the operation or lead to the transaction.
LEMMA CheckStep ==
    ASSUME CoreInv, NEW p \in Proc, CreateCheck(p) \/ MirrorCheck(p)
    PROVE  Store!Next /\ StackInv' /\ CacheInv'
  <1>1. Busy(p) /\ Top(p).pc = "ready" /\ Top(p).op # "update" /\ NoTx /\ Keeps /\ (Fail(p) \/ Goto(p, "tx"))
    BY Zenon DEF CreateCheck, MirrorCheck, Runs, At, caches, Keeps
  <1>2. FrameInv([Top(p) EXCEPT !.pc = "tx"], used, unlinked)
    BY Zenon, <1>1, TopInv, GotoInv
  <1>3. Moves(p)
    BY Zenon, <1>1, <1>2 DEF Moves, Goto
  <1> QED
    BY Zenon, <1>1, <1>3, QuietStep

\* A transaction that fails, an operation that returns, and slots it drops.
LEMMA ReturnStep ==
    ASSUME CoreInv, NEW p \in Proc,
           \/ TxFails(p) \/ Stat(p) \/ LastGet(p) \/ CreateDone(p) \/ RemoveDone(p)
           \/ MoveDone(p) \/ OpenDone(p) \/ CleanDone(p)
    PROVE  Store!Next /\ StackInv' /\ CacheInv'
  <1>1. \A a, b : InvalidChild(a, b) \subseteq childCache
    BY Zenon DEF InvalidChild
  <1>2. Busy(p) /\ NoTx /\ (Return(p) \/ Fail(p))
    BY Zenon DEF TxFails, Stat, LastGet, CreateDone, RemoveDone, MoveDone, OpenDone, CleanDone, Runs, At
  <1>3. entryCache' = entryCache \/ \E S : entryCache' = Invalid(S)
    BY Zenon DEF TxFails, Stat, LastGet, CreateDone, RemoveDone, MoveDone, OpenDone, CleanDone, caches
  <1>4. childCache' = childCache \/ \E a, b : childCache' = InvalidChild(a, b)
    BY Zenon DEF TxFails, Stat, LastGet, CreateDone, RemoveDone, MoveDone, OpenDone, CleanDone, caches
  <1>5. Moves(p) /\ Keeps
    BY Zenon, <1>1, <1>2, <1>3, <1>4 DEF Moves, Keeps
  <1> QED
    BY Zenon, <1>2, <1>5, QuietStep

\* The transaction of CreateEntry.
LEMMA CreateTxStep ==
    ASSUME CoreInv, NEW p \in Proc, CreateTx(p)
    PROVE  Store!Next /\ StackInv' /\ CacheInv'
  <1>1. Busy(p) /\ Top(p).pc = "tx" /\ Top(p).op = "create" /\ UNCHANGED caches /\ Goto(p, "done")
    BY Zenon DEF CreateTx, Runs, At
  <1>2. PICK e \in Id : Store!CreateEntry(Top(p).found[1].at, e, Top(p).name, Top(p).flag)
    BY Zenon DEF CreateTx
  <1>3. Top(p).found[1].at \in used /\ Top(p).name \in Name /\ Top(p).flag \in BOOLEAN
    BY Zenon, <1>1, FoundInv DEF PathOp
  <1>4. Store!Next
    BY Zenon, <1>2, <1>3 DEF Store!Next, Store!TreeStep
  <1>5. used \subseteq used' /\ unlinked \subseteq unlinked'
    BY Zenon, <1>2 DEF Store!CreateEntry
  <1>6. FrameInv([Top(p) EXCEPT !.pc = "done"], used, unlinked)
    BY Zenon, <1>1, TopInv, GotoInv
  <1>7. Moves(p)
    BY Zenon, <1>1, <1>6 DEF Moves, Goto
  <1> QED
    BY Zenon, <1>1, <1>4, <1>5, <1>7, TxStep

\* RemoveEntry lists the children.
LEMMA RemoveListStep ==
    ASSUME CoreInv, NEW p \in Proc, RemoveList(p)
    PROVE  Store!Next /\ StackInv' /\ CacheInv'
  <1> DEFINE e    == Top(p).found[1].at
             kids == IF entry[e].isGroup THEN {r.name : r \in Store!ChildrenOf(e)} ELSE {}
             pc   == IF kids = {} THEN "tx" ELSE "kids"
  <1>1. Busy(p) /\ Top(p).pc = "ready" /\ Top(p).op = "remove" /\ NoTx /\ Keeps
        /\ (Fail(p) \/ Continue(p, [Top(p) EXCEPT !.pc = pc, !.kids = kids]))
    BY Zenon DEF RemoveList, Runs, At, caches, Keeps
  <1>2. kids \in SUBSET Name
    <2>1. \A r \in children : r.name \in Name
      BY Zenon DEF CoreInv, TableInv, Store!ChildRow
    <2> QED
      BY Zenon, <2>1 DEF Store!ChildrenOf
  <1> HIDE DEF kids
  <1>3. pc \in {"tx", "kids"}
    BY Zenon
  <1> HIDE DEF pc
  <1>4. FrameInv([Top(p) EXCEPT !.pc = pc, !.kids = kids], used, unlinked)
    BY Zenon, <1>1, <1>2, <1>3, TopInv, KidsInv
  <1>5. Moves(p)
    BY Zenon, <1>1, <1>4 DEF Moves
  <1> QED
    BY Zenon, <1>1, <1>5, QuietStep

\* RemoveEntry removes a child by its path.
LEMMA RemoveKidStep ==
    ASSUME CoreInv, NEW p \in Proc, RemoveKid(p)
    PROVE  Store!Next /\ StackInv' /\ CacheInv'
  <1>1. Busy(p) /\ Top(p).pc = "kids" /\ Top(p).op = "remove" /\ NoTx /\ Keeps
    BY Zenon DEF RemoveKid, Runs, At, caches, Keeps
  <1>2. PICK n \in Top(p).kids :
          LET rest == Top(p).kids \ {n}
          IN  Call(p, [Top(p) EXCEPT !.kids = rest, !.pc = IF rest = {} THEN "tx" ELSE "kids"],
                      RemoveFrame(Append(Top(p).legs[1], n), TRUE))
    BY Zenon DEF RemoveKid
  <1> DEFINE rest == Top(p).kids \ {n}
             pc   == IF rest = {} THEN "tx" ELSE "kids"
             f    == [Top(p) EXCEPT !.kids = rest, !.pc = pc]
             g    == RemoveFrame(Append(Top(p).legs[1], n), TRUE)
  <1>3. FrameInv(Top(p), used, unlinked) /\ Root \in used
    BY Zenon, <1>1, TopInv
  <1>4. n \in Name /\ rest \in SUBSET Name /\ pc \in {"tx", "kids"}
    BY Zenon, <1>1, <1>3 DEF FrameInv
  <1>5. Top(p).legs[1] \in Seq(Name)
    BY Zenon, <1>1, FoundInv DEF PathOp
  <1>6. Append(Top(p).legs[1], n) \in Seq(Name) /\ Append(Top(p).legs[1], n) # <<>>
    BY Zenon, <1>4, <1>5, AppendPath
  <1>7. FrameInv(g, used, unlinked)
    BY Zenon, <1>3, <1>6, RemoveFrameInv
  <1>8. Call(p, f, g)
    BY Zenon, <1>2
  <1> HIDE DEF rest, pc, g
  <1>9. f = [Top(p) EXCEPT !.pc = pc, !.kids = rest]
    BY Zenon
  <1> HIDE DEF f
  <1>10. FrameInv(f, used, unlinked)
    <2>1. FrameInv([Top(p) EXCEPT !.pc = pc, !.kids = rest], used, unlinked)
      BY Zenon, <1>1, <1>3, <1>4, KidsInv
    <2> QED
      BY Zenon, <1>9, <2>1
  <1>11. Moves(p)
    BY Zenon, <1>7, <1>8, <1>10 DEF Moves
  <1> QED
    BY Zenon, <1>1, <1>11, QuietStep

\* The transactions of RemoveEntry, MirrorEntry and ChangeEntryParent.
LEMMA TreeTxStep ==
    ASSUME CoreInv, NEW p \in Proc, RemoveTx(p) \/ MirrorTx(p) \/ MoveTx(p)
    PROVE  Store!Next /\ StackInv' /\ CacheInv'
  <1>1. Busy(p) /\ Top(p).pc = "tx" /\ Top(p).op \in {"remove", "mirror", "move"} /\ UNCHANGED caches /\ Goto(p, "done")
    BY Zenon DEF RemoveTx, MirrorTx, MoveTx, Runs, At
  <1>2. Top(p).found[1].at \in used /\ Top(p).found[2].at \in used /\ Top(p).found[1].up \in used /\ Top(p).name \in Name
    BY Zenon, <1>1, FoundInv DEF PathOp
  <1>3. ASSUME RemoveTx(p)
        PROVE  Store!Next /\ used \subseteq used' /\ unlinked \subseteq unlinked'
    <2>1. Store!RemoveEntry(Top(p).found[2].at, Top(p).found[1].at, Top(p).name)
      BY Zenon, <1>3 DEF RemoveTx
    <2>2. Store!Next
      BY Zenon, <1>2, <2>1 DEF Store!Next, Store!TreeStep
    <2>3. used \subseteq used' /\ unlinked \subseteq unlinked'
      BY Zenon, <2>1 DEF Store!RemoveEntry
    <2> QED
      BY Zenon, <2>2, <2>3
  <1>4. ASSUME MirrorTx(p)
        PROVE  Store!Next /\ used \subseteq used' /\ unlinked \subseteq unlinked'
    <2>1. Store!MirrorEntry(Top(p).found[1].at, Top(p).found[2].at, Top(p).name)
      BY Zenon, <1>4 DEF MirrorTx
    <2>2. Store!Next
      BY Zenon, <1>2, <2>1 DEF Store!Next, Store!TreeStep
    <2>3. used \subseteq used' /\ unlinked \subseteq unlinked'
      BY <2>1 DEF Store!MirrorEntry
    <2> QED
      BY Zenon, <2>2, <2>3
  <1>5. ASSUME MoveTx(p)
        PROVE  Store!Next /\ used \subseteq used' /\ unlinked \subseteq unlinked'
    <2>1. Store!ChangeEntryParent(Top(p).found[1].at, Top(p).found[1].up, Top(p).found[2].at,
                                  Base(Top(p).legs[1]), Top(p).name)
      BY Zenon, <1>5 DEF MoveTx
    <2>2. Top(p).legs[1] \in Seq(Name) /\ Top(p).legs[1] # <<>>
      BY Zenon, <1>1, <1>5, FoundInv DEF PathOp, MoveTx, Runs
    <2>3. Base(Top(p).legs[1]) \in Name
      BY <2>2 DEF Base
    <2>4. Store!Next
      BY Zenon, <1>2, <2>1, <2>3 DEF Store!Next, Store!TreeStep
    <2>5. used \subseteq used' /\ unlinked \subseteq unlinked'
      BY Zenon, <2>1 DEF Store!ChangeEntryParent
    <2> QED
      BY Zenon, <2>4, <2>5
  <1>6. Store!Next /\ used \subseteq used' /\ unlinked \subseteq unlinked'
    BY Zenon, <1>3, <1>4, <1>5
  <1>7. FrameInv([Top(p) EXCEPT !.pc = "done"], used, unlinked)
    BY Zenon, <1>1, TopInv, GotoInv
  <1>8. Moves(p)
    BY Zenon, <1>1, <1>7 DEF Moves, Goto
  <1> QED
    BY Zenon, <1>1, <1>6, <1>8, TxStep

\* MirrorEntry and UpdateEntry end with a lookup.
LEMMA LastGetStep ==
    ASSUME CoreInv, NEW p \in Proc, MirrorDone(p) \/ UpdateDone(p)
    PROVE  Store!Next /\ StackInv' /\ CacheInv'
  <1>1. Busy(p) /\ Top(p).pc = "done" /\ NoTx /\ childCache' = childCache /\ \E S : entryCache' = Invalid(S)
    BY Zenon DEF MirrorDone, UpdateDone, Runs, At
  <1>2. used \subseteq Id /\ Top(p).at \in used /\ (MirrorDone(p) => Top(p).found[1].at \in used)
    BY Zenon, <1>1, TopInv, FoundInv DEF PathOp, MirrorDone, Runs
  <1>3. CASE MirrorDone(p)
    <2>1. FrameInv(IdFrame("mirror", "get", "end", Top(p).found[1].at, FALSE), used, unlinked)
      BY Zenon, <1>2, <1>3, IdFrameInv DEF PathOp
    <2> QED
      BY Zenon, <1>1, <1>3, <2>1, QuietStep DEF Moves, Keeps, MirrorDone
  <1>4. CASE UpdateDone(p)
    <2>1. FrameInv(IdFrame("update", "get", "end", Top(p).at, FALSE), used, unlinked)
      BY Zenon, <1>2, IdFrameInv DEF PathOp
    <2> QED
      BY Zenon, <1>1, <1>4, <2>1, QuietStep DEF Moves, Keeps, UpdateDone
  <1> QED
    BY Zenon, <1>3, <1>4

\* ChangeEntryParent looks for an entry in the way.
LEMMA MoveCheckStep ==
    ASSUME CoreInv, NEW p \in Proc, MoveCheck(p)
    PROVE  Store!Next /\ StackInv' /\ CacheInv'
  <1> DEFINE taken == Store!FindEntry(Top(p).found[2].at, Top(p).name)
  <1>1. /\ Busy(p) /\ Top(p).pc = "ready" /\ Top(p).op = "move" /\ NoTx /\ Keeps
        /\ \/ Fail(p) \/ Goto(p, "tx")
           \/ \E r \in taken : Continue(p, [Top(p) EXCEPT !.pc = "get", !.then = "over", !.at = r.child])
    BY Zenon DEF MoveCheck, Runs, At, caches, Keeps
  <1>2. \A r \in taken : r.child \in used /\ r.child \in Id
    BY Zenon DEF CoreInv, TableInv, Store!FindEntry
  <1> HIDE DEF taken
  <1>3. FrameInv(Top(p), used, unlinked)
    BY Zenon, <1>1, TopInv
  <1>4. FrameInv([Top(p) EXCEPT !.pc = "tx"], used, unlinked)
    BY Zenon, <1>1, <1>3, GotoInv
  <1>5. \A r \in taken : FrameInv([Top(p) EXCEPT !.pc = "get", !.then = "over", !.at = r.child], used, unlinked)
    BY Zenon, <1>1, <1>2, <1>3, OverFrameInv
  <1>6. Moves(p)
    BY Zenon, <1>1, <1>4, <1>5 DEF Moves, Goto
  <1> QED
    BY Zenon, <1>1, <1>6, QuietStep

\* ChangeEntryParent lists the entry in the way, or removes it.
LEMMA MoveOverStep ==
    ASSUME CoreInv, NEW p \in Proc, MoveOver(p)
    PROVE  Store!Next /\ StackInv' /\ CacheInv'
  <1> DEFINE e    == Top(p).at
             kids == IF entry[e].isGroup THEN {r.child : r \in Store!ChildrenOf(e)} ELSE {}
             list == [IdFrame("list", "listed", "listed", e, FALSE) EXCEPT !.kids = kids]
             f    == [Top(p) EXCEPT !.pc = "removed", !.obj = NoObj]
             g    == RemoveFrame(Append(Top(p).legs[2], Top(p).name), FALSE)
  <1>1. /\ Busy(p) /\ Top(p).pc = "over" /\ Top(p).op = "move" /\ NoTx /\ Keeps
        /\ Continue(p, list) \/ Fail(p) \/ Call(p, f, g)
    BY Zenon DEF MoveOver, Runs, At, caches, Keeps
  <1>2. FrameInv(Top(p), used, unlinked) /\ e \in used /\ used \subseteq Id /\ Root \in used
    BY Zenon, <1>1, TopInv
  <1>3. kids \in SUBSET used
    <2>1. \A r \in children : r.child \in used
      BY Zenon DEF CoreInv, TableInv
    <2> QED
      BY Zenon, <2>1 DEF Store!ChildrenOf
  <1>4. FrameInv(list, used, unlinked)
    <2> HIDE DEF e, kids
    <2> QED
      BY Zenon, <1>2, <1>3, NewListInv
  <1>5. FrameInv(f, used, unlinked)
    BY Zenon, <1>1, <1>2, RemovedFrameInv
  <1>6. Top(p).legs[2] \in Seq(Name) /\ Top(p).name \in Name
    BY Zenon, <1>1, FoundInv DEF PathOp
  <1>7. Append(Top(p).legs[2], Top(p).name) \in Seq(Name) /\ Append(Top(p).legs[2], Top(p).name) # <<>>
    BY Zenon, <1>6, AppendPath
  <1>8. FrameInv(g, used, unlinked)
    BY Zenon, <1>2, <1>7, RemoveFrameInv
  <1> HIDE DEF list, f, g
  <1>9. Moves(p)
    BY Zenon, <1>1, <1>4, <1>5, <1>8 DEF Moves
  <1> QED
    BY Zenon, <1>1, <1>9, QuietStep

\* ListChildren looks the next child up.
LEMMA ListNextStep ==
    ASSUME CoreInv, NEW p \in Proc, ListNext(p)
    PROVE  Store!Next /\ StackInv' /\ CacheInv'
  <1>1. Busy(p) /\ Top(p).op = "list" /\ NoTx /\ Keeps
    BY Zenon DEF ListNext, Runs, At, caches, Keeps
  <1>2. FrameInv(Top(p), used, unlinked) /\ used \subseteq Id
    BY Zenon, <1>1, TopInv
  <1>3. \A c \in Top(p).kids : c \in Id
    BY Zenon, <1>1, <1>2 DEF FrameInv
  <1>4. \A c \in Top(p).kids :
          FrameInv([Top(p) EXCEPT !.pc = "get", !.at = c, !.kids = @ \ {c}, !.obj = NoObj], used, unlinked)
    BY Zenon, <1>1, <1>2, <1>3, ListFrameInv
  <1>5. Moves(p)
    BY Zenon, <1>4 DEF Moves, ListNext
  <1> QED
    BY Zenon, <1>1, <1>5, QuietStep

\* ChangeEntryParent goes on when the entry in the way is gone.
LEMMA MoveRemovedStep ==
    ASSUME CoreInv, NEW p \in Proc, MoveRemoved(p)
    PROVE  Store!Next /\ StackInv' /\ CacheInv'
  <1>1. Busy(p) /\ Top(p).pc = "removed" /\ Top(p).op = "move" /\ NoTx /\ Goto(p, "tx")
    BY Zenon DEF MoveRemoved, Runs, At
  <1>2. Keeps
    BY Zenon DEF MoveRemoved, Keeps, InvalidChild
  <1>3. FrameInv([Top(p) EXCEPT !.pc = "tx"], used, unlinked)
    BY Zenon, <1>1, TopInv, GotoInv
  <1>4. Moves(p)
    BY Zenon, <1>1, <1>3 DEF Moves, Goto
  <1> QED
    BY Zenon, <1>1, <1>2, <1>4, QuietStep

-----------------------------------------------------------------------------
(* Operations on ids. *)

\* The transaction of UpdateEntry writes the object the lookup returned.
LEMMA UpdateTxStep ==
    ASSUME CoreInv, NEW p \in Proc, UpdateTx(p)
    PROVE  Store!Next /\ StackInv' /\ CacheInv'
  <1>1. Busy(p) /\ Top(p).pc = "tx" /\ Top(p).op = "update" /\ UNCHANGED caches /\ (Fail(p) \/ Goto(p, "done"))
    BY Zenon DEF UpdateTx, Runs, At
  <1>2. FrameInv(Top(p), used, unlinked)
    BY Zenon, <1>1, TopInv
  <1>3. Top(p).obj \in Reader
    BY Zenon, <1>1, <1>2 DEF FrameInv
  <1>4. PICK s \in 0..MaxSize : Store!UpdateEntry(Top(p).obj, s)
    BY Zenon DEF UpdateTx
  <1>5. Store!Next
    BY Zenon, <1>3, <1>4 DEF Store!Next, Store!RowStep
  <1>6. used \subseteq used' /\ unlinked \subseteq unlinked'
    BY Zenon, <1>4 DEF Store!UpdateEntry
  <1>7. FrameInv([Top(p) EXCEPT !.pc = "done"], used, unlinked)
    BY <1>1, <1>2, GotoInv
  <1>8. Moves(p)
    BY Zenon, <1>1, <1>7 DEF Moves, Goto
  <1> QED
    BY <1>1, <1>5, <1>6, <1>8, TxStep

\* The transactions of Open, symlink.Flush and DestroyEntry.
LEMMA RowTxStep ==
    ASSUME CoreInv, NEW p \in Proc, OpenTx(p) \/ FlushTx(p) \/ CleanTx(p)
    PROVE  Store!Next /\ StackInv' /\ CacheInv'
  <1>1. Busy(p) /\ Top(p).pc = "tx" /\ UNCHANGED caches
    BY Zenon DEF OpenTx, FlushTx, CleanTx, Runs, At
  <1>2. FrameInv(Top(p), used, unlinked) /\ Top(p).at \in used /\ Top(p).flag \in BOOLEAN
    BY Zenon, <1>1, TopInv DEF FrameRec
  <1>3. ASSUME OpenTx(p)
        PROVE  Store!Next /\ used' = used /\ unlinked' = unlinked /\ Moves(p)
    <2> DEFINE pc == IF Top(p).flag THEN "get" ELSE "done"
    <2>1. Store!Open(Top(p).at, Top(p).flag) /\ Goto(p, pc) /\ Top(p).op = "open"
      BY Zenon, <1>3 DEF OpenTx, Runs
    <2>2. pc \in {"get", "done"}
      BY Zenon
    <2> HIDE DEF pc
    <2>3. FrameInv([Top(p) EXCEPT !.pc = pc], used, unlinked)
      BY <1>1, <1>2, <2>1, <2>2, GotoInv
    <2>4. Store!Next
      BY Zenon, <1>2, <2>1 DEF Store!Next, Store!RowStep
    <2>5. used' = used /\ unlinked' = unlinked
      BY Zenon, <2>1 DEF Store!Open
    <2>6. Moves(p)
      BY Zenon, <2>1, <2>3 DEF Moves, Goto
    <2> QED
      BY Zenon, <2>4, <2>5, <2>6
  <1>4. ASSUME FlushTx(p)
        PROVE  Store!Next /\ used' = used /\ unlinked' = unlinked /\ Moves(p)
    <2>1. PICK s \in 0..MaxSize : Store!Flush(Top(p).at, s)
      BY Zenon, <1>4 DEF FlushTx
    <2>2. Store!Next
      BY Zenon, <1>2, <2>1 DEF Store!Next, Store!RowStep
    <2>3. used' = used /\ unlinked' = unlinked
      BY Zenon, <2>1 DEF Store!Flush
    <2>4. Moves(p)
      BY Zenon, <1>4 DEF Moves, FlushTx
    <2> QED
      BY Zenon, <2>2, <2>3, <2>4
  <1>5. ASSUME CleanTx(p)
        PROVE  Store!Next /\ used' = used /\ unlinked' = unlinked /\ Moves(p)
    <2>1. Store!DeleteRemovedEntry(Top(p).at) /\ Goto(p, "done") /\ Top(p).op = "clean"
      BY Zenon, <1>5 DEF CleanTx, Runs
    <2>2. Top(p).at \in unlinked
      BY Zenon, <1>2, <2>1 DEF FrameInv
    <2>3. Store!Next
      BY Zenon, <2>1, <2>2 DEF Store!Next, Store!TreeStep
    <2>4. used' = used /\ unlinked' = unlinked
      BY Zenon, <2>1 DEF Store!DeleteRemovedEntry
    <2>5. FrameInv([Top(p) EXCEPT !.pc = "done"], used, unlinked)
      BY Zenon, <1>1, <1>2, <2>1, GotoInv
    <2>6. Moves(p)
      BY Zenon, <2>1, <2>5 DEF Moves, Goto
    <2> QED
      BY Zenon, <2>3, <2>4, <2>6
  <1>6. Store!Next /\ used \subseteq used' /\ unlinked \subseteq unlinked' /\ Moves(p)
    BY Zenon, <1>3, <1>4, <1>5
  <1> QED
    BY Zenon, <1>1, <1>6, TxStep

\* The transaction of AppendSegments hands the row back.
LEMMA AppendTxStep ==
    ASSUME CoreInv, NEW p \in Proc, AppendTx(p)
    PROVE  Store!Next /\ StackInv' /\ CacheInv'
  <1>1. Busy(p) /\ Top(p).pc = "tx" /\ Top(p).op = "append" /\ UNCHANGED caches /\ Free # {}
        /\ Continue(p, [Top(p) EXCEPT !.pc = "set", !.obj = Fresh])
    BY Zenon DEF AppendTx, Runs, At
  <1>2. FrameInv(Top(p), used, unlinked) /\ Top(p).at \in used
    BY Zenon, <1>1, TopInv
  <1>3. Fresh \in Reader
    BY Zenon, <1>1, FreshIsReader
  <1>4. PICK s \in 0..MaxSize : Store!AppendSegments(Fresh, Top(p).at, s)
    BY Zenon DEF AppendTx
  <1>5. Store!Next
    BY Zenon, <1>2, <1>3, <1>4 DEF Store!Next, Store!RowStep
  <1>6. used \subseteq used' /\ unlinked \subseteq unlinked'
    BY Zenon, <1>4 DEF Store!AppendSegments
  <1>7. FrameInv([Top(p) EXCEPT !.pc = "set", !.obj = Fresh], used, unlinked)
    BY Zenon, <1>1, <1>2, <1>3, SetObjInv
  <1>8. Moves(p)
    BY Zenon, <1>1, <1>7 DEF Moves
  <1> QED
    BY Zenon, <1>1, <1>5, <1>6, <1>8, TxStep

\* A request is accepted.
LEMMA BeginStep ==
    ASSUME CoreInv, NEW p \in Proc, Begin(p)
    PROVE  Store!Next /\ StackInv' /\ CacheInv'
  <1>1. PICK f \in Requests : stack' = [stack EXCEPT ![p] = <<f>>]
    BY Zenon DEF Begin
  <1>2. NoTx /\ entryCache' = entryCache /\ childCache' = childCache
    BY Zenon DEF Begin, caches
  <1>3. Store!Next /\ used' = used /\ unlinked' = unlinked
    BY Zenon, <1>2, NoTxStep
  <1>4. FrameInv(f, used, unlinked) /\ f \in FrameRec
    BY Zenon, RequestInv DEF CoreInv, FrameInv
  <1>5. <<f>> \in Seq(FrameRec) /\ \A i \in 1..Len(<<f>>) : <<f>>[i] = f
    BY <1>4
  <1>6. StackInv'
    BY Zenon, <1>1, <1>3, <1>4, <1>5, StackStep DEF CoreInv
  <1>7. CacheInv'
    BY Zenon, <1>2, <1>3, CacheStep DEF CoreInv
  <1> QED
    BY Zenon, <1>3, <1>6, <1>7

\* A cache slot expires.
LEMMA EvictStep ==
    ASSUME CoreInv, Evict
    PROVE  Store!Next /\ StackInv' /\ CacheInv'
  <1>1. NoTx /\ stack' = stack /\ (entryCache' = entryCache \/ \E S : entryCache' = Invalid(S))
        /\ childCache' \subseteq childCache
    BY Zenon DEF Evict
  <1>2. Store!Next /\ used' = used /\ unlinked' = unlinked
    BY Zenon, <1>1, NoTxStep
  <1>3. StackInv'
    BY Zenon, <1>1, <1>2 DEF CoreInv, StackInv
  <1>4. CacheInv'
    BY Zenon, <1>1, <1>2, CacheStep DEF CoreInv
  <1> QED
    BY Zenon, <1>2, <1>3, <1>4

\* Every step of the core is a step of the tables and keeps frames and caches fit.
LEMMA CoreStep ==
    ASSUME CoreInv, Next
    PROVE  (Store!Next \/ UNCHANGED Store!vars) /\ StackInv' /\ CacheInv'
  <1>1. ASSUME NEW p \in Proc, Begin(p) \/ Walk(p) \/ TreeOp(p) \/ RowOp(p)
        PROVE  Store!Next /\ StackInv' /\ CacheInv'
    BY Zenon, <1>1, BeginStep, GetCachedStep, GetStoredStep, SetEntryStep, FindStep, SetChildStep, CheckStep,
       ReturnStep, CreateTxStep, RemoveListStep, RemoveKidStep, TreeTxStep, LastGetStep, MoveCheckStep,
       MoveOverStep, ListNextStep, MoveRemovedStep, UpdateTxStep, RowTxStep, AppendTxStep DEF Walk, TreeOp, RowOp
  <1>2. CASE Evict
    BY Zenon, <1>2, EvictStep
  <1>3. CASE Finished
    BY Zenon, <1>3 DEF Finished, vars, Store!vars, CoreInv, StackInv, CacheInv
  <1> QED
    BY Zenon, <1>1, <1>2, <1>3 DEF Next

-----------------------------------------------------------------------------
(* The tables. *)

\* What the steps need to know of the tables is kept by every transaction: ids
\* are never taken back, and every children row names an allocated one.
LEMMA TableStep ==
    ASSUME TableInv, Store!Next
    PROVE  TableInv'
  <1>1. /\ Root \in used /\ used \subseteq Id /\ rows \subseteq used /\ unlinked \subseteq used
        /\ children \subseteq {r \in Store!ChildRow : r.child \in used}
    BY Zenon DEF TableInv
  <1>2. ASSUME UNCHANGED <<rows, used, children, unlinked>>
        PROVE  TableInv'
    BY Zenon, <1>1, <1>2 DEF TableInv
  <1>3. CASE Store!RowStep
    BY Zenon, <1>2, <1>3 DEF Store!RowStep, Store!Drop, Store!Open, Store!Flush, Store!AppendSegments,
       Store!GetEntry, Store!UpdateEntry
  <1>4. ASSUME NEW p \in used, NEW e \in Id, NEW n \in Name, NEW g, Store!CreateEntry(p, e, n, g)
        PROVE  TableInv'
    <2>1. /\ rows' = rows \cup {e} /\ used' = used \cup {e} /\ unlinked' = unlinked
          /\ children' = children \cup {[parent |-> p, name |-> n, child |-> e]}
      BY Zenon, <1>4 DEF Store!CreateEntry
    <2>2. [parent |-> p, name |-> n, child |-> e] \in Store!ChildRow
      BY Zenon, <1>1 DEF Store!ChildRow
    <2> QED
      BY <1>1, <2>1, <2>2 DEF TableInv
  <1>5. ASSUME NEW p \in used, NEW e \in used, NEW n \in Name, Store!RemoveEntry(p, e, n)
        PROVE  TableInv'
    <2>1. rows' = rows /\ used' = used /\ unlinked' = unlinked \cup {e} /\ children' \subseteq children
      BY Zenon, <1>5 DEF Store!RemoveEntry
    <2> QED
      BY Zenon, <1>1, <2>1 DEF TableInv
  <1>6. ASSUME NEW e \in unlinked, Store!DeleteRemovedEntry(e)
        PROVE  TableInv'
    <2>1. rows' = rows \ {e} /\ used' = used /\ unlinked' = unlinked /\ children' = children
      BY Zenon, <1>6 DEF Store!DeleteRemovedEntry
    <2> QED
      BY Zenon, <1>1, <2>1 DEF TableInv
  <1>7. ASSUME NEW e \in used, NEW p \in used, NEW n \in Name, Store!MirrorEntry(e, p, n)
        PROVE  TableInv'
    <2>1. /\ rows' = rows /\ used' = used /\ unlinked' = unlinked
          /\ children' = children \cup {[parent |-> p, name |-> n, child |-> e]}
      BY Zenon, <1>7 DEF Store!MirrorEntry
    <2>2. [parent |-> p, name |-> n, child |-> e] \in Store!ChildRow
      BY Zenon, <1>1 DEF Store!ChildRow
    <2> QED
      BY <1>1, <2>1, <2>2 DEF TableInv
  <1>8. ASSUME NEW e \in used, NEW op \in used, NEW np \in used, NEW on \in Name, NEW nn \in Name,
               Store!ChangeEntryParent(e, op, np, on, nn)
        PROVE  TableInv'
    <2>1. /\ rows' = rows /\ used' = used /\ unlinked' = unlinked
          /\ \/ children' = children
             \/ children' = (children \ {[parent |-> op, name |-> on, child |-> e]})
                              \cup {[parent |-> np, name |-> nn, child |-> e]}
      BY Zenon, <1>8 DEF Store!ChangeEntryParent
    <2>2. [parent |-> np, name |-> nn, child |-> e] \in Store!ChildRow
      BY Zenon, <1>1 DEF Store!ChildRow
    <2> QED
      BY <1>1, <2>1, <2>2 DEF TableInv
  <1>9. CASE Store!TreeStep
    BY Zenon, <1>4, <1>5, <1>6, <1>7, <1>8, <1>9 DEF Store!TreeStep
  <1> QED
    BY Zenon, <1>3, <1>9 DEF Store!Next

\* In the initial state there is only the root, and nothing is going on.
LEMMA InitInv == Init => CoreInv
  <1> SUFFICES ASSUME Init PROVE CoreInv
    BY Zenon
  <1>1. TableInv
    BY Zenon, CoreAssumption DEF Init, Store!Init, TableInv
  <1>2. StackInv
    <2>1. <<>> \in Seq(FrameRec) /\ Len(<<>>) = 0
      OBVIOUS
    <2>2. \A p \in Proc : stack[p] = <<>>
      BY Zenon DEF Init
    <2>3. stack \in [Proc -> Seq(FrameRec)]
      BY Zenon, <2>1 DEF Init
    <2> QED
      BY <2>1, <2>2, <2>3 DEF StackInv
  <1>3. CacheInv
    BY Zenon DEF Init, CacheInv
  <1> QED
    BY Zenon, <1>1, <1>2, <1>3 DEF CoreInv

\* Every step of the core keeps the invariant and is a transition of the tables.
LEMMA NextInv == CoreInv /\ [Next]_vars => CoreInv' /\ [Store!Next]_Store!vars
  <1> SUFFICES ASSUME CoreInv, [Next]_vars
               PROVE  CoreInv' /\ [Store!Next]_Store!vars
    BY Zenon
  <1>1. CASE Next
    <2>1. (Store!Next \/ UNCHANGED Store!vars) /\ StackInv' /\ CacheInv'
      BY Zenon, <1>1, CoreStep
    <2>2. TableInv
      BY Zenon DEF CoreInv
    <2>3. TableInv'
      <3>1. CASE Store!Next
        BY Zenon, <2>2, <3>1, TableStep
      <3>2. CASE UNCHANGED Store!vars
        BY Zenon, <2>2, <3>2 DEF Store!vars, TableInv
      <3> QED
        BY Zenon, <2>1, <3>1, <3>2
    <2> QED
      BY Zenon, <2>1, <2>3 DEF CoreInv
  <1>2. CASE UNCHANGED vars
    <2>1. UNCHANGED Store!vars
      BY Zenon, <1>2 DEF vars, Store!vars
    <2>2. CoreInv'
      BY Zenon, <1>2 DEF vars, CoreInv, TableInv, StackInv, CacheInv
    <2> QED
      BY Zenon, <2>1, <2>2
  <1> QED
    BY Zenon, <1>1, <1>2

\* What a frame or a cache holds is fit for use in every reachable state.
THEOREM Invariance == Spec => []CoreInv
  BY InitInv, NextInv, PTL DEF Spec

\* The core implements the tables: whatever the operations of any number of
\* goroutines do to each other between a lookup and a commit, the tables only
\* make the transitions of MetaStore.
THEOREM StoreCorrect == Spec => StoreSpec
  <1>1. Init => Store!Init
    BY Zenon DEF Init
  <1>2. CoreInv /\ [Next]_vars => [Store!Next]_Store!vars
    BY Zenon, NextInv
  <1> QED
    BY <1>1, <1>2, Invariance, PTL DEF Spec, StoreSpec, Store!Spec
=============================================================================
