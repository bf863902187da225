-------------------------- MODULE LocalCacheProofs --------------------------
(***************************************************************************)
(* Proofs about the cache of segment pages, for any goroutines, pages and  *)
(* nodes, any limit and any number of crashes: a page is fetched once, and *)
(* a goroutine that holds a node has its data.                             *)
(***************************************************************************)
EXTENDS LocalCache, FiniteSetTheorems, TLAPS

\* A node and its bookkeeping.
NodeRec ==
    [file : File \cup {NoNode.file}, index : {"out", "in", "zero"}, ref : Int,
     mem : {"nil", "data"}, clashed : BOOLEAN]

\* A goroutine has these fields, whatever is in them: what it saw last may be a
\* count or a usage.
Shape(g) ==
    g \in [pc : {g.pc}, file : {g.file}, n : {g.n}, crt : {g.crt},
           rm : {g.rm}, left : {g.left}, victim : {g.victim}, size : {g.size}]

\* What the variables hold.
Typed ==
    /\ node \in [Nodes -> NodeRec]
    /\ getter = [p \in Getter |-> getter[p]]
    /\ \A p \in Getter : Shape(getter[p]) /\ (getter[p].pc # "idle" => getter[p].file \in File)
    /\ pending \subseteq File
    /\ cached \in [File -> Nodes \cup {0}]

\* A page that is being fetched is being fetched by one goroutine, and every
\* goroutine that fetches one has announced it.
FetchInv ==
    /\ \A p \in Getter : getter[p].pc \in Building => getter[p].file \in pending
    /\ \A f \in pending : \E p \in Getter : getter[p].pc \in Building /\ getter[p].file = f
    /\ \A p, q \in Getter :
          getter[p].pc \in Building /\ getter[q].pc \in Building /\ getter[p].file = getter[q].file => p = q

\* In the middle of an Open or a Close.
Calling == {"open", "loading", "return", "memclose"}

\* With a node that is counted.
Counted == {"loading", "held"}

\* The goroutines that have a node and are at one of these steps.
With(n, pcs) == {p \in Getter : getter[p].n = n /\ getter[p].pc \in pcs}

\* The count of a node covers the goroutines that use it.
CountAt(n) ==
    /\ IsFiniteSet(With(n, Counted))
    /\ node[n].ref >= Cardinality(With(n, Counted))

CountInv ==
    /\ \A p \in Getter : getter[p].pc \in Calling \cup {"ref", "held"} => getter[p].n \in Nodes
    /\ \A n \in Nodes : CountAt(n)

\* One call of Open or Close of the node, which knows the count; a node that is
\* counted and not being loaded has its data.
CalmAt(n) ==
    /\ \A p, q \in With(n, Calling) : p = q
    /\ \A p \in With(n, {"open"}) : getter[p].crt = node[n].ref
    /\ \A p \in With(n, {"return", "memclose"}) : node[n].ref = 0
    /\ With(n, {"loading"}) # {} => With(n, {"held"}) = {}
    /\ node[n].ref > 0 /\ With(n, {"loading"}) = {} => node[n].mem = "data"

\* So it is as long as no two of those calls overlapped.
CalmInv == \A n \in Nodes : ~node[n].clashed => CalmAt(n)

\* The inductive invariant.
IInv == Typed /\ FetchInv /\ CountInv /\ CalmInv

-----------------------------------------------------------------------------
\* What a step leaves alone: the goroutines other than p, and of every node
\* what the invariant speaks of.
Others(p) ==
    /\ getter' = [q \in Getter |-> getter'[q]]
    /\ \A q \in Getter : q # p => getter'[q] = getter[q]
    /\ Shape(getter'[p])

SameNode(n) ==
    /\ node'[n].ref = node[n].ref
    /\ node'[n].mem = node[n].mem
    /\ node'[n].clashed = node[n].clashed

SameNodes == node' \in [Nodes -> NodeRec] /\ \A n \in Nodes : SameNode(n)

\* At a step where a node is in use.
Live == Calling \cup {"held"}

\* A goroutine that keeps the page it fetches, or keeps fetching none
\* (makeLocalCache before it ends, and every call that is a hit), leaves the
\* pages that are being fetched as they are.
LEMMA FetchSame ==
    ASSUME FetchInv, NEW p \in Getter, Others(p), pending' = pending,
           getter[p].pc \in Building <=> getter'[p].pc \in Building,
           getter'[p].pc \in Building => getter'[p].file = getter[p].file
    PROVE  FetchInv'
<1>1. \A q \in Getter : /\ getter[q].pc \in Building <=> getter'[q].pc \in Building
                        /\ getter'[q].pc \in Building => getter'[q].file = getter[q].file
  BY Zenon DEF Others
<1>2. \A q \in Getter : getter'[q].pc \in Building => getter'[q].file \in pending'
  BY <1>1, Zenon DEF FetchInv
<1>3. ASSUME NEW f \in pending'
      PROVE  \E q \in Getter : getter'[q].pc \in Building /\ getter'[q].file = f
  <2>1. PICK q \in Getter : getter[q].pc \in Building /\ getter[q].file = f
    BY <1>3, Zenon DEF FetchInv
  <2> QED
    BY <1>1, <2>1, Zenon
<1>4. \A q, r \in Getter :
        getter'[q].pc \in Building /\ getter'[r].pc \in Building /\ getter'[q].file = getter'[r].file => q = r
  BY <1>1, Zenon DEF FetchInv
<1> QED
  BY <1>2, <1>3, <1>4, Zenon DEF FetchInv

\* A fetch that ends, with the page or with an error (the deletes from pending
\* in fetchCacheNode), takes the page back.
LEMMA FetchEnds ==
    ASSUME FetchInv, NEW p \in Getter, Others(p), pending' = pending \ {getter[p].file},
           getter[p].pc \in Building, getter'[p].pc \notin Building
    PROVE  FetchInv'
<1>1. \A q \in Getter : getter'[q].pc \in Building =>
          q # p /\ getter[q].pc \in Building /\ getter'[q].file = getter[q].file
  BY Zenon DEF Others
<1>2. \A q \in Getter : getter'[q].pc \in Building => getter'[q].file \in pending'
  BY Zenon, <1>1 DEF FetchInv
<1>3. ASSUME NEW f \in pending'
      PROVE  \E q \in Getter : getter'[q].pc \in Building /\ getter'[q].file = f
  <2>1. PICK q \in Getter : getter[q].pc \in Building /\ getter[q].file = f
    BY Zenon, <1>3 DEF FetchInv
  <2>2. q # p
    BY Zenon, <1>3, <2>1
  <2> QED
    BY <2>1, <2>2, Zenon DEF Others
<1>4. \A q, r \in Getter :
        getter'[q].pc \in Building /\ getter'[r].pc \in Building /\ getter'[q].file = getter'[r].file => q = r
  BY <1>1, Zenon DEF FetchInv
<1> QED
  BY <1>2, <1>3, <1>4, Zenon DEF FetchInv

\* A node that is not counted, loaded or released by the step, and that no
\* goroutine starts or stops to use, keeps its count and its data.
Untouched(n) ==
    /\ SameNode(n)
    /\ \A q \in Getter : \/ getter'[q] = getter[q]
                         \/ /\ ~(getter[q].n = n /\ getter[q].pc \in Live)
                            /\ ~(getter'[q].n = n /\ getter'[q].pc \in Live)

\* An untouched node stays right, whatever else the step does.
LEMMA UntouchedAt ==
    ASSUME NEW n \in Nodes, Untouched(n), CountAt(n), ~node[n].clashed => CalmAt(n)
    PROVE  CountAt(n)' /\ (~node'[n].clashed => CalmAt(n)')
<1>1. ASSUME NEW pcs \in SUBSET Live
      PROVE  /\ With(n, pcs)' = With(n, pcs)
             /\ \A q \in With(n, pcs) : getter'[q] = getter[q]
  BY <1>1, Zenon DEF With, Untouched
<1>2. /\ Counted \in SUBSET Live /\ Calling \in SUBSET Live
      /\ {"open"} \in SUBSET Live /\ {"loading"} \in SUBSET Live /\ {"held"} \in SUBSET Live
      /\ {"return", "memclose"} \in SUBSET Live
  BY Zenon DEF Live, Counted, Calling
<1>3. /\ node'[n].ref = node[n].ref /\ node'[n].mem = node[n].mem
      /\ node'[n].clashed = node[n].clashed
  BY Zenon DEF Untouched, SameNode
<1>4. CountAt(n)'
  BY <1>1, <1>2, <1>3, Zenon DEF CountAt
<1>5. /\ With(n, Calling)' = With(n, Calling)
      /\ With(n, {"open"})' = With(n, {"open"})
      /\ With(n, {"return", "memclose"})' = With(n, {"return", "memclose"})
      /\ With(n, {"loading"})' = With(n, {"loading"})
      /\ With(n, {"held"})' = With(n, {"held"})
      /\ \A q \in With(n, {"open"}) : getter'[q] = getter[q]
  BY <1>1, <1>2, Zenon
<1>6. CalmAt(n) => CalmAt(n)'
  BY <1>3, <1>5, Zenon DEF CalmAt
<1> QED
  BY <1>3, <1>4, <1>6, Zenon

\* Where the goroutine that moves uses no node, before and after the step, all
\* counts and all data stay.
LEMMA NotUsed ==
    ASSUME CountInv, CalmInv, NEW p \in Getter, Others(p), SameNodes,
           getter[p].pc \notin Live, getter'[p].pc \notin Live,
           getter'[p].pc = "ref" => getter'[p].n \in Nodes
    PROVE  CountInv' /\ CalmInv'
<1>1. \A q \in Getter : getter'[q].pc \in Calling \cup {"ref", "held"} => getter'[q].n \in Nodes
  BY Zenon DEF CountInv, Others, Live
<1>2. ASSUME NEW n \in Nodes PROVE CountAt(n)' /\ (~node'[n].clashed => CalmAt(n)')
  <2>1. Untouched(n)
    BY Zenon DEF Untouched, SameNodes, Others
  <2> QED
    BY <2>1, UntouchedAt, Zenon DEF CountInv, CalmInv
<1> QED
  BY <1>1, <1>2, Zenon DEF CountInv, CalmInv

\* Where the step is about one node, the others keep their counts and data.
LEMMA OneNode ==
    ASSUME CountInv, CalmInv, NEW p \in Getter, NEW n \in Nodes, Others(p),
           \A m \in Nodes : m # n => SameNode(m),
           getter[p].pc \in Live => getter[p].n = n,
           getter'[p].pc \in Live \cup {"ref"} => getter'[p].n = n,
           CountAt(n)', ~node'[n].clashed => CalmAt(n)'
    PROVE  CountInv' /\ CalmInv'
<1>1. \A q \in Getter : getter'[q].pc \in Calling \cup {"ref", "held"} => getter'[q].n \in Nodes
  BY Zenon DEF CountInv, Others, Live
<1>2. ASSUME NEW m \in Nodes, m # n PROVE CountAt(m)' /\ (~node'[m].clashed => CalmAt(m)')
  <2>1. Untouched(m)
    BY <1>2, Zenon DEF Untouched, Others
  <2> QED
    BY <1>2, <2>1, UntouchedAt, Zenon DEF CountInv, CalmInv
<1> QED
  BY <1>1, <1>2, Zenon DEF CountInv, CalmInv

\* Nodes that differ in where they believe themselves to be.
Alike(nd, nx) ==
    /\ nx \in [Nodes -> NodeRec]
    /\ \A n \in Nodes : nx[n].ref = nd[n].ref /\ nx[n].mem = nd[n].mem /\ nx[n].clashed = nd[n].clashed

Indexed(nd, m, x) == [nd EXCEPT ![m].index = x]

\* The operations of the heap move copies of nodes about (Swap, Push and Pop of
\* the priority queue): that changes where nodes believe themselves to be.
LEMMA MovedKeeps ==
    ASSUME NEW q, NEW nd, node' \in Moved(q, nd), Alike(node, nd)
    PROVE  SameNodes
<1>1. PICK s \in SUBSET Nodes :
        node' = [n \in Nodes |-> IF n \in s THEN [nd[n] EXCEPT !.index = "in"] ELSE nd[n]]
  BY Zenon DEF Moved
<1>2. ASSUME NEW n \in Nodes
      PROVE  /\ node'[n] \in NodeRec
             /\ node'[n].ref = nd[n].ref /\ node'[n].mem = nd[n].mem /\ node'[n].clashed = nd[n].clashed
  <2>1. nd[n] \in NodeRec
    BY Zenon DEF Alike
  <2> HIDE DEF NodeRec
  <2>2. CASE n \in s
    <3>1. node'[n] = [nd[n] EXCEPT !.index = "in"]
      BY Zenon, <1>1, <2>2
    <3> QED
      BY Zenon, <2>1, <3>1 DEF NodeRec
  <2>3. CASE n \notin s
    <3>1. node'[n] = nd[n]
      BY Zenon, <1>1, <2>3
    <3> QED
      BY Zenon, <2>1, <3>1
  <2> QED
    BY Zenon, <2>2, <2>3
<1>3. node' \in [Nodes -> NodeRec]
  <2>1. node' = [n \in Nodes |-> node'[n]]
    BY Zenon, <1>1
  <2> HIDE DEF NodeRec
  <2> QED
    BY <1>2, <2>1
<1>4. \A n \in Nodes : SameNode(n)
  BY <1>2, Zenon DEF SameNode, Alike
<1> QED
  BY <1>3, <1>4, Zenon DEF SameNodes

\* So does setting an index.
LEMMA Reindexed ==
    ASSUME NEW nd \in [Nodes -> NodeRec], NEW m, NEW x \in {"out", "in"}
    PROVE  Alike(nd, Indexed(nd, m, x))
<1>1. ASSUME NEW n \in Nodes
      PROVE  /\ [nd[n] EXCEPT !.index = x] \in NodeRec
             /\ [nd[n] EXCEPT !.index = x].ref = nd[n].ref
             /\ [nd[n] EXCEPT !.index = x].mem = nd[n].mem
             /\ [nd[n] EXCEPT !.index = x].clashed = nd[n].clashed
  <2>1. nd[n] \in NodeRec /\ x \in {"out", "in", "zero"}
    OBVIOUS
  <2> QED
    BY <2>1, Zenon DEF NodeRec
<1>2. ASSUME NEW n \in Nodes
      PROVE  [nd EXCEPT ![m].index = x][n] = IF n = m THEN [nd[n] EXCEPT !.index = x] ELSE nd[n]
  OBVIOUS
<1> HIDE DEF NodeRec
<1> DEFINE nx == Indexed(nd, m, x)
<1>3. nx = [n \in Nodes |-> nx[n]]
  BY Zenon DEF Indexed
<1>4. \A n \in Nodes : nx[n] = IF n = m THEN [nd[n] EXCEPT !.index = x] ELSE nd[n]
  BY <1>2, Zenon DEF Indexed
<1> HIDE DEF nx
<1>5. \A n \in Nodes : nx[n] \in NodeRec /\ nx[n].ref = nd[n].ref /\ nx[n].mem = nd[n].mem /\ nx[n].clashed = nd[n].clashed
  BY <1>1, <1>4, Zenon
<1>6. nx \in [Nodes -> NodeRec]
  BY <1>3, <1>5
<1> QED
  BY <1>5, <1>6, Zenon DEF nx, Alike

\* heap.Remove is such an operation.
LEMMA HeapRemoveKeeps ==
    ASSUME Typed, NEW n, HeapRemove(n)
    PROVE  SameNodes
<1>1. PICK m \in Nodes :
        node' \in Moved(queue', [node EXCEPT ![m].index = "out", ![n].index = "out"])
  BY Zenon DEF HeapRemove
<1> DEFINE once == Indexed(node, m, "out")
           nd == Indexed(once, n, "out")
<1>2. node' \in Moved(queue', nd)
  BY <1>1, Zenon DEF Indexed
<1>3. Alike(node, once)
  BY Reindexed, Zenon DEF Typed
<1> HIDE DEF once
<1>4. Alike(once, nd)
  <2>1. once \in [Nodes -> NodeRec]
    BY <1>3, Zenon DEF Alike
  <2> QED
    BY <2>1, Reindexed, Zenon
<1> HIDE DEF nd
<1>5. Alike(node, nd)
  BY <1>3, <1>4, Zenon DEF Alike
<1> QED
  BY <1>2, <1>5, MovedKeeps, Zenon

\* So is a step that leaves the nodes alone.
LEMMA Unchanged ==
    ASSUME Typed, UNCHANGED node
    PROVE  SameNodes
BY Zenon DEF Typed, SameNodes, SameNode

-----------------------------------------------------------------------------
\* A step of one goroutine replaces its record.
LEMMA Update ==
    ASSUME Typed, NEW p \in Getter, NEW g, Shape(g), getter' = [getter EXCEPT ![p] = g]
    PROVE  Others(p) /\ getter'[p] = g
BY Zenon DEF Typed, Others

\* The variables keep their shape when the record of one goroutine changes.
LEMMA TypedStep ==
    ASSUME Typed, NEW p \in Getter, Others(p), node' \in [Nodes -> NodeRec],
           pending' \subseteq File, cached' \in [File -> Nodes \cup {0}],
           getter'[p].pc # "idle" => getter'[p].file \in File
    PROVE  Typed'
BY Zenon DEF Typed, Others

\* The steps of makeLocalCache that do not end it (Head, the accounting, the
\* eviction, the copy) keep the invariant.
LEMMA BuildStep ==
    ASSUME IInv, NEW p \in Getter, NEW g, Shape(g), getter' = [getter EXCEPT ![p] = g],
           SameNodes, UNCHANGED pending, cached' \in [File -> Nodes \cup {0}],
           getter[p].pc \in Building, g.pc \in Building, g.file = getter[p].file
    PROVE  IInv'
<1>1. Others(p) /\ getter'[p] = g
  BY Update, Zenon DEF IInv
<1>2. Typed'
  <2>1. getter[p].pc # "idle"
    BY Zenon DEF Building
  <2> QED
    BY <1>1, <2>1, TypedStep, Zenon DEF IInv, SameNodes, Typed
<1>3. FetchInv'
  BY <1>1, FetchSame, Zenon DEF IInv
<1>4. \A pc \in Building : pc \notin Live /\ pc # "ref"
  BY Zenon DEF Building, Live, Calling
<1>5. CountInv' /\ CalmInv'
  BY <1>1, <1>4, NotUsed, Zenon DEF IInv
<1> QED
  BY <1>2, <1>3, <1>5, Zenon DEF IInv

\* So does a fetch that fails.
LEMMA FailStep ==
    ASSUME IInv, NEW p \in Getter, Fail(p), SameNodes, UNCHANGED cached, getter[p].pc \in Building
    PROVE  IInv'
<1>1. Shape(IdleGetter) /\ IdleGetter.pc = "idle"
  BY Zenon DEF Shape, IdleGetter
<1>2. Others(p) /\ getter'[p] = IdleGetter
  BY <1>1, Update, Zenon DEF IInv, Fail, Return
<1>3. pending' = pending \ {getter[p].file}
  BY Zenon DEF Fail
<1>4. Typed'
  <2>1. pending' \subseteq File
    BY Zenon, <1>3 DEF IInv, Typed
  <2> QED
    BY <1>1, <1>2, <2>1, TypedStep, Zenon DEF IInv, SameNodes, Typed
<1>5. getter'[p].pc \notin Building /\ getter'[p].pc \notin Live /\ getter'[p].pc # "ref" /\ getter[p].pc \notin Live
  BY Zenon, <1>1, <1>2 DEF Building, Live, Calling
<1>6. FetchInv'
  BY <1>2, <1>3, <1>5, FetchEnds, Zenon DEF IInv
<1>7. CountInv' /\ CalmInv'
  BY <1>2, <1>5, NotUsed, Zenon DEF IInv
<1> QED
  BY <1>4, <1>6, <1>7, Zenon DEF IInv

\* A goroutine that fetches nothing and uses no node, before and after the step.
LEMMA AsideStep ==
    ASSUME IInv, NEW p \in Getter, NEW g, Shape(g), getter' = [getter EXCEPT ![p] = g],
           SameNodes, UNCHANGED <<pending, cached>>,
           getter[p].pc \in {"idle", "wait"}, g.pc \in {"idle", "wait", "ref"},
           g.pc # "idle" => g.file \in File, g.pc = "ref" => g.n \in Nodes
    PROVE  IInv'
<1>1. Others(p) /\ getter'[p] = g
  BY Update, Zenon DEF IInv
<1>2. Typed'
  BY <1>1, TypedStep, Zenon DEF IInv, SameNodes, Typed
<1>3. \A pc \in {"idle", "wait", "ref"} : pc \notin Building /\ pc \notin Live
  BY Zenon DEF Building, Live, Calling
<1>4. getter[p].pc \notin Building /\ getter[p].pc \notin Live
  BY Zenon, <1>3
<1>5. getter'[p].pc \notin Building /\ getter'[p].pc \notin Live
  BY Zenon, <1>1, <1>3
<1>6. FetchInv'
  BY <1>1, <1>4, <1>5, FetchSame, Zenon DEF IInv
<1>7. CountInv' /\ CalmInv'
  BY <1>1, <1>4, <1>5, NotUsed, Zenon DEF IInv
<1> QED
  BY <1>2, <1>6, <1>7, Zenon DEF IInv

-----------------------------------------------------------------------------
\* fetchCacheNode: a hit, a wait, a miss and the end of a wait.
LEMMA FetchHitStep ==
    ASSUME IInv, NEW p \in Getter, NEW f \in File, FetchHit(p, f)
    PROVE  IInv'
<1> DEFINE g == [getter[p] EXCEPT !.pc = "ref", !.file = f, !.n = cached[f]]
<1>1. Shape(getter[p]) /\ cached[f] \in Nodes
  BY Zenon DEF IInv, Typed, FetchHit
<1>2. Shape(g) /\ g.pc = "ref" /\ g.n = cached[f] /\ g.file = f
  BY <1>1, Zenon DEF Shape
<1>3. getter' = [getter EXCEPT ![p] = g]
  BY Zenon DEF FetchHit
<1>4. SameNodes
  BY HeapRemoveKeeps, Unchanged, Zenon DEF FetchHit, IInv
<1>5. getter[p].pc \in {"idle", "wait"} /\ UNCHANGED <<pending, cached>>
  BY Zenon DEF FetchHit
<1> HIDE DEF g
<1>6. g.pc \in {"idle", "wait", "ref"} /\ g.n \in Nodes
  BY Zenon, <1>1, <1>2
<1> QED
  BY <1>2, <1>3, <1>4, <1>5, <1>6, AsideStep, Zenon

\* The page is pending: the goroutine waits for the broadcast, ...
LEMMA FetchWaitStep ==
    ASSUME IInv, NEW p \in Getter, NEW f \in File, FetchWait(p, f)
    PROVE  IInv'
<1> DEFINE g == [getter[p] EXCEPT !.pc = "wait", !.file = f]
<1>1. Shape(getter[p])
  BY Zenon DEF IInv, Typed
<1>2. Shape(g) /\ g.pc = "wait" /\ g.file = f
  BY <1>1, Zenon DEF Shape
<1>3. getter' = [getter EXCEPT ![p] = g]
  BY Zenon DEF FetchWait
<1>4. SameNodes
  BY Unchanged, Zenon DEF FetchWait, IInv
<1>5. getter[p].pc \in {"idle", "wait"} /\ UNCHANGED <<pending, cached>>
  BY Zenon DEF FetchWait
<1> HIDE DEF g
<1>6. g.pc \in {"idle", "wait", "ref"} /\ g.pc # "ref"
  BY Zenon, <1>2
<1> QED
  BY <1>2, <1>3, <1>4, <1>5, <1>6, AsideStep, Zenon

\* ... and after it finds the node, or returns.
LEMMA WakeStep ==
    ASSUME IInv, NEW p \in Getter, Wake(p)
    PROVE  IInv'
<1>1. Shape(getter[p]) /\ Shape(IdleGetter) /\ IdleGetter.pc = "idle"
  BY Zenon DEF IInv, Typed, Shape, IdleGetter
<1>2. getter[p].pc \in {"idle", "wait"} /\ UNCHANGED <<pending, cached>>
  BY Zenon DEF Wake
<1>3. SameNodes
  BY Unchanged, Zenon DEF Wake, IInv
<1>4. CASE cached[getter[p].file] = 0
  BY <1>1, <1>2, <1>3, <1>4, AsideStep, Zenon DEF Wake, Return
<1>5. CASE cached[getter[p].file] # 0
  <2> DEFINE g == [getter[p] EXCEPT !.pc = "ref", !.n = cached[getter[p].file]]
  <2>1. Shape(g) /\ g.pc = "ref" /\ g.n = cached[getter[p].file] /\ g.file = getter[p].file
    BY <1>1, Zenon DEF Shape
  <2>2. getter' = [getter EXCEPT ![p] = g]
    BY <1>5, Zenon DEF Wake
  <2>3. getter[p].file \in File /\ cached[getter[p].file] \in Nodes
    BY Zenon, <1>5 DEF Wake, IInv, Typed
  <2> HIDE DEF g
  <2> QED
    BY <1>2, <1>3, <2>1, <2>2, <2>3, AsideStep, Zenon
<1> QED
  BY Zenon, <1>4, <1>5

\* The page is announced before the mutex is released, so it has one fetcher.
LEMMA FetchMissStep ==
    ASSUME IInv, NEW p \in Getter, NEW f \in File, FetchMiss(p, f)
    PROVE  IInv'
<1> DEFINE g == [getter[p] EXCEPT !.pc = "head", !.file = f]
<1>1. Shape(getter[p])
  BY Zenon DEF IInv, Typed
<1>2. Shape(g) /\ g.pc = "head" /\ g.file = f
  BY <1>1, Zenon DEF Shape
<1>3. getter' = [getter EXCEPT ![p] = g]
  BY Zenon DEF FetchMiss
<1>4. SameNodes
  BY Unchanged, Zenon DEF FetchMiss, IInv
<1>5. getter[p].pc = "idle" /\ UNCHANGED cached /\ f \notin pending /\ pending' = pending \cup {f}
  BY Zenon DEF FetchMiss
<1> HIDE DEF g
<1>6. Others(p) /\ getter'[p] = g
  BY <1>2, <1>3, Update, Zenon DEF IInv
<1>7. Typed'
  <2>1. pending' \subseteq File
    BY Zenon, <1>5 DEF IInv, Typed
  <2> QED
    BY <1>2, <1>4, <1>5, <1>6, <2>1, TypedStep, Zenon DEF IInv, SameNodes, Typed
<1>8. /\ getter[p].pc \notin Building /\ getter[p].pc \notin Live
      /\ getter'[p].pc \in Building /\ getter'[p].pc \notin Live /\ getter'[p].pc # "ref"
  BY Zenon, <1>2, <1>5, <1>6 DEF Building, Live, Calling
<1>9. FetchInv'
  <2>1. \A q \in Getter : q # p => getter'[q] = getter[q]
    BY Zenon, <1>6 DEF Others
  <2>2. getter'[p].file = f
    BY Zenon, <1>2, <1>6
  <2>3. \A q \in Getter : getter'[q].pc \in Building => getter'[q].file \in pending'
    BY Zenon, <1>5, <2>1, <2>2 DEF IInv, FetchInv
  <2>4. ASSUME NEW h \in pending'
        PROVE  \E q \in Getter : getter'[q].pc \in Building /\ getter'[q].file = h
    <3>1. CASE h = f
      BY Zenon, <1>8, <2>2, <3>1
    <3>2. CASE h \in pending
      <4>1. PICK q \in Getter : getter[q].pc \in Building /\ getter[q].file = h
        BY Zenon, <3>2 DEF IInv, FetchInv
      <4> QED
        BY Zenon, <1>8, <2>1, <4>1
    <3> QED
      BY Zenon, <1>5, <3>1, <3>2
  <2>5. ASSUME NEW q \in Getter, NEW r \in Getter, getter'[q].pc \in Building, getter'[r].pc \in Building,
               getter'[q].file = getter'[r].file
        PROVE  q = r
    <3>1. \A k \in Getter : k # p /\ getter[k].pc \in Building => getter[k].file # f
      BY <1>5 DEF IInv, FetchInv
    <3> QED
      BY <2>1, <2>2, <2>5, <3>1 DEF IInv, FetchInv
  <2> QED
    BY <2>3, <2>4, <2>5, Zenon DEF FetchInv
<1>10. CountInv' /\ CalmInv'
  BY <1>4, <1>6, <1>8, NotUsed, Zenon DEF IInv
<1> QED
  BY <1>7, <1>9, <1>10, Zenon DEF IInv

-----------------------------------------------------------------------------
\* A step of makeLocalCache that only moves on.
LEMMA GoStep ==
    ASSUME IInv, NEW p \in Getter, NEW pc \in Building, Go(p, pc), getter[p].pc \in Building,
           SameNodes, UNCHANGED pending, cached' \in [File -> Nodes \cup {0}]
    PROVE  IInv'
<1> DEFINE g == [getter[p] EXCEPT !.pc = pc]
<1>1. Shape(getter[p])
  BY Zenon DEF IInv, Typed
<1>2. Shape(g) /\ g.pc = pc /\ g.file = getter[p].file
  BY Zenon, <1>1 DEF Shape
<1>3. getter' = [getter EXCEPT ![p] = g]
  BY Zenon DEF Go
<1> HIDE DEF g
<1> QED
  BY <1>2, <1>3, BuildStep, Zenon

\* Head, the creation of the file and the copy go on or fail.
LEMMA BuildSteps ==
    ASSUME IInv, NEW p \in Getter, BuildHead(p) \/ Create(p) \/ Copy(p) \/ AccountCanceled(p)
    PROVE  IInv'
<1>1. /\ getter[p].pc \in Building
      /\ UNCHANGED <<cached, node>>
      /\ (\E pc \in Building : Go(p, pc) /\ UNCHANGED pending) \/ Fail(p)
  BY Zenon DEF BuildHead, Create, Copy, AccountCanceled, Building
<1>2. SameNodes /\ cached' \in [File -> Nodes \cup {0}]
  BY <1>1, Unchanged, Zenon DEF IInv, Typed
<1> QED
  BY <1>1, <1>2, GoStep, FailStep, Zenon

\* mustAccountCacheUsage: read the usage, then make room or compare and swap.
LEMMA AccountStep ==
    ASSUME IInv, NEW p \in Getter, Account(p)
    PROVE  IInv'
<1>1. getter[p].pc \in Building /\ UNCHANGED <<pending, cached, node>> /\ Shape(getter[p])
  BY Zenon DEF Account, Building, IInv, Typed
<1>2. SameNodes /\ cached' \in [File -> Nodes \cup {0}]
  BY <1>1, Unchanged, Zenon DEF IInv, Typed
<1>3. CASE usage + Size > Limit
  <2> DEFINE g == [getter[p] EXCEPT !.pc = "evict", !.left = getter[p].rm, !.rm = IF @ < 2 THEN @ + 1 ELSE @]
  <2>1. getter' = [getter EXCEPT ![p] = g]
    BY <1>3, Zenon DEF Account
  <2>2. Shape(g) /\ g.pc = "evict" /\ g.file = getter[p].file
    BY <1>1, Zenon DEF Shape
  <2> HIDE DEF g
  <2>3. g.pc \in Building
    BY Zenon, <2>2 DEF Building
  <2> QED
    BY <1>1, <1>2, <2>1, <2>2, <2>3, BuildStep, Zenon
<1>4. CASE ~(usage + Size > Limit)
  <2> DEFINE g == [getter[p] EXCEPT !.pc = "cas", !.crt = usage]
  <2>1. getter' = [getter EXCEPT ![p] = g]
    BY <1>4, Zenon DEF Account
  <2>2. Shape(g) /\ g.pc = "cas" /\ g.file = getter[p].file
    BY <1>1, Zenon DEF Shape
  <2> HIDE DEF g
  <2>3. g.pc \in Building
    BY Zenon, <2>2 DEF Building
  <2> QED
    BY <1>1, <1>2, <2>1, <2>2, <2>3, BuildStep, Zenon
<1> QED
  BY Zenon, <1>3, <1>4

\* The swap succeeds or the usage is read again.
LEMMA AccountSwapStep ==
    ASSUME IInv, NEW p \in Getter, AccountSwap(p)
    PROVE  IInv'
<1>1. getter[p].pc \in Building /\ UNCHANGED <<pending, cached, node>> /\ Shape(getter[p])
  BY Zenon DEF AccountSwap, Building, IInv, Typed
<1>2. SameNodes /\ cached' \in [File -> Nodes \cup {0}]
  BY <1>1, Unchanged, Zenon DEF IInv, Typed
<1>3. CASE usage = getter[p].crt
  <2> DEFINE g == [IdleGetter EXCEPT !.pc = "create", !.file = getter[p].file]
  <2>1. getter' = [getter EXCEPT ![p] = g]
    BY <1>3, Zenon DEF AccountSwap
  <2>2. Shape(IdleGetter)
    BY Zenon DEF Shape, IdleGetter
  <2>3. Shape(g) /\ g.pc = "create" /\ g.file = getter[p].file
    BY <2>2, Zenon DEF Shape
  <2> HIDE DEF g
  <2>4. g.pc \in Building
    BY Zenon, <2>3 DEF Building
  <2> QED
    BY <1>1, <1>2, <2>1, <2>3, <2>4, BuildStep, Zenon
<1>4. CASE usage # getter[p].crt
  <2> DEFINE g == [getter[p] EXCEPT !.pc = "account", !.crt = 0]
  <2>1. getter' = [getter EXCEPT ![p] = g]
    BY <1>4, Zenon DEF AccountSwap
  <2>2. Shape(g) /\ g.pc = "account" /\ g.file = getter[p].file
    BY <1>1, Zenon DEF Shape
  <2> HIDE DEF g
  <2>3. g.pc \in Building
    BY Zenon, <2>2 DEF Building
  <2> QED
    BY <1>1, <1>2, <2>1, <2>2, <2>3, BuildStep, Zenon
<1> QED
  BY Zenon, <1>3, <1>4

-----------------------------------------------------------------------------
\* cleanSpace counts one removal down.
LEMMA RemovedStep ==
    ASSUME IInv, NEW p \in Getter, Removed(p), getter[p].pc \in Building,
           SameNodes, UNCHANGED pending, cached' \in [File -> Nodes \cup {0}]
    PROVE  IInv'
<1> DEFINE pc == IF getter[p].left = 1 THEN "account" ELSE "evict"
           g == [getter[p] EXCEPT !.left = @ - 1, !.pc = pc]
<1>1. getter' = [getter EXCEPT ![p] = g]
  BY Zenon DEF Removed
<1>2. pc \in Building /\ Shape(getter[p])
  BY Zenon DEF Building, IInv, Typed
<1> HIDE DEF pc
<1>3. Shape(g) /\ g.pc = pc /\ g.file = getter[p].file
  BY <1>2, Zenon DEF Shape
<1> HIDE DEF g
<1> QED
  BY <1>1, <1>2, <1>3, BuildStep, Zenon

\* removeNextCacheFile: the choice of a file to remove, ...
LEMMA PopStep ==
    ASSUME IInv, NEW p \in Getter, Pop(p) \/ PopNothing(p)
    PROVE  IInv'
<1>1. getter[p].pc \in Building /\ UNCHANGED <<pending, cached>> /\ Shape(getter[p])
  BY Zenon DEF Pop, PopNothing, Building, IInv, Typed
<1>2. cached' \in [File -> Nodes \cup {0}]
  BY <1>1, Zenon DEF IInv, Typed
<1>3. CASE PopNothing(p)
  BY <1>1, <1>2, <1>3, RemovedStep, Unchanged, Zenon DEF PopNothing, IInv
<1>4. CASE Pop(p)
  <2>1. PICK m \in Nodes :
          /\ node' \in Moved(queue', [node EXCEPT ![m].index = "out"])
          /\ IF cached[node[m].file] = 0 THEN Removed(p)
             ELSE getter' = [getter EXCEPT ![p].pc = "stat", ![p].victim = node[m].file,
                                           ![p].n = cached[node[m].file]]
    BY <1>4, Zenon DEF Pop
  <2>2. SameNodes
    <3> DEFINE nd == Indexed(node, m, "out")
    <3>1. Alike(node, nd)
      BY Reindexed, Zenon DEF IInv, Typed
    <3>2. node' \in Moved(queue', nd)
      BY <2>1, Zenon DEF Indexed
    <3> HIDE DEF nd
    <3> QED
      BY <3>1, <3>2, MovedKeeps, Zenon
  <2>3. CASE cached[node[m].file] = 0
    BY <1>1, <1>2, <2>1, <2>2, <2>3, RemovedStep, Zenon
  <2>4. CASE cached[node[m].file] # 0
    <3> DEFINE g == [getter[p] EXCEPT !.pc = "stat", !.victim = node[m].file, !.n = cached[node[m].file]]
    <3>1. getter' = [getter EXCEPT ![p] = g]
      BY <2>1, <2>4, Zenon
    <3>2. Shape(g) /\ g.pc = "stat" /\ g.file = getter[p].file
      BY <1>1, Zenon DEF Shape
    <3> HIDE DEF g
    <3>3. g.pc \in Building
      BY Zenon, <3>2 DEF Building
    <3> QED
      BY <1>1, <1>2, <2>2, <3>1, <3>2, <3>3, BuildStep, Zenon
  <2> QED
    BY Zenon, <2>3, <2>4
<1> QED
  BY Zenon, <1>3, <1>4

\* ... its size, its removal, ...
LEMMA StatStep ==
    ASSUME IInv, NEW p \in Getter, Stat(p)
    PROVE  IInv'
<1>1. getter[p].pc \in Building /\ UNCHANGED <<cached, node>> /\ Shape(getter[p])
  BY Zenon DEF Stat, Building, IInv, Typed
<1>2. SameNodes /\ cached' \in [File -> Nodes \cup {0}]
  BY <1>1, Unchanged, Zenon DEF IInv, Typed
<1>3. CASE disk[getter[p].victim] = "absent"
  BY <1>1, <1>2, <1>3, FailStep, Zenon DEF Stat
<1>4. CASE disk[getter[p].victim] # "absent"
  <2> DEFINE size == Bytes(disk[getter[p].victim])
             g == [getter[p] EXCEPT !.pc = "remove", !.size = size]
  <2>1. getter' = [getter EXCEPT ![p] = g] /\ UNCHANGED pending
    BY <1>4, Zenon DEF Stat
  <2> HIDE DEF size
  <2>2. Shape(g) /\ g.pc = "remove" /\ g.file = getter[p].file
    BY <1>1, Zenon DEF Shape
  <2> HIDE DEF g
  <2>3. g.pc \in Building
    BY Zenon, <2>2 DEF Building
  <2> QED
    BY <1>1, <1>2, <2>1, <2>2, <2>3, BuildStep, Zenon
<1> QED
  BY Zenon, <1>3, <1>4

\* (where a file that is gone meanwhile ends the fetch) ...
LEMMA RemoveFileStep ==
    ASSUME IInv, NEW p \in Getter, RemoveFile(p)
    PROVE  IInv'
<1>1. /\ getter[p].pc \in Building /\ "unmap" \in Building
      /\ UNCHANGED <<cached, node>>
      /\ Fail(p) \/ (Go(p, "unmap") /\ UNCHANGED pending)
  BY Zenon DEF RemoveFile, Building
<1>2. SameNodes /\ cached' \in [File -> Nodes \cup {0}]
  BY <1>1, Unchanged, Zenon DEF IInv, Typed
<1> QED
  BY <1>1, <1>2, GoStep, FailStep, Zenon

\* ... and the end of its node.
LEMMA UnmapStep ==
    ASSUME IInv, NEW p \in Getter, Unmap(p)
    PROVE  IInv'
<1>1. getter[p].pc \in Building /\ "release" \in Building /\ UNCHANGED pending /\ Go(p, "release")
  BY Zenon DEF Unmap, Building
<1>2. SameNodes
  BY HeapRemoveKeeps, Unchanged, Zenon DEF Unmap, IInv
<1>3. cached' \in [File -> Nodes \cup {0}]
  BY Zenon DEF Unmap, IInv, Typed
<1> QED
  BY <1>1, <1>2, <1>3, GoStep, Zenon

\* The bytes are given back and the next file is chosen.
LEMMA ReleaseStep ==
    ASSUME IInv, NEW p \in Getter, Release(p)
    PROVE  IInv'
<1>1. getter[p].pc \in Building /\ UNCHANGED <<pending, cached, node>> /\ Shape(getter[p])
  BY Zenon DEF Release, Building, IInv, Typed
<1>2. SameNodes /\ cached' \in [File -> Nodes \cup {0}]
  BY <1>1, Unchanged, Zenon DEF IInv, Typed
<1> DEFINE pc == IF getter[p].left = 1 THEN "account" ELSE "evict"
           none == IdleGetter.victim
           g == [getter[p] EXCEPT !.left = @ - 1, !.n = 0, !.size = 0, !.victim = none, !.pc = pc]
<1>3. getter' = [getter EXCEPT ![p] = g]
  BY Zenon DEF Release
<1>4. pc \in Building
  BY Zenon DEF Building
<1> HIDE DEF pc, none
<1>5. Shape(g) /\ g.pc = pc /\ g.file = getter[p].file
  BY <1>1, Zenon DEF Shape
<1> HIDE DEF g
<1> QED
  BY <1>1, <1>2, <1>3, <1>4, <1>5, BuildStep, Zenon

-----------------------------------------------------------------------------
\* The steps of Open and Close fetch nothing.
LEMMA UseStep ==
    ASSUME IInv, NEW p \in Getter, NEW g, Shape(g), getter' = [getter EXCEPT ![p] = g],
           UNCHANGED <<pending, cached>>, node' \in [Nodes -> NodeRec],
           getter[p].pc \in Live \cup {"ref"}, g.pc \in Live \cup {"idle"},
           g.pc # "idle" => g.file = getter[p].file
    PROVE  Typed' /\ FetchInv' /\ Others(p) /\ getter'[p] = g
<1>1. Others(p) /\ getter'[p] = g
  BY Update, Zenon DEF IInv
<1>2. \A pc \in Live \cup {"ref", "idle"} : pc \notin Building
  BY Zenon DEF Building, Live, Calling
<1>3. getter[p].pc # "idle"
  BY Zenon DEF Live, Calling
<1>4. Typed'
  BY <1>1, <1>3, TypedStep, Zenon DEF IInv, Typed
<1>5. FetchInv'
  BY <1>1, <1>2, FetchSame, Zenon DEF IInv
<1> QED
  BY Zenon, <1>1, <1>4, <1>5

\* The goroutines with a node, when one of them moves.
LEMMA WithMoves ==
    ASSUME NEW p \in Getter, Others(p), NEW n, NEW pcs
    PROVE  /\ \A q : q # p => (q \in With(n, pcs)' <=> q \in With(n, pcs))
           /\ p \in With(n, pcs)' <=> getter'[p].n = n /\ getter'[p].pc \in pcs
           /\ p \in With(n, pcs) <=> getter[p].n = n /\ getter[p].pc \in pcs
BY Zenon DEF With, Others

\* So one goroutine joins them, leaves them, or neither.
LEMMA WithSame ==
    ASSUME NEW p \in Getter, Others(p), NEW n, NEW pcs
    PROVE  /\ (p \in With(n, pcs)' <=> p \in With(n, pcs)) => With(n, pcs)' = With(n, pcs)
           /\ p \in With(n, pcs)' => With(n, pcs)' = With(n, pcs) \cup {p}
           /\ p \notin With(n, pcs)' => With(n, pcs)' = With(n, pcs) \ {p}
<1>1. \A q : q # p => (q \in With(n, pcs)' <=> q \in With(n, pcs))
  BY WithMoves, Zenon
<1> DEFINE new == With(n, pcs)'
           old == With(n, pcs)
<1> HIDE DEF new, old
<1>2. \A q : q # p => (q \in new <=> q \in old)
  BY <1>1, Zenon DEF new, old
<1>3. (p \in new <=> p \in old) => \A q : q \in new <=> q \in old
  BY <1>2, Zenon
<1>4. /\ (p \in new <=> p \in old) => new = old
      /\ p \in new => new = old \cup {p}
      /\ p \notin new => new = old \ {p}
  BY Zenon, <1>2, <1>3
<1> QED
  BY <1>4, Zenon DEF new, old

\* Where it is the only one, it stays so until it leaves.
LEMMA WithOnly ==
    ASSUME NEW p \in Getter, Others(p), NEW n, NEW pcs, \A q \in With(n, pcs) : q = p
    PROVE  /\ \A q \in With(n, pcs)' : q = p
           /\ p \notin With(n, pcs)' => With(n, pcs)' = {}
<1>1. \A q \in With(n, pcs)' : q = p
  BY Zenon DEF With, Others
<1> QED
  BY <1>1, Zenon

\* Open reads the count: nobody else may be in the middle of an Open or a Close.
LEMMA OpenLoadRefStep ==
    ASSUME IInv, NEW p \in Getter, OpenLoadRef(p)
    PROVE  IInv'
<1>1. Shape(getter[p]) /\ getter[p].pc = "ref" /\ UNCHANGED <<pending, cached>>
  BY Zenon DEF IInv, Typed, OpenLoadRef
<1>2. PICK n \in Nodes : n = getter[p].n
  BY <1>1, Zenon DEF IInv, CountInv
<1> DEFINE g == [getter[p] EXCEPT !.pc = "open", !.crt = node[n].ref]
           busy == Busy(n)
           r == [node[n] EXCEPT !.clashed = node[n].clashed \/ busy]
<1>3. Shape(g) /\ g.pc = "open" /\ g.file = getter[p].file /\ g.n = n /\ g.crt = node[n].ref
  BY <1>1, <1>2, Zenon DEF Shape
<1>4. getter' = [getter EXCEPT ![p] = g] /\ node' = [node EXCEPT ![n] = r]
  BY <1>2, Zenon DEF OpenLoadRef
<1>5. busy \in BOOLEAN
  BY Zenon DEF Busy
<1> HIDE DEF g, busy
<1>6. node[n] \in NodeRec
  BY Zenon, <1>2 DEF IInv, Typed
<1>7. r \in NodeRec /\ r.ref = node[n].ref /\ r.mem = node[n].mem /\ r.clashed = (node[n].clashed \/ busy)
  BY Zenon, <1>5, <1>6 DEF NodeRec
<1> HIDE DEF r
<1>8. node' \in [Nodes -> NodeRec] /\ node'[n] = r /\ \A m \in Nodes : m # n => node'[m] = node[m]
  BY Zenon, <1>2, <1>4, <1>7 DEF IInv, Typed
<1>9. Typed' /\ FetchInv' /\ Others(p) /\ getter'[p] = g
  BY <1>1, <1>3, <1>4, <1>8, UseStep, Zenon DEF Live, Calling
<1>10. \A m \in Nodes : m # n => SameNode(m)
  BY <1>8, Zenon DEF SameNode
<1>11. CountAt(n)'
  <2>1. p \notin With(n, Counted)' /\ p \notin With(n, Counted)
    BY <1>1, <1>3, <1>9, WithMoves DEF Counted
  <2>2. With(n, Counted)' = With(n, Counted)
    BY <1>9, <2>1, WithSame, Zenon
  <2> QED
    BY <1>2, <1>7, <1>8, <2>2, Zenon DEF IInv, CountInv, CountAt
<1>12. ~node'[n].clashed => CalmAt(n)'
  <2> SUFFICES ASSUME ~node'[n].clashed
               PROVE  CalmAt(n)'
    BY Zenon
  <2>1. ~node[n].clashed /\ ~busy
    BY <1>7, <1>8, Zenon
  <2>2. \A pcs : p \notin With(n, pcs \cap Live)
    BY <1>1, WithMoves, <1>9 DEF Live, Calling
  <2>3. With(n, Calling) = {}
    BY <2>1, Zenon DEF With, busy, Busy, Calling
  <2>4. \A q \in With(n, Calling)' : q = p
    BY <1>9, <2>3, WithOnly, Zenon
  <2>5. With(n, {"open"})' \subseteq With(n, Calling)'
    BY Zenon DEF With, Calling
  <2>6. With(n, {"return", "memclose"})' = {}
    BY <1>3, <1>9, <2>4, Zenon DEF With, Calling
  <2>7. With(n, {"loading"})' = {} /\ With(n, {"loading"}) = {}
    BY <1>3, <1>9, <2>3, <2>4, Zenon DEF With, Calling
  <2>8. CalmAt(n)
    BY <1>2, <2>1, Zenon DEF IInv, CalmInv
  <2> QED
    BY <1>3, <1>7, <1>8, <1>9, <2>4, <2>5, <2>6, <2>7, <2>8, Zenon DEF CalmAt
<1>13. CountInv' /\ CalmInv'
  <2>1. getter[p].pc \notin Live /\ getter'[p].n = n
    BY Zenon, <1>1, <1>3, <1>9 DEF Live, Calling
  <2> QED
    BY <1>2, <1>9, <1>10, <1>11, <1>12, <2>1, OneNode, Zenon DEF IInv
<1> QED
  BY <1>9, <1>13, Zenon DEF IInv

\* Open counts itself in, and loads the file if it is the first.
LEMMA OpenCountStep ==
    ASSUME IInv, NEW p \in Getter, OpenCount(p)
    PROVE  IInv'
<1>1. Shape(getter[p]) /\ getter[p].pc = "open" /\ UNCHANGED <<pending, cached>>
  BY Zenon DEF IInv, Typed, OpenCount
<1>2. PICK n \in Nodes : n = getter[p].n
  BY <1>1, Zenon DEF IInv, CountInv, Calling
<1> DEFINE first == getter[p].crt = 0 /\ node[n].ref = 0
           pc == IF first THEN "loading" ELSE "held"
           g == [getter[p] EXCEPT !.pc = pc, !.crt = 0]
           r == [node[n] EXCEPT !.ref = @ + 1]
<1>3. getter' = [getter EXCEPT ![p] = g] /\ node' = [node EXCEPT ![n] = r]
  BY <1>2, Zenon DEF OpenCount
<1>4. pc \in Counted
  BY Zenon DEF Counted
<1>5. Shape(g) /\ g.pc = pc /\ g.file = getter[p].file /\ g.n = n
  BY <1>1, <1>2, Zenon DEF Shape
<1>6. node[n] \in NodeRec /\ node[n].ref \in Int
  BY Zenon, <1>2 DEF IInv, Typed, NodeRec
<1>7. r \in NodeRec /\ r.ref = node[n].ref + 1 /\ r.mem = node[n].mem /\ r.clashed = node[n].clashed
  BY <1>6 DEF NodeRec
<1> HIDE DEF g, r, pc, first
<1>8. node' \in [Nodes -> NodeRec] /\ node'[n] = r /\ \A m \in Nodes : m # n => node'[m] = node[m]
  BY Zenon, <1>2, <1>3, <1>7 DEF IInv, Typed
<1>9. Typed' /\ FetchInv' /\ Others(p) /\ getter'[p] = g
  BY <1>1, <1>3, <1>4, <1>5, <1>8, UseStep, Zenon DEF Live, Calling, Counted
<1>10. \A m \in Nodes : m # n => SameNode(m)
  BY <1>8, Zenon DEF SameNode
<1>11. CountAt(n)
  BY Zenon DEF IInv, CountInv
<1>12. CountAt(n)'
  <2>1. p \in With(n, Counted)' /\ p \notin With(n, Counted)
    <3>1. p \in With(n, Counted)'
      BY <1>4, <1>5, <1>9, Zenon DEF With
    <3> QED
      BY <1>1, <3>1, Zenon DEF With, Counted
  <2>2. With(n, Counted)' = With(n, Counted) \cup {p}
    BY <1>9, <2>1, WithSame, Zenon
  <2> DEFINE C == With(n, Counted)
  <2>3. IsFiniteSet(C) /\ node[n].ref >= Cardinality(C) /\ p \notin C
    BY <1>11, <2>1, Zenon DEF CountAt
  <2> HIDE DEF C
  <2>4. IsFiniteSet(C \cup {p}) /\ Cardinality(C \cup {p}) = Cardinality(C) + 1 /\ Cardinality(C) \in Nat
    BY <2>3, FS_AddElement, FS_CardinalityType
  <2>5. node'[n].ref >= Cardinality(C \cup {p})
    BY <1>6, <1>7, <1>8, <2>3, <2>4
  <2> QED
    BY <2>2, <2>4, <2>5, Zenon DEF CountAt, C
<1>13. ~node'[n].clashed => CalmAt(n)'
  <2> SUFFICES ASSUME ~node'[n].clashed
               PROVE  CalmAt(n)'
    BY Zenon
  <2>1. CalmAt(n)
    BY <1>2, <1>7, <1>8, Zenon DEF IInv, CalmInv
  <2>2. p \in With(n, Calling) /\ p \in With(n, {"open"})
    BY <1>1, <1>2, Zenon DEF With, Calling
  <2>3. \A q \in With(n, Calling) : q = p
    BY <2>1, <2>2, Zenon DEF CalmAt
  <2>4. \A q \in With(n, Calling)' : q = p
    BY <1>9, <2>3, WithOnly, Zenon
  <2>5. With(n, {"open"})' = {} /\ With(n, {"return", "memclose"})' = {}
    <3>1. getter'[p].pc \in Counted
      BY <1>4, <1>5, <1>9, Zenon
    <3>2. \A q \in With(n, {"open"})' \cup With(n, {"return", "memclose"})' : q \in With(n, Calling)'
      BY Zenon DEF With, Calling
    <3> QED
      BY <2>4, <3>1, <3>2, Zenon DEF With, Counted
  <2>6. With(n, {"loading"}) = {}
    BY <1>1, <2>3, Zenon DEF With, Calling
  <2>7. getter[p].crt = node[n].ref
    BY <2>1, <2>2, Zenon DEF CalmAt
  <2>8. CASE first
    <3>1. node[n].ref = 0 /\ pc = "loading"
      BY <2>8, Zenon DEF first, pc
    <3>2. With(n, Counted) = {}
      <4> DEFINE C == With(n, Counted)
      <4>1. IsFiniteSet(C) /\ 0 >= Cardinality(C)
        BY <1>11, <3>1, Zenon DEF CountAt
      <4> HIDE DEF C
      <4>2. C = {}
        BY <4>1, FS_CardinalityType, FS_EmptySet
      <4> QED
        BY Zenon, <4>2 DEF C
    <3>3. With(n, {"held"})' = {}
      <4>1. getter'[p].pc # "held"
        BY Zenon, <1>5, <1>9, <3>1
      <4>2. p \notin With(n, {"held"})' /\ \A q \in With(n, {"held"}) : q \in With(n, Counted)
        BY <4>1, Zenon DEF With, Counted
      <4> QED
        BY <1>9, <3>2, <4>2, WithOnly, Zenon
    <3>4. With(n, {"loading"})' # {}
      <4>1. p \in With(n, {"loading"})'
        BY <1>5, <1>9, <3>1, Zenon DEF With
      <4> QED
        BY <4>1, Zenon
    <3> QED
      BY <2>4, <2>5, <3>3, <3>4, Zenon DEF CalmAt
  <2>9. CASE ~first
    <3>1. node[n].ref # 0 /\ pc = "held"
      BY <2>7, <2>9, Zenon DEF first, pc
    <3>2. node[n].ref > 0
      <4> DEFINE C == With(n, Counted)
      <4>1. IsFiniteSet(C) /\ node[n].ref >= Cardinality(C)
        BY <1>11, Zenon DEF CountAt
      <4> HIDE DEF C
      <4> QED
        BY <1>6, <3>1, <4>1, FS_CardinalityType
    <3>3. node'[n].mem = "data"
      BY <1>7, <1>8, <2>1, <2>6, <3>2, Zenon DEF CalmAt
    <3>4. With(n, {"loading"})' = {}
      <4>1. p \notin With(n, {"loading"})'
        BY <1>5, <1>9, <3>1, WithMoves
      <4> QED
        BY <1>9, <2>6, <4>1, WithOnly, Zenon
    <3> QED
      BY <2>4, <2>5, <3>3, <3>4, Zenon DEF CalmAt
  <2> QED
    BY Zenon, <2>8, <2>9
<1>14. CountInv' /\ CalmInv'
  BY <1>2, <1>5, <1>9, <1>10, <1>12, <1>13, OneNode, Zenon DEF IInv
<1> QED
  BY <1>9, <1>14, Zenon DEF IInv

\* openLocalCache reads the file or fails.
LEMMA OpenLoadStep ==
    ASSUME IInv, NEW p \in Getter, OpenLoad(p)
    PROVE  IInv'
<1>1. Shape(getter[p]) /\ getter[p].pc = "loading" /\ UNCHANGED <<pending, cached>>
  BY Zenon DEF IInv, Typed, OpenLoad
<1>2. PICK n \in Nodes : n = getter[p].n
  BY <1>1, Zenon DEF IInv, CountInv, Calling
<1>3. node[n] \in NodeRec /\ node[n].ref \in Int
  BY Zenon, <1>2 DEF IInv, Typed, NodeRec
<1>4. CountAt(n)
  BY Zenon DEF IInv, CountInv
<1>5. p \in With(n, Counted)
  BY <1>1, <1>2, Zenon DEF With, Counted
<1>6. ASSUME node' = [node EXCEPT ![n].mem = "data"], Go(p, "held")
      PROVE  IInv'
  <2> DEFINE g == [getter[p] EXCEPT !.pc = "held"]
             r == [node[n] EXCEPT !.mem = "data"]
  <2>1. getter' = [getter EXCEPT ![p] = g] /\ node' = [node EXCEPT ![n] = r]
    BY <1>6, Zenon DEF Go
  <2>2. Shape(g) /\ g.pc = "held" /\ g.file = getter[p].file /\ g.n = n
    BY <1>1, <1>2, Zenon DEF Shape
  <2>3. r \in NodeRec /\ r.ref = node[n].ref /\ r.mem = "data" /\ r.clashed = node[n].clashed
    BY Zenon, <1>3 DEF NodeRec
  <2> HIDE DEF g, r
  <2>4. node' \in [Nodes -> NodeRec] /\ node'[n] = r /\ \A m \in Nodes : m # n => node'[m] = node[m]
    BY Zenon, <2>1, <2>3 DEF IInv, Typed
  <2>5. Typed' /\ FetchInv' /\ Others(p) /\ getter'[p] = g
    BY <1>1, <2>1, <2>2, <2>4, UseStep, Zenon DEF Live, Calling
  <2>6. \A m \in Nodes : m # n => SameNode(m)
    BY <2>4, Zenon DEF SameNode
  <2>7. CountAt(n)'
    <3>1. p \in With(n, Counted)'
      BY <2>2, <2>5, Zenon DEF With, Counted
    <3>2. With(n, Counted)' = With(n, Counted)
      BY <1>5, <2>5, <3>1, WithSame, Zenon
    <3> QED
      BY <1>4, <2>3, <2>4, <3>2, Zenon DEF CountAt
  <2>8. ~node'[n].clashed => CalmAt(n)'
    <3> SUFFICES ASSUME ~node'[n].clashed
                 PROVE  CalmAt(n)'
      BY Zenon
    <3>1. CalmAt(n)
      BY <2>3, <2>4, Zenon DEF IInv, CalmInv
    <3>2. p \in With(n, Calling)
      BY <1>1, <1>2, Zenon DEF With, Calling
    <3>3. \A q \in With(n, Calling) : q = p
      BY <3>1, <3>2, Zenon DEF CalmAt
    <3>4. p \notin With(n, Calling)'
      BY <2>2, <2>5, WithMoves DEF Calling
    <3>5. With(n, Calling)' = {}
      BY <2>5, <3>3, <3>4, WithOnly, Zenon
    <3>6. With(n, {"open"})' = {} /\ With(n, {"return", "memclose"})' = {} /\ With(n, {"loading"})' = {}
      BY <3>5, Zenon DEF With, Calling
    <3> QED
      BY <2>3, <2>4, <3>5, <3>6, Zenon DEF CalmAt
  <2>9. CountInv' /\ CalmInv'
    BY <1>2, <2>2, <2>5, <2>6, <2>7, <2>8, OneNode, Zenon DEF IInv
  <2> QED
    BY <2>5, <2>9, Zenon DEF IInv
<1>7. ASSUME node' = [node EXCEPT ![n].mem = "nil", ![n].clashed = TRUE], Return(p)
      PROVE  IInv'
  <2> DEFINE r == [node[n] EXCEPT !.mem = "nil", !.clashed = TRUE]
  <2>1. getter' = [getter EXCEPT ![p] = IdleGetter]
    BY <1>7, Zenon DEF Return
  <2>2. node' = [node EXCEPT ![n] = r]
    BY <1>7, Zenon DEF IInv, Typed
  <2>3. r \in NodeRec /\ r.ref = node[n].ref /\ r.clashed
    BY <1>3, Zenon DEF NodeRec
  <2> HIDE DEF r
  <2>4. node' \in [Nodes -> NodeRec] /\ node'[n] = r /\ \A m \in Nodes : m # n => node'[m] = node[m]
    BY Zenon, <2>2, <2>3 DEF IInv, Typed
  <2>5. Shape(IdleGetter) /\ IdleGetter.pc = "idle"
    BY Zenon DEF Shape, IdleGetter
  <2>6. Typed' /\ FetchInv' /\ Others(p) /\ getter'[p] = IdleGetter
    BY <1>1, <2>1, <2>4, <2>5, UseStep, Zenon DEF Live, Calling
  <2>7. \A m \in Nodes : m # n => SameNode(m)
    BY <2>4, Zenon DEF SameNode
  <2>8. CountAt(n)'
    <3>1. p \notin With(n, Counted)'
      BY <2>5, <2>6, WithMoves DEF Counted
    <3>2. With(n, Counted)' = With(n, Counted) \ {p}
      BY <2>6, <3>1, WithSame, Zenon
    <3> DEFINE C == With(n, Counted)
    <3>3. IsFiniteSet(C) /\ node[n].ref >= Cardinality(C)
      BY <1>4, Zenon DEF CountAt
    <3> HIDE DEF C
    <3>4. Cardinality(C) \in Nat
      BY <3>3, FS_CardinalityType
    <3>5. IsFiniteSet(C \ {p}) /\ Cardinality(C \ {p}) = Cardinality(C) - 1
      BY <1>5, <3>3, FS_RemoveElement, Zenon DEF C
    <3>6. node'[n].ref >= Cardinality(C \ {p})
      BY <1>3, <2>3, <2>4, <3>3, <3>4, <3>5
    <3> QED
      BY <3>2, <3>5, <3>6, Zenon DEF CountAt, C
  <2>9. CountInv' /\ CalmInv'
    <3>1. node'[n].clashed /\ getter'[p].pc \notin Live \cup {"ref"}
      BY Zenon, <2>3, <2>4, <2>5, <2>6 DEF Live, Calling
    <3> QED
      BY <1>2, <2>6, <2>7, <2>8, <3>1, OneNode, Zenon DEF IInv
  <2> QED
    BY <2>6, <2>9, Zenon DEF IInv
<1> QED
  BY <1>2, <1>6, <1>7, Zenon DEF OpenLoad

\* Close counts itself out: nobody may be in the middle of an Open or a Close.
LEMMA CloseStep ==
    ASSUME IInv, NEW p \in Getter, Close(p)
    PROVE  IInv'
<1>1. Shape(getter[p]) /\ getter[p].pc = "held" /\ UNCHANGED <<pending, cached>>
  BY Zenon DEF IInv, Typed, Close
<1>2. PICK n \in Nodes : n = getter[p].n
  BY <1>1, Zenon DEF IInv, CountInv
<1> DEFINE last == node[n].ref = 1
           g == IF last THEN [getter[p] EXCEPT !.pc = "return"] ELSE IdleGetter
           busy == Busy(n)
           r == [node[n] EXCEPT !.ref = node[n].ref - 1, !.clashed = node[n].clashed \/ busy]
<1>3. getter' = [getter EXCEPT ![p] = g]
  BY <1>2, Zenon DEF Close, Go, Return
<1>4. Shape(g) /\ g.pc = (IF last THEN "return" ELSE "idle") /\ (last => g.file = getter[p].file /\ g.n = n)
  <2>1. Shape(IdleGetter) /\ IdleGetter.pc = "idle"
    BY Zenon DEF Shape, IdleGetter
  <2>2. CASE last
    <3>1. g = [getter[p] EXCEPT !.pc = "return"]
      BY <2>2, Zenon
    <3> HIDE DEF g
    <3> QED
      BY <1>1, <1>2, <2>2, <3>1, Zenon DEF Shape
  <2> QED
    BY <2>1, <2>2, Zenon
<1>5. node[n] \in NodeRec /\ node[n].ref \in Int /\ busy \in BOOLEAN
  BY <1>2, Zenon DEF IInv, Typed, NodeRec, Busy
<1> HIDE DEF g, busy
<1>6. node' = [node EXCEPT ![n] = r]
  BY <1>2, Zenon DEF Close, IInv, Typed, NodeRec, busy
<1>7. r \in NodeRec /\ r.ref = node[n].ref - 1 /\ r.mem = node[n].mem /\ r.clashed = (node[n].clashed \/ busy)
  <2> DEFINE ref == node[n].ref - 1
             met == node[n].clashed \/ busy
  <2>1. ref \in Int
    BY <1>5
  <2>2. met \in BOOLEAN
    BY <1>5, Zenon DEF NodeRec
  <2>3. r = [node[n] EXCEPT !.ref = ref, !.clashed = met]
    BY Zenon
  <2> HIDE DEF ref, met, r
  <2>4. r \in NodeRec /\ r.ref = ref /\ r.mem = node[n].mem /\ r.clashed = met
    BY <1>5, <2>1, <2>2, <2>3, Zenon DEF NodeRec
  <2> QED
    BY Zenon, <2>4 DEF ref, met
<1> HIDE DEF r
<1>8. node' \in [Nodes -> NodeRec] /\ node'[n] = r /\ \A m \in Nodes : m # n => node'[m] = node[m]
  BY Zenon, <1>6, <1>7 DEF IInv, Typed
<1>9. Typed' /\ FetchInv' /\ Others(p) /\ getter'[p] = g
  <2>1. g.pc \in Live \cup {"idle"} /\ (g.pc # "idle" => last) /\ getter[p].pc \in Live
    BY <1>1, <1>4 DEF Live, Calling
  <2> QED
    BY <1>1, <1>3, <1>4, <1>8, <2>1, UseStep, Zenon
<1>10. \A m \in Nodes : m # n => SameNode(m)
  BY <1>8, Zenon DEF SameNode
<1>11. CountAt(n)
  BY Zenon DEF IInv, CountInv
<1>12. CountAt(n)'
  <2>1. p \notin With(n, Counted)' /\ p \in With(n, Counted)
    <3>1. getter'[p].pc \notin Counted
      BY Zenon, <1>4, <1>9 DEF Counted
    <3> QED
      BY <1>1, <1>2, <3>1, Zenon DEF With, Counted
  <2>2. With(n, Counted)' = With(n, Counted) \ {p}
    BY <1>9, <2>1, WithSame, Zenon
  <2> DEFINE C == With(n, Counted)
  <2>3. IsFiniteSet(C) /\ node[n].ref >= Cardinality(C) /\ p \in C
    BY <1>11, <2>1, Zenon DEF CountAt
  <2> HIDE DEF C
  <2>4. Cardinality(C) \in Nat
    BY <2>3, FS_CardinalityType
  <2>5. IsFiniteSet(C \ {p}) /\ Cardinality(C \ {p}) = Cardinality(C) - 1
    BY <2>3, FS_RemoveElement, Zenon
  <2>6. node'[n].ref >= Cardinality(C \ {p})
    BY <1>5, <1>7, <1>8, <2>3, <2>4, <2>5
  <2> QED
    BY <2>2, <2>5, <2>6, Zenon DEF CountAt, C
<1>13. ~node'[n].clashed => CalmAt(n)'
  <2> SUFFICES ASSUME ~node'[n].clashed
               PROVE  CalmAt(n)'
    BY Zenon
  <2>1. ~node[n].clashed /\ ~busy
    BY <1>7, <1>8, Zenon
  <2>2. CalmAt(n)
    BY <2>1, Zenon DEF IInv, CalmInv
  <2>3. With(n, Calling) = {} /\ With(n, {"loading"}) = {}
    BY <2>1, Zenon DEF With, busy, Busy, Calling
  <2>4. \A q \in With(n, Calling)' : q = p
    BY <1>9, <2>3, WithOnly, Zenon
  <2>5. getter'[p].pc \in {"return", "idle"}
    BY Zenon, <1>4, <1>9
  <2>6. With(n, {"open"})' = {} /\ With(n, {"loading"})' = {}
    BY <2>4, <2>5, Zenon DEF With, Calling
  <2>7. ASSUME NEW q \in With(n, {"return", "memclose"})' PROVE node'[n].ref = 0
    <3>1. q = p /\ getter'[p].pc # "idle"
      BY <2>4, Zenon DEF With, Calling
    <3> QED
      BY <1>4, <1>5, <1>7, <1>8, <1>9, <3>1
  <2>8. node'[n].ref > 0 => node'[n].mem = "data"
    <3>1. node'[n].ref > 0 => node[n].ref > 0
      BY <1>5, <1>7, <1>8
    <3> QED
      BY <1>7, <1>8, <2>2, <2>3, <3>1, Zenon DEF CalmAt
  <2> QED
    BY <2>4, <2>6, <2>7, <2>8, Zenon DEF CalmAt
<1>14. CountInv' /\ CalmInv'
  <2>1. getter'[p].pc \in Live \cup {"ref"} => getter'[p].n = n
    BY Zenon, <1>4, <1>9 DEF Live, Calling
  <2> QED
    BY <1>2, <1>9, <1>10, <1>12, <1>13, <2>1, OneNode, Zenon DEF IInv
<1> QED
  BY <1>9, <1>14, Zenon DEF IInv

\* returnNode queues a node, which is no business of those who hold it.
LEMMA ReturnNodeStep ==
    ASSUME IInv, NEW p \in Getter, ReturnNode(p)
    PROVE  IInv'
<1>1. Shape(getter[p]) /\ getter[p].pc = "return" /\ UNCHANGED <<pending, cached>>
  BY Zenon DEF IInv, Typed, ReturnNode
<1>2. PICK n \in Nodes : n = getter[p].n
  BY <1>1, Zenon DEF IInv, CountInv, Calling
<1> DEFINE g == [getter[p] EXCEPT !.pc = "memclose"]
<1>3. getter' = [getter EXCEPT ![p] = g]
  BY Zenon DEF ReturnNode, Go
<1>4. Shape(g) /\ g.pc = "memclose" /\ g.file = getter[p].file /\ g.n = n
  BY <1>1, <1>2, Zenon DEF Shape
<1> HIDE DEF g
<1>5. SameNodes
  <2>1. CASE UNCHANGED node
    BY <2>1, Unchanged, Zenon DEF IInv
  <2>2. ASSUME NEW m, node' \in Moved(queue', [node EXCEPT ![m].index = "in"]) PROVE SameNodes
    <3> DEFINE nd == Indexed(node, m, "in")
    <3>1. Alike(node, nd)
      BY Reindexed, Zenon DEF IInv, Typed
    <3>2. node' \in Moved(queue', nd)
      BY <2>2, Zenon DEF Indexed
    <3> HIDE DEF nd
    <3> QED
      BY <3>1, <3>2, MovedKeeps, Zenon
  <2> QED
    BY <2>1, <2>2, Zenon DEF ReturnNode
<1>6. Typed' /\ FetchInv' /\ Others(p) /\ getter'[p] = g
  BY <1>1, <1>3, <1>4, <1>5, UseStep, Zenon DEF Live, Calling, SameNodes
<1>7. /\ node'[n].ref = node[n].ref /\ node'[n].mem = node[n].mem
      /\ node'[n].clashed = node[n].clashed
  BY <1>5, Zenon DEF SameNodes, SameNode
<1>8. ASSUME NEW pcs, "return" \in pcs <=> "memclose" \in pcs
      PROVE  With(n, pcs)' = With(n, pcs)
  <2>1. p \in With(n, pcs)' <=> p \in With(n, pcs)
    BY <1>1, <1>2, <1>4, <1>6, <1>8, Zenon DEF With
  <2> QED
    BY <1>6, <2>1, WithSame, Zenon
<1>9. /\ "return" \in Counted <=> "memclose" \in Counted
      /\ "return" \in Calling <=> "memclose" \in Calling
  BY Zenon DEF Counted, Calling
<1>10. CountAt(n)'
  BY <1>7, <1>8, <1>9, Zenon DEF IInv, CountInv, CountAt
<1>11. CalmAt(n) => CalmAt(n)'
  <2>1. /\ With(n, Calling)' = With(n, Calling)
        /\ With(n, {"open"})' = With(n, {"open"})
        /\ With(n, {"return", "memclose"})' = With(n, {"return", "memclose"})
        /\ With(n, {"loading"})' = With(n, {"loading"})
        /\ With(n, {"held"})' = With(n, {"held"})
    BY <1>8, <1>9, Zenon
  <2>2. \A q \in With(n, {"open"}) : getter'[q] = getter[q]
    BY <1>1, <1>6, Zenon DEF With, Others
  <2> QED
    BY <1>7, <2>1, <2>2, Zenon DEF CalmAt
<1>12. CountInv' /\ CalmInv'
  BY <1>2, <1>4, <1>5, <1>6, <1>7, <1>10, <1>11, OneNode, Zenon DEF IInv, CalmInv, SameNodes
<1> QED
  BY <1>6, <1>12, Zenon DEF IInv

\* A node without an entry, a queue position or a user.
LEMMA NoNodeFacts ==
    NoNode \in NodeRec /\ NoNode.ref = 0 /\ NoNode.mem = "nil"
BY DEF NoNode, NodeRec

\* A node that nobody uses and nobody is counted for is right.
Nobody(n) ==
    /\ \A q \in Getter : ~(getter[q].n = n /\ getter[q].pc \in Live)
    /\ node[n].ref = 0

NobodyIsRight == \A n \in Nodes : Nobody(n) => CountAt(n) /\ CalmAt(n)

\* That is: its count covers its users, of whom there are none.
LEMMA NobodyAt ==
    NobodyIsRight
<1> SUFFICES ASSUME NEW n \in Nodes, Nobody(n)
             PROVE  CountAt(n) /\ CalmAt(n)
  BY Zenon DEF NobodyIsRight
<1>1. \A pcs : pcs \subseteq Live => With(n, pcs) = {}
  BY Zenon DEF With, Nobody
<1>2. With(n, Counted) = {} /\ With(n, Calling) = {} /\ With(n, {"open"}) = {} /\ With(n, {"loading"}) = {}
  BY <1>1, Zenon DEF Live, Calling, Counted
<1>3. With(n, {"return", "memclose"}) = {}
  BY <1>1, Zenon DEF Live, Calling
<1>4. IsFiniteSet({}) /\ node[n].ref >= Cardinality({}) /\ ~(node[n].ref > 0)
  BY FS_EmptySet DEF Nobody
<1> QED
  BY <1>2, <1>3, <1>4, Zenon DEF CountAt, CalmAt

\* memCacheNode.Close gives the memory back: by then the count is zero, or two
\* calls overlapped.
LEMMA MemCloseStep ==
    ASSUME IInv, NEW p \in Getter, MemClose(p)
    PROVE  IInv'
<1>1. Shape(getter[p]) /\ getter[p].pc = "memclose" /\ UNCHANGED <<pending, cached>>
  BY Zenon DEF IInv, Typed, MemClose
<1>2. PICK n \in Nodes : n = getter[p].n
  BY <1>1, Zenon DEF IInv, CountInv, Calling
<1> DEFINE quiet == node[n].ref = 0 /\ \A q \in Getter \ {p} : getter[q].n # n
           met == node[n].clashed /\ ~quiet
           closed == [node[n] EXCEPT !.mem = "nil", !.clashed = met]
           r == IF n \in Referenced' THEN closed ELSE NoNode
<1>3. getter' = [getter EXCEPT ![p] = IdleGetter] /\ node' = [node EXCEPT ![n] = r]
  BY <1>2, Zenon DEF MemClose, Return
<1>4. Shape(IdleGetter) /\ IdleGetter.pc = "idle"
  BY Zenon DEF Shape, IdleGetter
<1>5. node[n] \in NodeRec /\ met \in BOOLEAN
  BY Zenon DEF IInv, Typed
<1> HIDE DEF quiet, met
<1>6. closed \in NodeRec /\ closed.ref = node[n].ref /\ closed.mem = "nil" /\ closed.clashed = met
  BY <1>5, Zenon DEF NodeRec
<1> HIDE DEF closed
<1>7. r \in NodeRec
  BY <1>6, NoNodeFacts, Zenon
<1> HIDE DEF r
<1>8. node' \in [Nodes -> NodeRec] /\ node'[n] = r /\ \A m \in Nodes : m # n => node'[m] = node[m]
  BY Zenon, <1>3, <1>7 DEF IInv, Typed
<1>9. Typed' /\ FetchInv' /\ Others(p) /\ getter'[p] = IdleGetter
  BY <1>1, <1>3, <1>4, <1>8, UseStep, Zenon DEF Live, Calling
<1>10. \A m \in Nodes : m # n => SameNode(m)
  BY <1>8, Zenon DEF SameNode
<1>11. getter'[p].pc \notin Live \cup {"ref"}
  BY Zenon, <1>4, <1>9 DEF Live, Calling
<1>12. CountAt(n)' /\ (~node'[n].clashed => CalmAt(n)')
  <2>1. NobodyIsRight'
    BY NobodyAt, PTL
  <2>2. CASE n \notin Referenced'
    <3>1. node'[n].ref = 0
      BY <1>8, <2>2, NoNodeFacts, Zenon DEF r
    <3>2. \A q \in Getter : getter'[q].n # n
      BY <2>2, Zenon DEF Referenced
    <3> QED
      BY <2>1, <3>1, <3>2, Zenon DEF Nobody, NobodyIsRight
  <2>3. CASE n \in Referenced'
    <3>1. node'[n].ref = node[n].ref /\ node'[n].clashed = met
      BY <1>6, <1>8, <2>3, Zenon DEF r
    <3>2. CASE quiet
      <4>1. node'[n].ref = 0
        BY <3>1, <3>2, Zenon DEF quiet
      <4>2. \A q \in Getter : ~(getter'[q].n = n /\ getter'[q].pc \in Live)
        BY <1>9, <1>11, <3>2, Zenon DEF quiet, Others
      <4> QED
        BY <2>1, <4>1, <4>2, Zenon DEF Nobody, NobodyIsRight
    <3>3. CASE ~quiet
      <4>1. CountAt(n)'
        <5>1. p \notin With(n, Counted)' /\ p \notin With(n, Counted)
          BY <1>1, <1>4, <1>9, Zenon DEF With, Counted
        <5>2. With(n, Counted)' = With(n, Counted)
          BY <1>9, <5>1, WithSame, Zenon
        <5> QED
          BY <3>1, <5>2, Zenon DEF IInv, CountInv, CountAt
      <4>2. ASSUME ~node'[n].clashed PROVE CalmAt(n)'
        <5>1. CalmAt(n)
          BY <3>1, <3>3, <4>2, Zenon DEF IInv, CalmInv, met
        <5>2. p \in With(n, Calling) /\ p \in With(n, {"return", "memclose"})
          BY <1>1, <1>2, Zenon DEF With, Calling
        <5>3. \A q \in With(n, Calling) : q = p
          BY <5>1, <5>2, Zenon DEF CalmAt
        <5>4. With(n, Calling)' = {}
          <6>1. p \notin With(n, Calling)'
            BY <1>11, Zenon DEF With, Live
          <6> QED
            BY <1>9, <5>3, <6>1, WithOnly, Zenon
        <5>5. With(n, {"open"})' = {} /\ With(n, {"return", "memclose"})' = {} /\ With(n, {"loading"})' = {}
          BY <5>4, Zenon DEF With, Calling
        <5>6. ~(node'[n].ref > 0)
          <6>1. node'[n].ref = 0
            BY <3>1, <5>1, <5>2, Zenon DEF CalmAt
          <6> QED
            BY <6>1
        <5> QED
          BY <5>4, <5>5, <5>6, Zenon DEF CalmAt
      <4> QED
        BY Zenon, <4>1, <4>2
    <3> QED
      BY Zenon, <3>2, <3>3
  <2> QED
    BY Zenon, <2>2, <2>3
<1>13. CountInv' /\ CalmInv'
  BY <1>2, <1>9, <1>10, <1>11, <1>12, OneNode, Zenon DEF IInv
<1> QED
  BY <1>9, <1>13, Zenon DEF IInv

\* The goroutine that fetched a page is the first to hold its node, which has
\* the data.
LEMMA InsertStep ==
    ASSUME IInv, NEW p \in Getter, Insert(p)
    PROVE  IInv'
<1>1. Shape(getter[p]) /\ getter[p].pc = "insert" /\ pending' = pending \ {getter[p].file}
  BY Zenon DEF IInv, Typed, Insert
<1>2. getter[p].file \in File
  BY <1>1, Zenon DEF IInv, Typed
<1>3. PICK n : n = CHOOSE m \in Nodes \ Referenced : TRUE
  BY Zenon
<1>4. n \in Nodes /\ \A q \in Getter : getter[q].n # n
  <2>1. n \in Nodes \ Referenced
    <3>1. Nodes \ Referenced # {}
      BY Zenon DEF Insert, Referenced
    <3> QED
      BY Zenon, <1>3, <3>1
  <2> QED
    BY <2>1, Zenon DEF Referenced
<1> DEFINE g == [getter[p] EXCEPT !.pc = "held", !.n = n]
           r == [NoNode EXCEPT !.file = getter[p].file, !.index = "zero", !.ref = 1, !.mem = "data"]
<1>5. getter' = [getter EXCEPT ![p] = g] /\ node' = [node EXCEPT ![n] = r] /\ cached' = [cached EXCEPT ![getter[p].file] = n]
  <2>1. /\ node' = [node EXCEPT ![n] = r]
        /\ cached' = [cached EXCEPT ![getter[p].file] = n]
        /\ getter' = [getter EXCEPT ![p].pc = "held", ![p].n = n]
    BY Zenon, <1>3 DEF Insert
  <2> QED
    BY <2>1, Zenon
<1>6. Shape(g) /\ g.pc = "held" /\ g.file = getter[p].file /\ g.n = n
  BY <1>1, Zenon DEF Shape
<1>7. r \in NodeRec /\ r.ref = 1 /\ r.mem = "data"
  <2>1. NoNode \in NodeRec
    BY NoNodeFacts, Zenon
  <2>2. 1 \in Int
    OBVIOUS
  <2> QED
    BY <1>2, <2>1, <2>2, Zenon DEF NodeRec
<1> HIDE DEF g, r
<1>8. node' \in [Nodes -> NodeRec] /\ node'[n] = r /\ \A m \in Nodes : m # n => node'[m] = node[m]
  BY Zenon, <1>4, <1>5, <1>7 DEF IInv, Typed
<1>9. Others(p) /\ getter'[p] = g
  BY <1>5, <1>6, Update, Zenon DEF IInv
<1>10. Typed'
  <2>1. pending' \subseteq File /\ cached' \in [File -> Nodes \cup {0}]
    BY Zenon, <1>1, <1>4, <1>5 DEF IInv, Typed
  <2> QED
    BY <1>2, <1>6, <1>8, <1>9, <2>1, TypedStep, Zenon DEF IInv
<1>11. getter[p].pc \in Building /\ getter'[p].pc \notin Building /\ getter[p].pc \notin Live
  BY Zenon, <1>1, <1>6, <1>9 DEF Building, Live, Calling
<1>12. FetchInv'
  BY <1>1, <1>9, <1>11, FetchEnds, Zenon DEF IInv
<1>13. \A pcs : With(n, pcs)' = IF "held" \in pcs THEN {p} ELSE {}
  BY <1>4, <1>6, <1>9, Zenon DEF With, Others
<1>14. CountAt(n)'
  <2>1. With(n, Counted)' = {p}
    BY <1>13, Zenon DEF Counted
  <2>2. IsFiniteSet({p}) /\ node'[n].ref >= Cardinality({p})
    <3>1. IsFiniteSet({p}) /\ Cardinality({p}) = 1
      BY FS_Singleton, Zenon
    <3> QED
      BY <1>7, <1>8, <3>1
  <2> QED
    BY <2>1, <2>2, Zenon DEF CountAt
<1>15. CalmAt(n)'
  <2>1. With(n, Calling)' = {} /\ With(n, {"open"})' = {} /\ With(n, {"loading"})' = {}
    BY <1>13, Zenon DEF Calling
  <2>2. With(n, {"return", "memclose"})' = {}
    BY <1>13, Zenon
  <2> QED
    BY <1>7, <1>8, <2>1, <2>2, Zenon DEF CalmAt
<1>16. \A m \in Nodes : m # n => SameNode(m)
  BY <1>8, Zenon DEF SameNode
<1>17. CountInv' /\ CalmInv'
  BY <1>4, <1>6, <1>9, <1>11, <1>14, <1>15, <1>16, OneNode, Zenon DEF IInv
<1> QED
  BY <1>10, <1>12, <1>17, Zenon DEF IInv

-----------------------------------------------------------------------------
\* A process that starts fetches nothing and counts nobody.
AllIdle ==
    /\ getter = [p \in Getter |-> IdleGetter]
    /\ pending = {}
    /\ node \in [Nodes -> NodeRec]
    /\ \A n \in Nodes : node[n].ref = 0
    /\ cached \in [File -> Nodes \cup {0}]

\* Then the invariant holds.
LEMMA IdleInv ==
    AllIdle => IInv
<1> SUFFICES ASSUME AllIdle
             PROVE  IInv
  BY Zenon
<1>1. Shape(IdleGetter) /\ IdleGetter.pc = "idle"
  BY Zenon DEF Shape, IdleGetter
<1>2. \A p \in Getter : getter[p] = IdleGetter
  BY Zenon DEF AllIdle
<1>3. \A p \in Getter : getter[p].pc \notin Building /\ getter[p].pc \notin Live /\ getter[p].pc # "ref"
  BY Zenon, <1>1, <1>2 DEF Building, Live, Calling
<1>4. Typed
  <2>1. getter = [p \in Getter |-> getter[p]]
    BY Zenon DEF AllIdle
  <2>2. pending \subseteq File
    BY Zenon DEF AllIdle
  <2> QED
    BY <1>1, <1>2, <2>1, <2>2, Zenon DEF Typed, AllIdle
<1>5. FetchInv
  BY <1>3, Zenon DEF FetchInv, AllIdle
<1>6. \A n \in Nodes : CountAt(n) /\ CalmAt(n)
  BY <1>3, NobodyAt, Zenon DEF AllIdle, Nobody, NobodyIsRight
<1>7. CountInv /\ CalmInv
  BY <1>3, <1>6, Zenon DEF CountInv, CalmInv, Live
<1> QED
  BY <1>4, <1>5, <1>7, Zenon DEF IInv

\* So it is at the first start, ...
LEMMA InitInv ==
    InitCache => IInv
<1> SUFFICES ASSUME InitCache
             PROVE  IInv
  BY Zenon
<1>1. node \in [Nodes -> NodeRec] /\ \A n \in Nodes : node[n].ref = 0
  BY Zenon, NoNodeFacts DEF InitCache
<1>2. cached \in [File -> Nodes \cup {0}]
  BY Zenon DEF InitCache
<1> QED
  BY <1>1, <1>2, IdleInv, Zenon DEF AllIdle, InitCache

\* ... and at every start after a crash, with the files that load found.
LEMMA CrashStep ==
    ASSUME IInv, Crash
    PROVE  IInv'
<1>1. PICK start \in [File -> Nodes \cup {0}] :
        /\ cached' = start
        /\ node' = [n \in Nodes |->
                        IF \E f \in File : start[f] = n
                        THEN [NoNode EXCEPT !.file = CHOOSE f \in File : start[f] = n, !.index = "in"]
                        ELSE NoNode]
  BY Zenon DEF Crash
<1>2. ASSUME NEW n \in Nodes PROVE node'[n] \in NodeRec /\ node'[n].ref = 0
  <2>1. CASE \E f \in File : start[f] = n
    <3> DEFINE file == CHOOSE f \in File : start[f] = n
    <3>1. file \in File
      BY <2>1, Zenon
    <3>2. node'[n] = [NoNode EXCEPT !.file = file, !.index = "in"]
      BY <1>1, <2>1, Zenon
    <3> HIDE DEF file
    <3> QED
      BY <3>1, <3>2, NoNodeFacts, Zenon DEF NodeRec
  <2>2. CASE ~\E f \in File : start[f] = n
    <3>1. node'[n] = NoNode
      BY <1>1, <2>2, Zenon
    <3> QED
      BY <3>1, NoNodeFacts, Zenon
  <2> QED
    BY Zenon, <2>1, <2>2
<1>3. node' \in [Nodes -> NodeRec]
  <2>1. node' = [n \in Nodes |-> node'[n]]
    BY <1>1, Zenon
  <2> HIDE DEF NodeRec
  <2> QED
    BY Zenon, <1>2, <2>1
<1>4. AllIdle'
  BY <1>1, <1>2, <1>3, Zenon DEF AllIdle, Crash
<1> QED
  BY <1>4, IdleInv, PTL

\* Every step of a goroutine and every crash keeps the invariant.
LEMMA NextInv ==
    IInv /\ [CacheNext]_cacheVars => IInv'
<1> SUFFICES ASSUME IInv, [CacheNext]_cacheVars
             PROVE  IInv'
  BY Zenon
<1>1. ASSUME NEW p \in Getter, Step(p)
      PROVE  IInv'
  <2>1. ASSUME NEW f \in File, FetchHit(p, f) \/ FetchWait(p, f) \/ FetchMiss(p, f)
        PROVE  IInv'
    BY <2>1, FetchHitStep, FetchWaitStep, FetchMissStep, Zenon
  <2>2. CASE Wake(p) \/ OpenLoadRef(p) \/ OpenCount(p) \/ OpenLoad(p)
    BY <2>2, WakeStep, OpenLoadRefStep, OpenCountStep, OpenLoadStep, Zenon
  <2>3. CASE Close(p) \/ ReturnNode(p) \/ MemClose(p)
    BY <2>3, CloseStep, ReturnNodeStep, MemCloseStep, Zenon
  <2>4. CASE BuildHead(p) \/ AccountCanceled(p) \/ Create(p) \/ Copy(p)
    BY <2>4, BuildSteps, Zenon
  <2>5. CASE Account(p) \/ AccountSwap(p) \/ Insert(p)
    BY <2>5, AccountStep, AccountSwapStep, InsertStep, Zenon
  <2>6. CASE PopNothing(p) \/ Pop(p)
    BY <2>6, PopStep, Zenon
  <2>7. CASE Stat(p) \/ RemoveFile(p) \/ Unmap(p) \/ Release(p)
    BY <2>7, StatStep, RemoveFileStep, UnmapStep, ReleaseStep, Zenon
  <2> QED
    BY <1>1, <2>1, <2>2, <2>3, <2>4, <2>5, <2>6, <2>7, Zenon DEF Step
<1>2. CASE Crash
  BY Zenon, <1>2, CrashStep
<1>3. CASE UNCHANGED cacheVars
  <2>1. UNCHANGED <<getter, node, pending, cached>>
    BY <1>3, Zenon DEF cacheVars
  <2>2. \A n, pcs : With(n, pcs)' = With(n, pcs)
    BY <2>1, Zenon DEF With
  <2>3. \A n : (CountAt(n)' <=> CountAt(n)) /\ (CalmAt(n)' <=> CalmAt(n))
    BY <2>1, <2>2, Zenon DEF CountAt, CalmAt
  <2> QED
    BY <2>1, <2>3, Zenon DEF IInv, Typed, FetchInv, CountInv, CalmInv
<1> QED
  BY <1>1, <1>2, <1>3, Zenon DEF CacheNext

-----------------------------------------------------------------------------
\* The invariant of the cache holds in every reachable state, for any number of
\* goroutines, pages and nodes, any limit and any number of crashes.
THEOREM Invariance == CacheSpec => []IInv
BY InitInv, NextInv, PTL DEF CacheSpec

\* PendingIsFetched: fetchCacheNode fetches a page once, and the page somebody
\* waits for is being fetched.
THEOREM PendingCorrect == CacheSpec => []PendingIsFetched
<1>1. IInv => PendingIsFetched
  <2> SUFFICES ASSUME IInv, NEW f \in File
               PROVE  Cardinality({p \in Getter : getter[p].pc \in Building /\ getter[p].file = f})
                        = (IF f \in pending THEN 1 ELSE 0)
    BY Zenon DEF PendingIsFetched
  <2> DEFINE B == {p \in Getter : getter[p].pc \in Building /\ getter[p].file = f}
  <2>1. CASE f \in pending
    <3>1. PICK p \in Getter : getter[p].pc \in Building /\ getter[p].file = f
      BY <2>1, Zenon DEF IInv, FetchInv
    <3>2. \A q : q \in B <=> q = p
      BY <3>1, Zenon DEF IInv, FetchInv
    <3> HIDE DEF B
    <3>3. B = {p}
      BY Zenon, <3>2
    <3>4. Cardinality(B) = 1
      BY <3>3, FS_Singleton, Zenon
    <3> QED
      BY <2>1, <3>4, Zenon DEF B
  <2>2. CASE f \notin pending
    <3>1. ASSUME NEW p \in Getter, getter[p].pc \in Building PROVE getter[p].file # f
      BY <2>2, <3>1 DEF IInv, FetchInv
    <3>2. \A p : p \notin B
      BY <3>1, Zenon
    <3> HIDE DEF B
    <3>3. B = {}
      BY Zenon, <3>2
    <3>4. Cardinality(B) = 0
      BY <3>3, FS_EmptySet, Zenon
    <3> QED
      BY <2>2, <3>4, Zenon DEF B
  <2> QED
    BY Zenon, <2>1, <2>2
<1> QED
  BY <1>1, Invariance, PTL

\* HeldHasData: whoever holds a node of the cache can read its data unless two
\* calls of cacheNode.Open and Close overlapped, and every user is counted.
THEOREM HeldCorrect == CacheSpec => []HeldHasData
<1>1. IInv => HeldHasData
  <2> SUFFICES ASSUME IInv
               PROVE  HeldHasData
    BY Zenon
  <2>1. ASSUME NEW p \in Getter, getter[p].pc = "held", ~node[getter[p].n].clashed
        PROVE  node[getter[p].n].mem = "data"
    <3>1. PICK n \in Nodes : n = getter[p].n
      BY <2>1, Zenon DEF IInv, CountInv
    <3>2. CalmAt(n) /\ CountAt(n)
      BY <2>1, <3>1, Zenon DEF IInv, CalmInv, CountInv
    <3>3. p \in With(n, {"held"}) /\ p \in With(n, Counted)
      BY <2>1, <3>1, Zenon DEF With, Counted
    <3>4. node[n].ref > 0
      <4> DEFINE C == With(n, Counted)
      <4>1. IsFiniteSet(C) /\ node[n].ref >= Cardinality(C) /\ C # {} /\ node[n].ref \in Int
        BY Zenon, <3>2, <3>3 DEF CountAt, IInv, Typed, NodeRec
      <4> HIDE DEF C
      <4> QED
        BY <4>1, FS_EmptySet, FS_CardinalityType
    <3> QED
      BY <3>1, <3>2, <3>3, <3>4, Zenon DEF CalmAt
  <2> QED
    BY <2>1, Zenon DEF HeldHasData, IInv, CountInv, CountAt, With, Counted
<1> QED
  BY <1>1, Invariance, PTL
=============================================================================
