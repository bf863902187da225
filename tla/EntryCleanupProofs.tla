------------------------- MODULE EntryCleanupProofs -------------------------
(***************************************************************************)
(* Proofs about the destruction of unlinked entries: for any entries,      *)
(* names, queue length and number of faults, with hard links or without,   *)
(* cleanup destroys nothing that somebody still uses, and no chunk data    *)
(* outlives its row.                                                       *)
(*                                                                         *)
(* What makes UsedIsIntact inductive is that everything on the way from    *)
(* RemoveEntry to execute names an entry that was unlinked (OnlyUnlinked). *)
(* The orphan scan asks for a reference count of zero instead, so it takes *)
(* the invariant of the tables (MetaStoreProofs) to know that such a row   *)
(* has lost its links.  An open file is protected by what the task for it  *)
(* may be doing (HeldInv), and its data by what was seen when execute      *)
(* looked for open handles (LateInv).                                      *)
(***************************************************************************)
EXTENDS EntryCleanup, TLAPS

\* The steps of a task.
Step == {"idle", "check", "clean", "destroy", "succeed", "failed", "wait"}

\* The types of what the goroutines of cleanup hold.
TypeOK ==
    /\ toPublish \in [Id -> Int] /\ listening \in [Id -> Int] /\ saving \in [Id -> Int]
    /\ waiting \in [Id -> Int] /\ batch \in [Id -> Int]
    /\ eventQ \in Seq(Id)
    /\ run \in [id : Id \cup {NoId}, step : Step]
    /\ scan \in [todo : SUBSET Id, id : Id \cup {NoId}]

\* Events and tasks are for entries that were unlinked, wherever they are.
OnlyUnlinked ==
    /\ \A e \in Id : toPublish[e] > 0 => e \in unlinked
    /\ \A e \in Id : listening[e] > 0 => e \in unlinked
    /\ \A e \in Id : saving[e] > 0 => e \in unlinked
    /\ \A e \in Id : waiting[e] > 0 => e \in unlinked
    /\ \A e \in Id : batch[e] > 0 => e \in unlinked
    /\ \A i \in 1..Len(eventQ) : eventQ[i] \in unlinked
    /\ run.id \in unlinked \cup {NoId}
    /\ scan.todo \subseteq unlinked
    /\ scan.id \in unlinked \cup {NoId}

\* An entry that was never unlinked has its row, its data and a link.
KeptInv ==
    /\ cleaned \subseteq unlinked
    /\ \A e \in used : e \in unlinked \/ (e \in rows /\ Store!Linked(e))

\* A file that was open when it was first unlinked is still open, and the task
\* for it gets no further than the question whether it is.
HeldInv ==
    /\ held \subseteq opened
    /\ held \subseteq rows
    /\ held \cap cleaned = {}
    /\ run.id \in held => run.step \in {"check", "wait"}

\* Only files are opened and have data, and a file that gets new data while
\* execute deletes it was opened since execute looked.
LateInv ==
    /\ \A e \in opening \cup opened \cup data : e \in used /\ ~entry[e].isGroup
    /\ data \subseteq rows \cup late
    /\ run.step \in {"clean", "destroy"} => (run.id \in opened => run.id \in late)
    /\ run.step = "destroy" => (run.id \in data => run.id \in late)

\* What the steps need to know of the tables: types, and that a row whose
\* reference count is zero has no link.
TableInv ==
    /\ rows \subseteq used /\ used \subseteq Id /\ unlinked \subseteq used
    /\ entry \in [Id -> Store!Row]
    /\ \A r \in children : r.child \in used
    /\ \A e \in rows : entry[e].refCount = 0 => ~Store!Linked(e)

\* The invariant of cleanup.
CleanupInv == TableInv /\ TypeOK /\ OnlyUnlinked /\ KeptInv /\ HeldInv /\ LateInv

-----------------------------------------------------------------------------
(* The transactions of the tables. *)

\* What every transaction of a client keeps: the rows, the kinds, and a link
\* for every entry that was never unlinked.
ClientTx ==
    /\ rows \subseteq rows' /\ used \subseteq used' /\ unlinked \subseteq unlinked'
    /\ \A e \in used : entry'[e].isGroup = entry[e].isGroup
    /\ \A e \in used' : \/ e \in unlinked'
                        \/ e \in used /\ (Store!Linked(e) => Store!Linked(e)')
                        \/ e \in rows' /\ Store!Linked(e)'

\* The types of the tables.
LEMMA TableTypes ==
    ASSUME TableInv
    PROVE  /\ rows \subseteq used /\ used \subseteq Id /\ unlinked \subseteq used
           /\ entry \in [Id -> Store!Row]
           /\ \A e \in Id : entry[e].isGroup \in BOOLEAN /\ entry[e].refCount \in Int /\ entry[e].size \in Nat
           /\ \A r \in children : r.child \in used
  BY DEF TableInv, Store!Row

\* A count that only unlinked entries have, after one more or one less of e.
LEMMA AddKeeps ==
    ASSUME NEW U, NEW f \in [Id -> Int], \A x \in Id : f[x] > 0 => x \in U,
           NEW e \in Id, e \in U, NEW k \in {-1, 1, 2}
    PROVE  /\ Add(f, e, k) \in [Id -> Int]
           /\ \A x \in Id : Add(f, e, k)[x] > 0 => x \in U
  <1>1. /\ Add(f, e, k) \in [Id -> Int] /\ Add(f, e, k)[e] = f[e] + k
        /\ \A x \in Id : x # e => Add(f, e, k)[x] = f[x]
    BY DEF Add
  <1>2. f[e] \in Int /\ (Add(f, e, k)[e] > 0 => e \in U)
    BY Zenon, <1>1
  <1> QED
    BY Zenon, <1>1, <1>2

\* The same when one is perhaps added, because the call that adds it may fail.
LEMMA AddMayFail ==
    ASSUME NEW U, NEW f \in [Id -> Int], \A x \in Id : f[x] > 0 => x \in U,
           NEW e \in Id, e \in U, NEW g, g = Add(f, e, 1) \/ g = f
    PROVE  g \in [Id -> Int] /\ \A x \in Id : g[x] > 0 => x \in U
  <1>1. 1 \in {-1, 1, 2}
    BY Zenon
  <1>2. CASE g = Add(f, e, 1)
    BY Zenon, <1>1, <1>2, AddKeeps
  <1>3. CASE g = f
    BY Zenon, <1>3
  <1> QED
    BY Zenon, <1>2, <1>3

\* CreateEntry links the entry it makes.
LEMMA CreateTx ==
    ASSUME TableInv, NEW p \in used, NEW e \in Id, NEW n \in Name, NEW g \in BOOLEAN,
           Store!CreateEntry(p, e, n, g)
    PROVE  ClientTx
  <1>2. /\ e \notin used /\ rows' = rows \cup {e} /\ used' = used \cup {e} /\ unlinked' = unlinked
        /\ children' = children \cup {[parent |-> p, name |-> n, child |-> e]}
        /\ entry' = Store!AddRef([entry EXCEPT ![e] = Store!NewRow(g)], p, IF g THEN 1 ELSE 0)
    BY Zenon DEF Store!CreateEntry
  <1>3. \A x \in used : entry'[x].isGroup = entry[x].isGroup
    BY Zenon, <1>2, TableTypes DEF Store!AddRef, Store!Bump
  <1>4. \A x : Store!LinksOf(x) \subseteq Store!LinksOf(x)'
    BY Zenon, <1>2 DEF Store!LinksOf
  <1>5. [parent |-> p, name |-> n, child |-> e] \in Store!LinksOf(e)'
    BY Zenon, <1>2 DEF Store!LinksOf
  <1> QED
    BY <1>2, <1>3, <1>4, <1>5 DEF ClientTx, Store!Linked

\* MirrorEntry adds a link.
LEMMA MirrorTx ==
    ASSUME TableInv, NEW e \in used, NEW p \in used, NEW n \in Name, Store!MirrorEntry(e, p, n)
    PROVE  ClientTx
  <1>2. /\ UNCHANGED <<rows, used, unlinked>>
        /\ children' = children \cup {[parent |-> p, name |-> n, child |-> e]}
        /\ entry' = Store!AddRef(Store!AddRef(entry, e, 1), p, 0)
    BY Zenon DEF Store!MirrorEntry
  <1>3. \A x \in used : entry'[x].isGroup = entry[x].isGroup
    BY Zenon, <1>2, TableTypes DEF Store!AddRef, Store!Bump
  <1>4. \A x : Store!LinksOf(x) \subseteq Store!LinksOf(x)'
    BY Zenon, <1>2 DEF Store!LinksOf
  <1> QED
    BY <1>2, <1>3, <1>4 DEF ClientTx, Store!Linked

\* RemoveEntry takes a link of the entry it marks.
LEMMA RemoveTx ==
    ASSUME TableInv, NEW p \in used, NEW e \in used, NEW n \in Name, Store!RemoveEntry(p, e, n)
    PROVE  /\ ClientTx
           /\ e \in rows /\ UNCHANGED <<rows, used, copy>>
           /\ unlinked' = unlinked \cup {e}
  <1>2. /\ e \in rows /\ UNCHANGED <<rows, used, copy>> /\ unlinked' = unlinked \cup {e}
        /\ children' = children \ {[parent |-> p, name |-> n, child |-> e]}
    BY Zenon DEF Store!RemoveEntry
  <1>3. \A x \in used : entry'[x].isGroup = entry[x].isGroup
    BY Zenon, TableTypes DEF Store!RemoveEntry, Store!AddRef, Store!Bump
  <1>4. \A x : x # e => Store!LinksOf(x) \subseteq Store!LinksOf(x)'
    BY <1>2 DEF Store!LinksOf
  <1> QED
    BY <1>2, <1>3, <1>4 DEF ClientTx, Store!Linked

\* Open rewrites the row of a file.
LEMMA OpenIsTx ==
    ASSUME TableInv, NEW e \in used, Store!Open(e, FALSE)
    PROVE  /\ ClientTx
           /\ e \in rows /\ ~entry[e].isGroup /\ UNCHANGED <<rows, used, children, unlinked, copy>>
  <1>3. /\ e \in rows /\ ~entry[e].isGroup /\ UNCHANGED <<rows, used, children, unlinked, copy>>
        /\ entry' = [entry EXCEPT ![e] = Store!Bump(@, @.refCount, @.size)]
    BY Zenon DEF Store!Open
  <1>4. \A x \in used : entry'[x].isGroup = entry[x].isGroup
    BY Zenon, <1>3, TableTypes DEF Store!Bump
  <1> QED
    BY Zenon, <1>3, <1>4 DEF ClientTx, Store!Linked, Store!LinksOf

\* AppendSegments rewrites the row of a file.
LEMMA WriteIsTx ==
    ASSUME TableInv, NEW e \in rows, entry' = Store!AddRef(entry, e, 0),
           UNCHANGED <<rows, used, children, unlinked, copy>>
    PROVE  ClientTx
  <1>1. \A x \in used : entry'[x].isGroup = entry[x].isGroup
    BY TableTypes DEF Store!AddRef, Store!Bump
  <1> QED
    BY Zenon, <1>1 DEF ClientTx, Store!Linked, Store!LinksOf

-----------------------------------------------------------------------------
(* What a step leaves alone. *)

\* A step that does not touch the tables keeps what is known of them.
LEMMA SameTables ==
    ASSUME CleanupInv, UNCHANGED tables
    PROVE  /\ TableInv'
           /\ cleaned' = cleaned => KeptInv'
           /\ rows' = rows /\ used' = used /\ entry' = entry /\ unlinked' = unlinked
  <1>1. UNCHANGED <<rows, used, entry, children, unlinked>>
    BY Zenon DEF tables
  <1>2. \A e : Store!Linked(e)' = Store!Linked(e)
    BY Zenon, <1>1 DEF Store!Linked, Store!LinksOf
  <1> QED
    BY Zenon, <1>1, <1>2 DEF CleanupInv, KeptInv, TableInv

\* What was never unlinked keeps its row, its data and a link in a transaction
\* of a client.
LEMMA ClientKeeps ==
    ASSUME CleanupInv, ClientTx, cleaned' = cleaned
    PROVE  KeptInv'
  BY Zenon DEF CleanupInv, KeptInv, ClientTx

\* Events and tasks that are left alone stay events and tasks for unlinked
\* entries.
LEMMA SameTasks ==
    ASSUME CleanupInv, unlinked \subseteq unlinked', UNCHANGED <<toPublish, bus, waiting, batch, run, scan>>
    PROVE  TypeOK' /\ OnlyUnlinked'
  <1>1. /\ toPublish' = toPublish /\ eventQ' = eventQ /\ listening' = listening /\ saving' = saving
        /\ waiting' = waiting /\ batch' = batch /\ run' = run /\ scan' = scan
    BY Zenon DEF bus
  <1>2. TypeOK'
    BY Zenon, <1>1 DEF CleanupInv, TypeOK
  <1>3. OnlyUnlinked'
    BY Zenon, <1>1 DEF CleanupInv, OnlyUnlinked
  <1> QED
    BY Zenon, <1>2, <1>3

\* Handles, data and the task in progress are left alone while the tables grow.
LEMMA SameFiles ==
    ASSUME CleanupInv, ClientTx, UNCHANGED <<chunks, opening, opened, held, late, run>>
    PROVE  HeldInv' /\ LateInv'
  <1>1. /\ data' = data /\ cleaned' = cleaned /\ opening' = opening /\ opened' = opened
        /\ held' = held /\ late' = late /\ run' = run
    BY Zenon DEF chunks
  <1>2. HeldInv'
    BY Zenon, <1>1 DEF CleanupInv, HeldInv, ClientTx
  <1>3. LateInv'
    BY Zenon, <1>1 DEF CleanupInv, LateInv, ClientTx
  <1> QED
    BY Zenon, <1>2, <1>3

\* The same when nothing of the tables changes either.
LEMMA SameAll ==
    ASSUME CleanupInv, UNCHANGED <<tables, chunks, opening, opened, held, late, run>>
    PROVE  TableInv' /\ KeptInv' /\ HeldInv' /\ LateInv'
  <1>1. /\ data' = data /\ cleaned' = cleaned /\ opening' = opening /\ opened' = opened
        /\ held' = held /\ late' = late /\ run' = run /\ UNCHANGED tables
    BY Zenon DEF chunks
  <1>2. HeldInv'
    BY Zenon, <1>1, SameTables DEF CleanupInv, HeldInv
  <1>3. LateInv'
    BY Zenon, <1>1, SameTables DEF CleanupInv, LateInv
  <1> QED
    BY Zenon, <1>1, <1>2, <1>3, SameTables

-----------------------------------------------------------------------------
(* Clients. *)

\* CreateEntry and MirrorEntry do not touch handles, data or tasks.
LEMMA LinkInv ==
    ASSUME CleanupInv, TableInv',
           \/ \E p \in used, e \in Id, n \in Name, g \in BOOLEAN : CreateEntry(p, e, n, g)
           \/ \E e, p \in used, n \in Name : MirrorEntry(e, p, n)
    PROVE  CleanupInv'
  <1>1. ClientTx /\ UNCHANGED <<chunks, clients, bus, tasks, loop, scan, faults>>
    BY Zenon, CreateTx, MirrorTx DEF CleanupInv, CreateEntry, MirrorEntry
  <1>2. UNCHANGED <<cleaned, chunks, opening, opened, held, late, run>>
    BY Zenon, <1>1 DEF chunks, clients, loop
  <1>3. UNCHANGED <<toPublish, bus, waiting, batch, run, scan>> /\ unlinked \subseteq unlinked'
    BY Zenon, <1>1 DEF clients, tasks, loop, ClientTx
  <1> QED
    BY Zenon, <1>1, <1>2, <1>3, ClientKeeps, SameTasks, SameFiles DEF CleanupInv

\* RemoveEntry marks the entry before anybody publishes an event for it, and
\* an entry that was not marked has no task.
LEMMA RemoveInv ==
    ASSUME CleanupInv, TableInv', NEW p \in used, NEW e \in used, NEW n \in Name, NEW k \in {1, 2}, RemoveEntry(p, e, n, k)
    PROVE  CleanupInv'
  <1>1. /\ ClientTx /\ e \in rows /\ rows' = rows /\ used' = used /\ unlinked' = unlinked \cup {e}
        /\ toPublish' = Add(toPublish, e, k)
        /\ held' = IF e \in opened \ unlinked THEN held \cup {e} ELSE held
        /\ UNCHANGED <<chunks, opening, opened, late, bus, tasks, loop, scan, faults>>
    BY Zenon, RemoveTx DEF RemoveEntry, CleanupInv
  <1>2. /\ data' = data /\ cleaned' = cleaned /\ opening' = opening /\ opened' = opened /\ late' = late
        /\ eventQ' = eventQ /\ listening' = listening /\ saving' = saving /\ waiting' = waiting
        /\ batch' = batch /\ run' = run /\ scan' = scan
    BY Zenon, <1>1 DEF chunks, bus, tasks, loop
  <1>3. e \in Id /\ k \in {-1, 1, 2}
    BY Zenon, TableTypes DEF CleanupInv
  <1>4. toPublish' \in [Id -> Int] /\ \A x \in Id : toPublish'[x] > 0 => x \in unlinked'
    <2>1. \A x \in Id : toPublish[x] > 0 => x \in unlinked'
      BY Zenon, <1>1 DEF CleanupInv, OnlyUnlinked
    <2> QED
      BY Zenon, <2>1, <1>1, <1>3, AddKeeps DEF CleanupInv, TypeOK
  <1>5. TypeOK' /\ OnlyUnlinked'
    <2>1. TypeOK'
      BY Zenon, <1>2, <1>4 DEF CleanupInv, TypeOK
    <2>2. OnlyUnlinked'
      BY Zenon, <1>1, <1>2, <1>4 DEF CleanupInv, OnlyUnlinked
    <2> QED
      BY <2>1, <2>2
  <1>6. HeldInv'
    <2>1. e \in opened \ unlinked => e \notin cleaned /\ run.id # e
      BY Zenon, <1>3, StoreAssumption DEF CleanupInv, KeptInv, OnlyUnlinked
    <2> QED
      BY Zenon, <2>1, <1>1, <1>2 DEF CleanupInv, HeldInv
  <1>7. LateInv'
    BY Zenon, <1>1, <1>2 DEF CleanupInv, LateInv, ClientTx
  <1> QED
    BY Zenon, <1>1, <1>2, <1>5, <1>6, <1>7, ClientKeeps DEF CleanupInv, ClientTx

\* Open commits for a file.
LEMMA OpenTxInv ==
    ASSUME CleanupInv, TableInv', NEW e \in used, OpenTx(e)
    PROVE  CleanupInv'
  <1>1. /\ ClientTx /\ ~entry[e].isGroup /\ opening' = opening \cup {e}
        /\ UNCHANGED <<rows, used, unlinked>>
        /\ UNCHANGED <<chunks, opened, toPublish, held, late, bus, tasks, loop, scan, aged, faults>>
    BY Zenon, OpenIsTx DEF OpenTx, CleanupInv
  <1>2. /\ data' = data /\ cleaned' = cleaned /\ opened' = opened /\ held' = held /\ late' = late
        /\ run' = run
    BY Zenon, <1>1 DEF chunks, loop
  <1>3. UNCHANGED <<toPublish, bus, waiting, batch, run, scan>> /\ unlinked \subseteq unlinked'
    BY Zenon, <1>1 DEF tasks, loop, ClientTx
  <1>4. HeldInv'
    BY Zenon, <1>1, <1>2 DEF CleanupInv, HeldInv
  <1>5. LateInv'
    BY Zenon, <1>1, <1>2 DEF CleanupInv, LateInv, ClientTx
  <1> QED
    BY Zenon, <1>1, <1>2, <1>3, <1>4, <1>5, ClientKeeps, SameTasks DEF CleanupInv, ClientTx

\* Counting a handle is recorded as late.
LEMMA OpenCountInv ==
    ASSUME CleanupInv, NEW e \in used, OpenCount(e)
    PROVE  CleanupInv'
  <1>1. /\ UNCHANGED tables /\ e \in opening /\ opening' = opening \ {e}
        /\ opened' = opened \cup {e} /\ late' = late \cup {e}
        /\ data' = data /\ cleaned' = cleaned /\ held' = held /\ run' = run
        /\ UNCHANGED <<toPublish, bus, waiting, batch, run, scan>>
    BY Zenon DEF OpenCount, chunks, tasks, loop
  <1>2. /\ rows' = rows /\ used' = used /\ entry' = entry /\ unlinked' = unlinked
        /\ TableInv' /\ KeptInv'
    BY Zenon, <1>1, SameTables
  <1>3. HeldInv'
    BY Zenon, <1>1, <1>2 DEF CleanupInv, HeldInv
  <1>4. LateInv'
    BY Zenon, <1>1, <1>2 DEF CleanupInv, LateInv
  <1> QED
    BY Zenon, <1>1, <1>2, <1>3, <1>4, SameTasks DEF CleanupInv

\* A write of a handle that was counted after execute looked is late.
LEMMA WriteInv ==
    ASSUME CleanupInv, TableInv', NEW e \in used, Write(e)
    PROVE  CleanupInv'
  <1>1. /\ e \in opened /\ e \in rows /\ entry' = Store!AddRef(entry, e, 0) /\ data' = data \cup {e}
        /\ UNCHANGED <<rows, used, children, unlinked, copy>>
        /\ cleaned' = cleaned /\ opening' = opening /\ opened' = opened /\ held' = held /\ late' = late
        /\ run' = run /\ UNCHANGED <<toPublish, bus, waiting, batch, run, scan>>
    BY Zenon DEF Write, clients, tasks, loop
  <1>2. ClientTx
    BY Zenon, <1>1, WriteIsTx DEF CleanupInv
  <1>3. HeldInv'
    BY Zenon, <1>1 DEF CleanupInv, HeldInv
  <1>4. LateInv'
    BY Zenon, <1>1, <1>2 DEF CleanupInv, LateInv, ClientTx
  <1> QED
    BY Zenon, <1>1, <1>2, <1>3, <1>4, ClientKeeps, SameTasks DEF CleanupInv, ClientTx

\* Closing a file ends its protection.
LEMMA CloseInv ==
    ASSUME CleanupInv, NEW e \in used, CloseFile(e)
    PROVE  CleanupInv'
  <1>1. /\ UNCHANGED tables /\ opening' = opening /\ opened' = opened \ {e} /\ late' = late
        /\ data' = data /\ cleaned' = cleaned /\ held' = held \ {e} /\ run' = run
        /\ UNCHANGED <<toPublish, bus, waiting, batch, run, scan>>
    BY Zenon DEF CloseFile, chunks, tasks, loop
  <1>2. /\ rows' = rows /\ used' = used /\ entry' = entry /\ unlinked' = unlinked
        /\ TableInv' /\ KeptInv'
    BY Zenon, <1>1, SameTables
  <1>3. HeldInv'
    BY Zenon, <1>1, <1>2 DEF CleanupInv, HeldInv
  <1>4. LateInv'
    BY Zenon, <1>1, <1>2 DEF CleanupInv, LateInv
  <1> QED
    BY Zenon, <1>1, <1>2, <1>3, <1>4, SameTasks DEF CleanupInv

-----------------------------------------------------------------------------
(* The event bus. *)

\* The queue holds ids.
LEMMA QueueIs ==
    ASSUME NEW q \in Seq(Id), NEW e \in Id, NEW U, \A i \in 1..Len(q) : q[i] \in U
    PROVE  /\ Append(q, e) \in Seq(Id)
           /\ e \in U => \A i \in 1..Len(Append(q, e)) : Append(q, e)[i] \in U
           /\ q # <<>> => /\ Head(q) \in Id /\ Head(q) \in U /\ Tail(q) \in Seq(Id)
                          /\ \A i \in 1..Len(Tail(q)) : Tail(q)[i] \in U
  <1>1. /\ Append(q, e) \in Seq(Id)
        /\ e \in U => \A i \in 1..Len(Append(q, e)) : Append(q, e)[i] \in U
    OBVIOUS
  <1>2. ASSUME q # <<>>
        PROVE  /\ Head(q) \in Id /\ Head(q) \in U /\ Tail(q) \in Seq(Id)
               /\ \A i \in 1..Len(Tail(q)) : Tail(q)[i] \in U
    <2>1. Len(q) \in Nat /\ Len(q) > 0 /\ Head(q) = q[1] /\ Tail(q) \in Seq(Id)
      BY <1>2
    <2>2. /\ Len(Tail(q)) = Len(q) - 1
          /\ \A i \in 1..Len(Tail(q)) : Tail(q)[i] = q[i + 1] /\ i + 1 \in 1..Len(q)
      BY <1>2, <2>1
    <2>3. 1 \in 1..Len(q)
      BY <2>1
    <2>4. \A i \in 1..Len(q) : q[i] \in Id
      OBVIOUS
    <2> QED
      BY Zenon, <2>1, <2>2, <2>3, <2>4
  <1> QED
    BY Zenon, <1>1, <1>2

\* An event is published for an entry that was removed.
LEMMA PublishInv ==
    ASSUME CleanupInv, NEW e \in used, Publish(e)
    PROVE  CleanupInv'
  <1>1. /\ e \in Id /\ e \in unlinked
        /\ toPublish' = Add(toPublish, e, -1) /\ eventQ' = Append(eventQ, e)
        /\ UNCHANGED <<tables, chunks, opening, opened, held, late, run>>
        /\ listening' = listening /\ saving' = saving /\ waiting' = waiting /\ batch' = batch
        /\ run' = run /\ scan' = scan
    BY Zenon, TableTypes DEF CleanupInv, OnlyUnlinked, Publish, tasks, loop
  <1>2. unlinked' = unlinked /\ TableInv' /\ KeptInv' /\ HeldInv' /\ LateInv'
    BY Zenon, <1>1, SameAll, SameTables
  <1>3. toPublish' \in [Id -> Int] /\ \A x \in Id : toPublish'[x] > 0 => x \in unlinked
    BY Zenon, <1>1, AddKeeps DEF CleanupInv, TypeOK, OnlyUnlinked
  <1>4. eventQ' \in Seq(Id) /\ \A i \in 1..Len(eventQ') : eventQ'[i] \in unlinked
    BY Zenon, <1>1, QueueIs DEF CleanupInv, TypeOK, OnlyUnlinked
  <1>5. TypeOK'
    BY Zenon, <1>1, <1>3, <1>4 DEF CleanupInv, TypeOK
  <1>6. OnlyUnlinked'
    BY Zenon, <1>1, <1>2, <1>3, <1>4 DEF CleanupInv, OnlyUnlinked
  <1> QED
    BY Zenon, <1>2, <1>5, <1>6 DEF CleanupInv

\* The event goes to the listener.
LEMMA DeliverInv ==
    ASSUME CleanupInv, Deliver
    PROVE  CleanupInv'
  <1> DEFINE e == Head(eventQ)
  <1>1. /\ eventQ # <<>> /\ eventQ' = Tail(eventQ)
        /\ listening' = Add(listening, e, 1) \/ listening' = listening
        /\ UNCHANGED <<tables, chunks, opening, opened, held, late, run>>
        /\ toPublish' = toPublish /\ saving' = saving /\ waiting' = waiting /\ batch' = batch
        /\ run' = run /\ scan' = scan
    BY Zenon DEF Deliver, clients, tasks, loop
  <1>2. unlinked' = unlinked /\ TableInv' /\ KeptInv' /\ HeldInv' /\ LateInv'
    BY Zenon, <1>1, SameAll, SameTables
  <1>3. Root \in Id
    BY Zenon, StoreAssumption
  <1>4. /\ e \in Id /\ e \in unlinked
        /\ eventQ' \in Seq(Id) /\ \A i \in 1..Len(eventQ') : eventQ'[i] \in unlinked
    BY Zenon, <1>1, <1>3, QueueIs DEF CleanupInv, TypeOK, OnlyUnlinked
  <1> HIDE DEF e
  <1>5. listening' \in [Id -> Int] /\ \A x \in Id : listening'[x] > 0 => x \in unlinked
    BY Zenon, <1>1, <1>4, AddMayFail DEF CleanupInv, TypeOK, OnlyUnlinked
  <1>6. TypeOK'
    BY Zenon, <1>1, <1>4, <1>5 DEF CleanupInv, TypeOK
  <1>7. OnlyUnlinked'
    BY Zenon, <1>1, <1>2, <1>4, <1>5 DEF CleanupInv, OnlyUnlinked
  <1> QED
    BY Zenon, <1>2, <1>6, <1>7 DEF CleanupInv

\* The listener looks for a task of the entry it was called for.
LEMMA HandleInv ==
    ASSUME CleanupInv, NEW e \in used, HandleEvent(e)
    PROVE  CleanupInv'
  <1>1. /\ e \in Id /\ e \in unlinked
        /\ listening' = Add(listening, e, -1) /\ (saving' = Add(saving, e, 1) \/ saving' = saving)
        /\ UNCHANGED <<tables, chunks, opening, opened, held, late, run>>
        /\ toPublish' = toPublish /\ eventQ' = eventQ /\ waiting' = waiting /\ batch' = batch
        /\ run' = run /\ scan' = scan
    BY Zenon, TableTypes DEF CleanupInv, OnlyUnlinked, HandleEvent, clients, tasks, loop
  <1>2. unlinked' = unlinked /\ TableInv' /\ KeptInv' /\ HeldInv' /\ LateInv'
    BY Zenon, <1>1, SameAll, SameTables
  <1>3. listening' \in [Id -> Int] /\ \A x \in Id : listening'[x] > 0 => x \in unlinked
    BY Zenon, <1>1, AddKeeps DEF CleanupInv, TypeOK, OnlyUnlinked
  <1>4. saving' \in [Id -> Int] /\ \A x \in Id : saving'[x] > 0 => x \in unlinked
    BY Zenon, <1>1, AddMayFail DEF CleanupInv, TypeOK, OnlyUnlinked
  <1>5. TypeOK'
    BY Zenon, <1>1, <1>3, <1>4 DEF CleanupInv, TypeOK
  <1>6. OnlyUnlinked'
    BY Zenon, <1>1, <1>2, <1>3, <1>4 DEF CleanupInv, OnlyUnlinked
  <1> QED
    BY Zenon, <1>2, <1>5, <1>6 DEF CleanupInv

\* The listener saves a task for that entry.
LEMMA SaveInv ==
    ASSUME CleanupInv, NEW e \in used, SaveTask(e)
    PROVE  CleanupInv'
  <1>1. /\ e \in Id /\ e \in unlinked
        /\ saving' = Add(saving, e, -1) /\ (waiting' = Add(waiting, e, 1) \/ waiting' = waiting)
        /\ UNCHANGED <<tables, chunks, opening, opened, held, late, run>>
        /\ toPublish' = toPublish /\ eventQ' = eventQ /\ listening' = listening /\ batch' = batch
        /\ run' = run /\ scan' = scan
    BY Zenon, TableTypes DEF CleanupInv, OnlyUnlinked, SaveTask, clients, loop
  <1>2. unlinked' = unlinked /\ TableInv' /\ KeptInv' /\ HeldInv' /\ LateInv'
    BY Zenon, <1>1, SameAll, SameTables
  <1>3. saving' \in [Id -> Int] /\ \A x \in Id : saving'[x] > 0 => x \in unlinked
    BY Zenon, <1>1, AddKeeps DEF CleanupInv, TypeOK, OnlyUnlinked
  <1>4. waiting' \in [Id -> Int] /\ \A x \in Id : waiting'[x] > 0 => x \in unlinked
    BY Zenon, <1>1, AddMayFail DEF CleanupInv, TypeOK, OnlyUnlinked
  <1>5. TypeOK'
    BY Zenon, <1>1, <1>3, <1>4 DEF CleanupInv, TypeOK
  <1>6. OnlyUnlinked'
    BY Zenon, <1>1, <1>2, <1>3, <1>4 DEF CleanupInv, OnlyUnlinked
  <1> QED
    BY Zenon, <1>2, <1>5, <1>6 DEF CleanupInv

-----------------------------------------------------------------------------
(* The dispatcher's loop. *)

\* The loop lists what waits.
LEMMA FindInv ==
    ASSUME CleanupInv, FindRunnableTasks
    PROVE  CleanupInv'
  <1>1. /\ UNCHANGED <<tables, chunks, opening, opened, held, late, run>>
        /\ toPublish' = toPublish /\ eventQ' = eventQ /\ listening' = listening /\ saving' = saving
        /\ waiting' = waiting /\ batch' = waiting /\ run' = run /\ scan' = scan
    BY Zenon DEF FindRunnableTasks, clients, bus
  <1>2. unlinked' = unlinked /\ TableInv' /\ KeptInv' /\ HeldInv' /\ LateInv'
    BY Zenon, <1>1, SameAll, SameTables
  <1>3. TypeOK'
    BY Zenon, <1>1 DEF CleanupInv, TypeOK
  <1>4. OnlyUnlinked'
    BY Zenon, <1>1, <1>2 DEF CleanupInv, OnlyUnlinked
  <1> QED
    BY Zenon, <1>2, <1>3, <1>4 DEF CleanupInv

\* The loop takes a task of its list; when it cannot save that, nothing runs.
LEMMA DispatchInv ==
    ASSUME CleanupInv, NEW e \in used, Dispatch(e)
    PROVE  CleanupInv'
  <1>1. /\ e \in Id /\ e \in unlinked /\ batch' = Add(batch, e, -1)
        /\ \/ waiting' = Add(waiting, e, -1) /\ run' = [id |-> e, step |-> "check"]
           \/ waiting' = waiting /\ run' = run
        /\ UNCHANGED <<tables, chunks, clients, bus, scan>>
    BY Zenon, TableTypes DEF CleanupInv, OnlyUnlinked, Dispatch
  <1>2. /\ toPublish' = toPublish /\ eventQ' = eventQ /\ listening' = listening /\ saving' = saving
        /\ scan' = scan /\ data' = data /\ cleaned' = cleaned /\ opening' = opening
        /\ opened' = opened /\ held' = held /\ late' = late
    BY Zenon, <1>1 DEF clients, bus, chunks
  <1>3. /\ TableInv' /\ KeptInv'
        /\ rows' = rows /\ used' = used /\ entry' = entry /\ unlinked' = unlinked
    BY Zenon, <1>1, <1>2, SameTables
  <1>4. batch' \in [Id -> Int] /\ \A x \in Id : batch'[x] > 0 => x \in unlinked
    BY Zenon, <1>1, AddKeeps DEF CleanupInv, TypeOK, OnlyUnlinked
  <1>5. CASE waiting' = Add(waiting, e, -1) /\ run' = [id |-> e, step |-> "check"]
    <2>1. waiting' \in [Id -> Int] /\ \A x \in Id : waiting'[x] > 0 => x \in unlinked
      BY Zenon, <1>1, <1>5, AddKeeps DEF CleanupInv, TypeOK, OnlyUnlinked
    <2>2. run'.id = e /\ run'.step = "check" /\ run' \in [id : Id \cup {NoId}, step : Step]
      BY <1>1, <1>5 DEF Step
    <2>3. TypeOK'
      BY Zenon, <1>2, <1>4, <2>1, <2>2 DEF CleanupInv, TypeOK
    <2>4. OnlyUnlinked'
      BY Zenon, <1>1, <1>2, <1>3, <1>4, <2>1, <2>2 DEF CleanupInv, OnlyUnlinked
    <2>5. HeldInv'
      BY Zenon, <1>2, <1>3, <2>2 DEF CleanupInv, HeldInv
    <2>6. LateInv'
      BY Zenon, <1>2, <1>3, <2>2 DEF CleanupInv, LateInv
    <2> QED
      BY Zenon, <1>3, <2>3, <2>4, <2>5, <2>6 DEF CleanupInv
  <1>6. CASE waiting' = waiting /\ run' = run
    <2>1. TypeOK'
      BY Zenon, <1>2, <1>4, <1>6 DEF CleanupInv, TypeOK
    <2>2. OnlyUnlinked'
      BY Zenon, <1>2, <1>3, <1>4, <1>6 DEF CleanupInv, OnlyUnlinked
    <2> QED
      BY Zenon, <1>1, <1>2, <1>6, <2>1, <2>2, SameAll DEF CleanupInv
  <1> QED
    BY Zenon, <1>1, <1>5, <1>6

\* The task in progress moves on, for the same entry.
LEMMA RunMoves ==
    ASSUME CleanupInv, UNCHANGED <<unlinked, toPublish, bus, waiting, batch, scan>>,
           run' \in [id : Id \cup {NoId}, step : Step], run'.id = run.id
    PROVE  TypeOK' /\ OnlyUnlinked'
  <1>1. /\ toPublish' = toPublish /\ eventQ' = eventQ /\ listening' = listening /\ saving' = saving
        /\ waiting' = waiting /\ batch' = batch /\ scan' = scan /\ unlinked' = unlinked
    BY Zenon DEF bus
  <1>2. TypeOK'
    BY Zenon, <1>1 DEF CleanupInv, TypeOK
  <1>3. OnlyUnlinked'
    BY Zenon, <1>1 DEF CleanupInv, OnlyUnlinked
  <1> QED
    BY <1>2, <1>3

\* What GoesTo does to the task in progress.
LEMMA GoesToIs ==
    ASSUME NEW e \in Id, NEW s \in Step, NEW t \in Step, Executes(e, s), GoesTo(t)
    PROVE  /\ run.id = e /\ run.step = s /\ run'.id = e /\ run'.step = t
           /\ run' \in [id : Id \cup {NoId}, step : Step]
  BY Zenon DEF Executes, GoesTo

\* execute looks for open handles: a file that has one is left alone.
LEMMA CheckInv ==
    ASSUME CleanupInv, NEW e \in used, Check(e)
    PROVE  CleanupInv'
  <1> DEFINE t == IF e \in opened THEN "wait" ELSE
                  IF e \notin rows THEN "failed" ELSE
                  IF entry[e].isGroup THEN "destroy" ELSE "clean"
  <1>1. /\ e \in Id /\ Executes(e, "check") /\ late' = late \ ({e} \cap rows)
        /\ GoesTo(t) \/ (e \notin opened /\ GoesTo("failed"))
        /\ UNCHANGED <<tables, chunks, opening, opened, toPublish, held, bus, tasks, batch, scan, aged>>
    BY Zenon, TableTypes DEF CleanupInv, Check
  <1>2. /\ t \in Step /\ "failed" \in Step /\ "check" \in Step
        /\ e \in opened => t = "wait"
        /\ t = "destroy" => entry[e].isGroup
    BY Zenon DEF Step
  <1> HIDE DEF t
  <1>3. /\ run.id = e /\ run'.id = e /\ run' \in [id : Id \cup {NoId}, step : Step]
        /\ e \in opened => run'.step = "wait"
        /\ run'.step = "destroy" => entry[e].isGroup
    <2>1. CASE GoesTo(t)
      BY Zenon, <1>1, <1>2, <2>1, GoesToIs
    <2>2. CASE e \notin opened /\ GoesTo("failed")
      <3>1. run.id = e /\ run'.id = e /\ run' \in [id : Id \cup {NoId}, step : Step] /\ run'.step = "failed"
        BY Zenon, <1>1, <1>2, <2>2, GoesToIs
      <3>2. run'.step # "destroy"
        BY Zenon, <3>1
      <3> QED
        BY Zenon, <2>2, <3>1, <3>2
    <2> QED
      BY Zenon, <1>1, <2>1, <2>2
  <1>4. /\ data' = data /\ cleaned' = cleaned /\ opening' = opening /\ opened' = opened /\ held' = held
        /\ UNCHANGED tables /\ UNCHANGED <<toPublish, bus, waiting, batch, scan>>
    BY Zenon, <1>1 DEF chunks, tasks
  <1>5. /\ TableInv' /\ KeptInv'
        /\ rows' = rows /\ used' = used /\ entry' = entry /\ unlinked' = unlinked
    BY Zenon, <1>4, SameTables
  <1>6. TypeOK' /\ OnlyUnlinked'
    BY Zenon, <1>3, <1>4, <1>5, RunMoves
  <1>7. HeldInv'
    BY Zenon, <1>3, <1>4, <1>5 DEF CleanupInv, HeldInv
  <1>8. LateInv'
    <2>1. run'.step \in {"clean", "destroy"} => run'.id \notin opened
      BY Zenon, <1>3
    <2> QED
      BY Zenon, <2>1, <1>1, <1>3, <1>4, <1>5 DEF CleanupInv, LateInv
  <1> QED
    BY Zenon, <1>5, <1>6, <1>7, <1>8 DEF CleanupInv

\* The data of an unlinked file that no task has to leave alone goes.
LEMMA CleanInv ==
    ASSUME CleanupInv, NEW e \in used, Clean(e)
    PROVE  CleanupInv'
  <1>1. /\ e \in Id /\ Executes(e, "clean") /\ cleaned' = cleaned \cup {e}
        /\ \/ data' = data \ {e} /\ GoesTo("destroy")
           \/ data' = data /\ GoesTo("failed")
        /\ UNCHANGED <<tables, clients, bus, tasks, batch, scan, aged>>
    BY Zenon, TableTypes DEF CleanupInv, Clean
  <1>2. {"clean", "destroy", "failed"} \subseteq Step
    BY Zenon DEF Step
  <1>3. /\ run.id = e /\ run.step = "clean"
        /\ run'.id = e /\ run' \in [id : Id \cup {NoId}, step : Step]
        /\ \/ data' = data \ {e} /\ run'.step = "destroy"
           \/ data' = data /\ run'.step = "failed"
    BY Zenon, <1>1, <1>2, GoesToIs
  <1>4. /\ opening' = opening /\ opened' = opened /\ held' = held /\ late' = late
        /\ UNCHANGED tables /\ UNCHANGED <<toPublish, bus, waiting, batch, scan>>
    BY Zenon, <1>1 DEF clients, tasks
  <1>5. /\ TableInv' /\ rows' = rows /\ used' = used /\ entry' = entry /\ unlinked' = unlinked
        /\ UNCHANGED children
    BY Zenon, <1>4, SameTables DEF tables
  <1>6. TypeOK' /\ OnlyUnlinked'
    BY Zenon, <1>3, <1>4, <1>5, RunMoves
  <1>7. e \in unlinked /\ e \notin held
    <2>1. run.step \notin {"check", "wait"}
      BY Zenon, <1>3
    <2>2. e # NoId
      BY <1>1, StoreAssumption
    <2> QED
      BY Zenon, <1>3, <2>1, <2>2 DEF CleanupInv, OnlyUnlinked, HeldInv
  <1>8. KeptInv'
    BY Zenon, <1>1, <1>5, <1>7 DEF CleanupInv, KeptInv, Store!Linked, Store!LinksOf
  <1>9. HeldInv'
    BY Zenon, <1>1, <1>3, <1>4, <1>5, <1>7 DEF CleanupInv, HeldInv
  <1>10. LateInv'
    <2>1. run'.step \in {"destroy", "failed"} /\ (run'.step = "destroy" => e \notin data') /\ data' \subseteq data
      BY <1>3
    <2>2. run.step \in {"clean", "destroy"}
      BY <1>3
    <2> QED
      BY Zenon, <2>1, <2>2, <1>3, <1>4, <1>5 DEF CleanupInv, LateInv
  <1> QED
    BY Zenon, <1>5, <1>6, <1>8, <1>9, <1>10 DEF CleanupInv

\* The row of an unlinked entry goes; what data there is was written late.
LEMMA DestroyInv ==
    ASSUME CleanupInv, TableInv', NEW e \in used, Destroy(e)
    PROVE  CleanupInv'
  <1>1. /\ e \in Id /\ Executes(e, "destroy")
        /\ \/ Store!DeleteRemovedEntry(e) /\ GoesTo("succeed")
           \/ UNCHANGED tables /\ GoesTo("failed")
        /\ UNCHANGED <<chunks, clients, bus, tasks, batch, scan, aged>>
    BY Zenon, TableTypes DEF CleanupInv, Destroy
  <1>2. {"destroy", "succeed", "failed"} \subseteq Step
    BY Zenon DEF Step
  <1>3. /\ run.id = e /\ run.step = "destroy"
        /\ run'.id = e /\ run' \in [id : Id \cup {NoId}, step : Step]
        /\ run'.step \in {"succeed", "failed"}
    BY Zenon, <1>1, <1>2, GoesToIs
  <1>4. /\ data' = data /\ cleaned' = cleaned
        /\ opening' = opening /\ opened' = opened /\ held' = held /\ late' = late
        /\ UNCHANGED <<toPublish, bus, waiting, batch, scan>>
    BY Zenon, <1>1 DEF clients, tasks, chunks
  <1>5. e \in unlinked /\ e \notin held /\ (e \in data => e \in late)
    <2>1. run.step \notin {"check", "wait"}
      BY <1>3
    <2>2. e # NoId
      BY <1>1, StoreAssumption
    <2> QED
      BY Zenon, <1>3, <2>1, <2>2 DEF CleanupInv, OnlyUnlinked, HeldInv, LateInv
  <1>6. /\ used' = used /\ entry' = entry /\ unlinked' = unlinked /\ children' = children
        /\ rows \ {e} \subseteq rows'
    <2>1. CASE Store!DeleteRemovedEntry(e)
      BY Zenon, <2>1 DEF Store!DeleteRemovedEntry
    <2>2. CASE UNCHANGED tables
      BY Zenon, <2>2, SameTables DEF tables
    <2> QED
      BY Zenon, <1>1, <2>1, <2>2
  <1>7. TypeOK' /\ OnlyUnlinked'
    BY Zenon, <1>3, <1>4, <1>6, RunMoves
  <1>8. KeptInv'
    BY Zenon, <1>4, <1>5, <1>6 DEF CleanupInv, KeptInv, Store!Linked, Store!LinksOf
  <1>9. HeldInv'
    BY Zenon, <1>3, <1>4, <1>5, <1>6 DEF CleanupInv, HeldInv
  <1>10. LateInv'
    <2>1. run'.step \notin {"clean", "destroy"}
      BY <1>3
    <2> QED
      BY Zenon, <2>1, <1>4, <1>5, <1>6 DEF CleanupInv, LateInv
  <1> QED
    BY Zenon, <1>7, <1>8, <1>9, <1>10 DEF CleanupInv

\* A task ends, and waits again when the file was open.
LEMMA FinishInv ==
    ASSUME CleanupInv, NEW e \in used, Finish(e)
    PROVE  CleanupInv'
  <1>1. /\ e \in Id /\ run.id = e /\ run' = Idle
        /\ waiting' = Add(waiting, e, 1) \/ waiting' = waiting
        /\ UNCHANGED <<tables, chunks, clients, bus, batch, scan>>
    <2>1. run.id = e
      BY DEF Finish, Executes
    <2> QED
      BY Zenon, <2>1, TableTypes DEF CleanupInv, Finish
  <1>2. /\ toPublish' = toPublish /\ eventQ' = eventQ /\ listening' = listening /\ saving' = saving
        /\ batch' = batch /\ scan' = scan /\ data' = data /\ cleaned' = cleaned /\ opening' = opening
        /\ opened' = opened /\ held' = held /\ late' = late
    BY Zenon, <1>1 DEF clients, bus, chunks
  <1>3. /\ TableInv' /\ KeptInv'
        /\ rows' = rows /\ used' = used /\ entry' = entry /\ unlinked' = unlinked
    BY Zenon, <1>1, <1>2, SameTables
  <1>4. e \in unlinked
    <2>1. e # NoId
      BY <1>1, StoreAssumption
    <2> QED
      BY Zenon, <1>1, <2>1 DEF CleanupInv, OnlyUnlinked
  <1>5. waiting' \in [Id -> Int] /\ \A x \in Id : waiting'[x] > 0 => x \in unlinked
    <2>1. waiting \in [Id -> Int] /\ \A x \in Id : waiting[x] > 0 => x \in unlinked
      BY Zenon DEF CleanupInv, TypeOK, OnlyUnlinked
    <2> QED
      BY Zenon, <2>1, <1>1, <1>4, AddMayFail
  <1>6. run'.id = NoId /\ run' \in [id : Id \cup {NoId}, step : Step] /\ run'.step \notin {"clean", "destroy"}
    BY <1>1 DEF Idle, Step
  <1>7. TypeOK'
    BY Zenon, <1>2, <1>5, <1>6 DEF CleanupInv, TypeOK
  <1>8. OnlyUnlinked'
    BY Zenon, <1>2, <1>3, <1>5, <1>6 DEF CleanupInv, OnlyUnlinked
  <1>9. NoId \notin held
    BY Zenon, TableTypes, StoreAssumption DEF CleanupInv, HeldInv
  <1>10. HeldInv'
    BY Zenon, <1>2, <1>3, <1>6, <1>9 DEF CleanupInv, HeldInv
  <1>11. LateInv'
    BY Zenon, <1>2, <1>3, <1>6 DEF CleanupInv, LateInv
  <1> QED
    BY Zenon, <1>3, <1>7, <1>8, <1>10, <1>11 DEF CleanupInv

-----------------------------------------------------------------------------
(* The orphan scan, time and crashes. *)

\* A row with a reference count of zero was unlinked.
LEMMA OrphansAreUnlinked ==
    ASSUME CleanupInv
    PROVE  Orphans \subseteq unlinked
  BY Zenon, TableTypes DEF CleanupInv, KeptInv, Orphans, TableInv

\* The scan makes tasks for orphans.
LEMMA ScanInv ==
    ASSUME CleanupInv, Scan
    PROVE  CleanupInv'
  <1>1. /\ UNCHANGED <<tables, chunks, clients, bus, loop>>
        /\ \/ waiting' = waiting /\ scan' = [todo |-> Orphans, id |-> NoId]
           \/ \E e \in used : /\ waiting' = waiting /\ e \in scan.todo
                              /\ scan' = [todo |-> scan.todo \ {e},
                                          id   |-> IF waiting[e] + executing[e] = 0 THEN e ELSE NoId]
           \/ \E e \in used : /\ scan.id = e /\ scan' = [scan EXCEPT !.id = NoId]
                              /\ waiting' = Add(waiting, e, 1) \/ waiting' = waiting
    BY Zenon DEF Scan, ScanOrphanEntries, ScanCheck, ScanSave, tasks
  <1>2. /\ toPublish' = toPublish /\ eventQ' = eventQ /\ listening' = listening /\ saving' = saving
        /\ batch' = batch /\ run' = run
    BY Zenon, <1>1 DEF clients, bus, loop
  <1>3. UNCHANGED <<tables, chunks, opening, opened, held, late, run>>
    BY Zenon, <1>1, <1>2 DEF clients
  <1>4. unlinked' = unlinked /\ TableInv' /\ KeptInv' /\ HeldInv' /\ LateInv'
    BY Zenon, <1>3, SameAll, SameTables
  <1>5. /\ used \subseteq Id /\ unlinked \subseteq Id
        /\ scan \in [todo : SUBSET Id, id : Id \cup {NoId}]
        /\ scan.todo \subseteq unlinked /\ scan.id \in unlinked \cup {NoId} /\ Orphans \subseteq unlinked
        /\ waiting \in [Id -> Int] /\ \A x \in Id : waiting[x] > 0 => x \in unlinked
    BY Zenon, TableTypes, OrphansAreUnlinked DEF CleanupInv, TypeOK, OnlyUnlinked
  <1>6. /\ scan' \in [todo : SUBSET Id, id : Id \cup {NoId}]
        /\ scan'.todo \subseteq unlinked /\ scan'.id \in unlinked \cup {NoId}
    <2> DEFINE To(sc) == /\ sc \in [todo : SUBSET Id, id : Id \cup {NoId}]
                         /\ sc.todo \subseteq unlinked /\ sc.id \in unlinked \cup {NoId}
    <2>1. To([todo |-> Orphans, id |-> NoId])
      BY <1>5
    <2>2. ASSUME NEW e \in scan.todo
          PROVE  To([todo |-> scan.todo \ {e}, id |-> IF waiting[e] + executing[e] = 0 THEN e ELSE NoId])
      <3> DEFINE i == IF waiting[e] + executing[e] = 0 THEN e ELSE NoId
      <3>1. i \in {e, NoId}
        BY Zenon
      <3> HIDE DEF i
      <3>2. To([todo |-> scan.todo \ {e}, id |-> i])
        BY <1>5, <3>1
      <3> QED
        BY Zenon, <3>2 DEF i
    <2>3. To([scan EXCEPT !.id = NoId])
      BY <1>5
    <2> HIDE DEF To
    <2>4. To(scan')
      BY Zenon, <1>1, <2>1, <2>2, <2>3
    <2> QED
      BY Zenon, <2>4 DEF To
  <1>7. waiting' \in [Id -> Int] /\ \A x \in Id : waiting'[x] > 0 => x \in unlinked
    <2>1. CASE waiting' = waiting
      BY Zenon, <2>1, <1>5
    <2>2. ASSUME NEW e \in used, scan.id = e, waiting' = Add(waiting, e, 1) \/ waiting' = waiting
          PROVE  waiting' \in [Id -> Int] /\ \A x \in Id : waiting'[x] > 0 => x \in unlinked
      <3>1. e \in Id /\ e # NoId /\ e \in unlinked
        BY Zenon, <1>5, <2>2, StoreAssumption
      <3> QED
        BY Zenon, <2>2, <3>1, <1>5, AddMayFail
    <2> QED
      BY Zenon, <1>1, <2>1, <2>2
  <1>8. TypeOK'
    BY Zenon, <1>2, <1>6, <1>7 DEF CleanupInv, TypeOK
  <1>9. OnlyUnlinked'
    BY Zenon, <1>2, <1>4, <1>6, <1>7 DEF CleanupInv, OnlyUnlinked
  <1> QED
    BY Zenon, <1>4, <1>8, <1>9 DEF CleanupInv

\* Entries age and tasks expire.
LEMMA ClockInv ==
    ASSUME CleanupInv, NEW e \in used, Age(e) \/ Expire(e)
    PROVE  CleanupInv'
  <1>1. UNCHANGED <<tables, chunks, opening, opened, held, late, run>>
    BY Zenon DEF Age, Expire, clients, loop
  <1>2. UNCHANGED <<toPublish, bus, waiting, batch, run, scan>>
    BY Zenon DEF Age, Expire, clients, loop, tasks
  <1> QED
    BY Zenon, <1>1, <1>2, SameAll, SameTables, SameTasks DEF CleanupInv

\* The initial counts and the counts after a crash are zero.
LEMMA NoneIs ==
    /\ None \in [Id -> Int]
    /\ \A e \in Id : ~(None[e] > 0)
  BY DEF None

\* A crash ends every protection with the handles themselves.
LEMMA CrashInv ==
    ASSUME CleanupInv, Crash
    PROVE  CleanupInv'
  <1>1. /\ opening' = {} /\ opened' = {} /\ held' = {} /\ toPublish' = None
        /\ eventQ' = <<>> /\ listening' = None /\ saving' = None /\ batch' = None
        /\ run' = Idle /\ scan' = NoScan /\ UNCHANGED tables
        /\ data' = data /\ cleaned' = cleaned /\ late' = late /\ waiting' = waiting
    BY Zenon DEF Crash, chunks, tasks
  <1>2. /\ TableInv' /\ KeptInv'
        /\ rows' = rows /\ used' = used /\ entry' = entry /\ unlinked' = unlinked
    BY Zenon, <1>1, SameTables
  <1>3. /\ run'.id = NoId /\ run' \in [id : Id \cup {NoId}, step : Step]
        /\ run'.step \notin {"clean", "destroy"}
        /\ scan' \in [todo : SUBSET Id, id : Id \cup {NoId}] /\ scan'.todo = {} /\ scan'.id = NoId
        /\ eventQ' \in Seq(Id) /\ \A i \in 1..Len(eventQ') : FALSE
    BY <1>1 DEF Idle, NoScan, Step
  <1>4. TypeOK'
    BY Zenon, <1>1, <1>3, NoneIs DEF CleanupInv, TypeOK
  <1>5. OnlyUnlinked'
    BY Zenon, <1>1, <1>2, <1>3, NoneIs DEF CleanupInv, OnlyUnlinked
  <1>6. HeldInv'
    BY Zenon, <1>1 DEF HeldInv
  <1>7. LateInv'
    BY Zenon, <1>1, <1>2, <1>3 DEF CleanupInv, LateInv
  <1> QED
    BY Zenon, <1>2, <1>4, <1>5, <1>6, <1>7 DEF CleanupInv

-----------------------------------------------------------------------------
(* All of them, given what is known of the tables. *)

\* In the initial state there is nothing to clean.
LEMMA InitInv ==
    ASSUME Init, TableInv
    PROVE  CleanupInv
  <1>1. /\ run.id = NoId /\ run \in [id : Id \cup {NoId}, step : Step]
        /\ run.step \notin {"clean", "destroy"}
        /\ scan \in [todo : SUBSET Id, id : Id \cup {NoId}] /\ scan.todo = {} /\ scan.id = NoId
        /\ eventQ \in Seq(Id) /\ \A i \in 1..Len(eventQ) : FALSE
    BY DEF Init, Idle, NoScan, Step
  <1>2. TypeOK
    BY Zenon, <1>1, NoneIs DEF Init, TypeOK
  <1>3. OnlyUnlinked
    BY Zenon, <1>1, NoneIs DEF Init, OnlyUnlinked
  <1>4. KeptInv
    BY Zenon DEF Init, KeptInv, Store!Init, Store!Linked
  <1>5. HeldInv
    BY Zenon DEF Init, HeldInv
  <1>6. LateInv
    BY Zenon, <1>1 DEF Init, LateInv
  <1> QED
    BY Zenon, <1>2, <1>3, <1>4, <1>5, <1>6 DEF CleanupInv

\* Every step keeps the invariant when it leaves the tables sound.
LEMMA NextInv == CleanupInv /\ TableInv' /\ [Next]_vars => CleanupInv'
  <1> SUFFICES ASSUME CleanupInv, TableInv', [Next]_vars PROVE CleanupInv'
    OBVIOUS
  <1>1. CASE Client
    BY Zenon, <1>1, LinkInv, RemoveInv, OpenTxInv, OpenCountInv, WriteInv, CloseInv DEF Client
  <1>2. CASE Executor
    BY Zenon, <1>2, FindInv, DispatchInv, CheckInv, CleanInv, DestroyInv, FinishInv DEF Executor
  <1>3. CASE \E e \in used : Publish(e) \/ HandleEvent(e) \/ SaveTask(e) \/ Age(e) \/ Expire(e)
    BY Zenon, <1>3, PublishInv, HandleInv, SaveInv, ClockInv
  <1>4. CASE UNCHANGED vars
    <2>1. UNCHANGED <<tables, chunks, opening, opened, held, late, run>>
      BY Zenon, <1>4 DEF vars, clients, loop
    <2>2. UNCHANGED <<toPublish, bus, waiting, batch, run, scan>>
      BY Zenon, <1>4 DEF vars, clients, loop, tasks
    <2> QED
      BY Zenon, <2>1, <2>2, SameAll, SameTables, SameTasks DEF CleanupInv
  <1> QED
    BY Zenon, <1>1, <1>2, <1>3, <1>4, DeliverInv, ScanInv, CrashInv DEF Next

-----------------------------------------------------------------------------
(* The tables. *)

\* What is proved of the tables.
SP == INSTANCE MetaStoreProofs

\* The inductive invariant.
IInv == SP!IInv /\ CleanupInv

\* A transaction here is a transaction of the module that MetaStoreProofs is
\* about.
LEMMA StoreSteps ==
    /\ Store!Init => SP!Init
    /\ \A p, e, n, g : Store!CreateEntry(p, e, n, g) => SP!CreateEntry(p, e, n, g)
    /\ \A e, p, n : Store!MirrorEntry(e, p, n) => SP!MirrorEntry(e, p, n)
    /\ \A p, e, n : Store!RemoveEntry(p, e, n) => SP!RemoveEntry(p, e, n)
    /\ \A e : Store!Open(e, FALSE) => SP!Open(e, FALSE)
    /\ \A e : Store!DeleteRemovedEntry(e) => SP!DeleteRemovedEntry(e)
  <1>1. Store!Init => SP!Init
    BY Zenon DEF Store!Init, SP!Init, Store!NewRow, SP!NewRow, Store!NoCopy, SP!NoCopy
  <1>2. ASSUME NEW p, NEW e, NEW n, NEW g, Store!CreateEntry(p, e, n, g)
        PROVE  SP!CreateEntry(p, e, n, g)
    <2>1. /\ e \notin used /\ p \in rows /\ SP!FindEntry(p, n) = {} /\ SP!HasRoom({p})
          /\ rows' = rows \cup {e} /\ used' = used \cup {e} /\ UNCHANGED <<unlinked, copy>>
          /\ children' = children \cup {[parent |-> p, name |-> n, child |-> e]}
      BY Zenon, <1>2 DEF Store!CreateEntry, Store!FindEntry, SP!FindEntry, Store!HasRoom, SP!HasRoom
    <2>2. entry' = SP!AddRef([entry EXCEPT ![e] = SP!NewRow(g)], p, IF g THEN 1 ELSE 0)
      BY Zenon, <1>2 DEF Store!CreateEntry, Store!AddRef, SP!AddRef, Store!Bump, SP!Bump, Store!NewRow, SP!NewRow
    <2> QED
      BY <2>1, <2>2 DEF SP!CreateEntry
  <1>3. ASSUME NEW e, NEW p, NEW n, Store!MirrorEntry(e, p, n)
        PROVE  SP!MirrorEntry(e, p, n)
    <2>1. /\ SP!Mirrorable(e, p) /\ {e, p} \subseteq rows /\ SP!FindEntry(p, n) = {} /\ SP!HasRoom({p, e})
          /\ UNCHANGED <<rows, used, unlinked, copy>>
          /\ children' = children \cup {[parent |-> p, name |-> n, child |-> e]}
      BY Zenon, <1>3 DEF Store!MirrorEntry, Store!Mirrorable, SP!Mirrorable, Store!FindEntry, SP!FindEntry,
         Store!HasRoom, SP!HasRoom
    <2>2. entry' = SP!AddRef(SP!AddRef(entry, e, 1), p, 0)
      BY Zenon, <1>3 DEF Store!MirrorEntry, Store!AddRef, SP!AddRef, Store!Bump, SP!Bump
    <2> QED
      BY <2>1, <2>2 DEF SP!MirrorEntry
  <1>4. ASSUME NEW p, NEW e, NEW n, Store!RemoveEntry(p, e, n)
        PROVE  SP!RemoveEntry(p, e, n)
    <2> DEFINE k   == IF entry[e].isGroup THEN 1 ELSE 0
               ref == entry[e].refCount - k - 1
    <2>1. /\ e \in rows /\ [parent |-> p, name |-> n, child |-> e] \in children
          /\ p \in rows /\ p # e /\ SP!Removable(e) /\ SP!HasRoom({p, e})
          /\ children' = children \ {[parent |-> p, name |-> n, child |-> e]}
          /\ unlinked' = unlinked \cup {e} /\ UNCHANGED <<rows, used, copy>>
      BY Zenon, <1>4 DEF Store!RemoveEntry, Store!Removable, SP!Removable, Store!HasRoom, SP!HasRoom,
         Store!ChildrenOf, SP!ChildrenOf
    <2>2. entry' = [SP!AddRef(entry, p, -k) EXCEPT ![e] = SP!Bump(@, IF ref < 0 THEN 0 ELSE ref, @.size)]
      BY Zenon, <1>4 DEF Store!RemoveEntry, Store!AddRef, SP!AddRef, Store!Bump, SP!Bump
    <2> QED
      BY <2>1, <2>2 DEF SP!RemoveEntry
  <1>5. \A e : Store!Open(e, FALSE) => SP!Open(e, FALSE)
    BY Zenon DEF Store!Open, SP!Open, Store!HasRoom, SP!HasRoom, Store!Bump, SP!Bump
  <1>6. \A e : Store!DeleteRemovedEntry(e) => SP!DeleteRemovedEntry(e)
    BY Zenon DEF Store!DeleteRemovedEntry, SP!DeleteRemovedEntry
  <1> QED
    BY Zenon, <1>1, <1>2, <1>3, <1>4, <1>5, <1>6

\* A step that leaves the tables alone keeps their invariant.
LEMMA SameStore ==
    ASSUME SP!IInv, UNCHANGED tables
    PROVE  SP!IInv'
  <1>1. UNCHANGED SP!vars
    BY Zenon DEF tables, SP!vars
  <1> QED
    BY Zenon, <1>1, SP!NextIInv, StoreAssumption

\* What is proved of the tables is what the steps of cleanup need.
LEMMA TablesAreSound == SP!IInv => TableInv
  <1> SUFFICES ASSUME SP!IInv PROVE TableInv
    OBVIOUS
  <1>1. /\ rows \subseteq used /\ used \subseteq Id /\ unlinked \subseteq used
        /\ entry \in [Id -> SP!Row] /\ \A r \in children : r.child \in used
    BY Zenon DEF SP!IInv, SP!TypeOK, SP!Allocated
  <1>2. ASSUME NEW e \in rows, entry[e].refCount = 0
        PROVE  ~Store!Linked(e)
    <2>1. ~SP!Linked(e)
      BY Zenon, <1>2, SP!NoLinks, StoreAssumption
    <2> QED
      BY Zenon, <2>1 DEF SP!Linked, Store!Linked, SP!LinksOf, Store!LinksOf
  <1> QED
    BY Zenon, <1>1, <1>2 DEF TableInv, SP!Row, Store!Row

\* The transactions of clients keep the invariant of the tables.
LEMMA ClientTables ==
    ASSUME IInv, Client
    PROVE  SP!IInv'
  <1>1. SP!IInv /\ used \subseteq Id /\ entry \in [Id -> Store!Row] /\ rows \subseteq used
    BY Zenon DEF IInv, CleanupInv, TableInv
  <1>2. ASSUME NEW p \in used, NEW e \in Id, NEW n \in Name, NEW g \in BOOLEAN, CreateEntry(p, e, n, g)
        PROVE  SP!IInv'
    BY Zenon, <1>1, <1>2, StoreSteps, SP!CreateEntryIInv, StoreAssumption DEF CreateEntry
  <1>3. ASSUME NEW e \in used, NEW p \in used, NEW n \in Name, MirrorEntry(e, p, n)
        PROVE  SP!IInv'
    BY Zenon, <1>1, <1>3, StoreSteps, SP!MirrorEntryIInv, StoreAssumption DEF MirrorEntry
  <1>4. ASSUME NEW p \in used, NEW e \in used, NEW n \in Name, NEW k, RemoveEntry(p, e, n, k)
        PROVE  SP!IInv'
    BY Zenon, <1>1, <1>4, StoreSteps, SP!RemoveEntryIInv, StoreAssumption DEF RemoveEntry
  <1>5. ASSUME NEW e \in used, OpenTx(e)
        PROVE  SP!IInv'
    <2>1. 0 \in 0..MaxSize
      BY StoreAssumption
    <2>2. FALSE \in BOOLEAN /\ SP!Open(e, FALSE)
      BY Zenon, <1>5, StoreSteps DEF OpenTx
    <2> QED
      BY Zenon, <1>1, <2>1, <2>2, SP!SizeStepIInv, StoreAssumption
  <1>6. ASSUME NEW e \in used, Write(e)
        PROVE  SP!IInv'
    <2>1. /\ e \in rows /\ entry' = Store!AddRef(entry, e, 0)
          /\ UNCHANGED <<rows, used, children, unlinked>> /\ copy' = copy
      BY Zenon, <1>6 DEF Write
    <2>2. e \in Id /\ entry[e].refCount \in Int /\ entry[e].size \in Nat
      BY <1>1 DEF Store!Row
    <2>3. entry' = [entry EXCEPT ![e] = SP!Bump(entry[e], entry[e].refCount, entry[e].size)]
      <3>1. entry[e].refCount + 0 = entry[e].refCount
        BY <2>2
      <3>2. entry' = [entry EXCEPT ![e] = SP!Bump(entry[e], entry[e].refCount + 0, entry[e].size)]
        BY Zenon, <2>1 DEF Store!AddRef, Store!Bump, SP!Bump
      <3> QED
        BY Zenon, <3>1, <3>2
    <2>4. copy' \in [Reader -> [id : Id \cup {NoId}, row : SP!Row]]
      BY Zenon, <1>1, <2>1 DEF SP!IInv, SP!TypeOK
    <2> QED
      BY Zenon, <1>1, <2>1, <2>2, <2>3, <2>4, SP!RowUpdateIInv, StoreAssumption
  <1>7. ASSUME NEW e \in used, OpenCount(e) \/ CloseFile(e)
        PROVE  SP!IInv'
    BY Zenon, <1>1, <1>7, SameStore DEF OpenCount, CloseFile
  <1> QED
    BY Zenon, <1>2, <1>3, <1>4, <1>5, <1>6, <1>7 DEF Client

\* Every step keeps the invariant of the tables: only an entry that was
\* unlinked is destroyed.
LEMMA TablesStep ==
    ASSUME IInv, [Next]_vars
    PROVE  SP!IInv'
  <1>1. SP!IInv
    BY Zenon DEF IInv
  <1>2. ASSUME NEW e \in used, Destroy(e)
        PROVE  SP!IInv'
    <2>1. e \in unlinked
      <3>1. run.id = e
        BY <1>2 DEF Destroy, Executes
      <3>2. e # NoId
        BY Zenon, StoreAssumption DEF IInv, CleanupInv, TableInv
      <3> QED
        BY Zenon, <3>1, <3>2 DEF IInv, CleanupInv, OnlyUnlinked
    <2>2. CASE Store!DeleteRemovedEntry(e)
      BY Zenon, <1>1, <2>1, <2>2, StoreSteps, SP!DeleteRemovedEntryIInv, StoreAssumption
    <2>3. CASE UNCHANGED tables
      BY Zenon, <1>1, <2>3, SameStore
    <2> QED
      BY Zenon, <1>2, <2>2, <2>3 DEF Destroy
  <1>3. CASE Executor
    <2>1. CASE UNCHANGED tables
      BY Zenon, <1>1, <2>1, SameStore
    <2> QED
      BY Zenon, <1>2, <1>3, <2>1 DEF Executor, FindRunnableTasks, Dispatch, Check, Clean, Finish
  <1>4. ASSUME ~Client, ~Executor
        PROVE  UNCHANGED tables
    BY Zenon, <1>4 DEF Next, Publish, HandleEvent, SaveTask, Age, Expire, Deliver, Scan,
       ScanOrphanEntries, ScanCheck, ScanSave, Crash, vars
  <1> QED
    BY Zenon, <1>1, <1>3, <1>4, ClientTables, SameStore

-----------------------------------------------------------------------------
(* The theorems. *)

\* In the initial state there is only the root, and nothing to clean.
LEMMA InitIInv == Init => IInv
  <1> SUFFICES ASSUME Init PROVE IInv
    OBVIOUS
  <1>1. SP!IInv /\ TableInv
    BY Zenon, StoreSteps, SP!InitIInv, StoreAssumption, TablesAreSound DEF Init
  <1> QED
    BY Zenon, <1>1, InitInv DEF IInv

\* Every step keeps the invariant.
LEMMA NextIInv == IInv /\ [Next]_vars => IInv'
  <1>1. IInv /\ [Next]_vars => SP!IInv'
    BY Zenon, TablesStep
  <1>2. SP!IInv' => TableInv'
    BY TablesAreSound, PTL
  <1>3. IInv => CleanupInv
    BY Zenon DEF IInv
  <1>4. CleanupInv /\ TableInv' /\ [Next]_vars => CleanupInv'
    BY Zenon, NextInv
  <1> QED
    BY Zenon, <1>1, <1>2, <1>3, <1>4 DEF IInv

\* The invariant holds in every reachable state.
THEOREM Invariance == Spec => []IInv
  BY InitIInv, NextIInv, PTL DEF Spec

\* Cleanup destroys nothing that somebody still uses: an entry that never lost
\* a link keeps its row and its data, and so does a file that was open when it
\* lost its first one, until it is closed (execute, scanOrphanEntriesTask).
THEOREM UsedCorrect == Spec => []UsedIsIntact
  <1>1. IInv => UsedIsIntact
    BY Zenon, TableTypes DEF IInv, CleanupInv, KeptInv, HeldInv, UsedIsIntact, KeptIsIntact, HeldIsIntact
  <1> QED
    BY <1>1, Invariance, PTL

\* No chunk data outlives its row, except what was written through a handle
\* that was opened after execute had looked for handles (CleanEntryData before
\* DestroyEntry, whatever fails in between).
THEOREM DestroyedCorrect == Spec => []DestroyedHasNoData
  <1>1. IInv => DestroyedHasNoData
    BY Zenon DEF IInv, CleanupInv, LateInv, DestroyedHasNoData
  <1> QED
    BY <1>1, Invariance, PTL

\* The tables under cleanup keep the invariants proved of MetaStore, although
\* DeleteRemovedEntry is called here for entries that may have links again.
THEOREM TablesCorrect == Spec => [](SP!RefCountMatchesLinks /\ SP!GroupHasOneLink)
  <1>1. IInv => SP!RefCountMatchesLinks /\ SP!GroupHasOneLink
    BY Zenon DEF IInv, SP!IInv
  <1> QED
    BY <1>1, Invariance, PTL
=============================================================================
