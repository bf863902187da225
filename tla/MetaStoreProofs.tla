--------------------------- MODULE MetaStoreProofs ---------------------------
(***************************************************************************)
(* Proofs about the entry and children tables: the invariants of MetaStore *)
(* hold for any set of identifiers, names and readers.                     *)
(*                                                                         *)
(* RefCountMatchesLinks is not inductive alone.  UpdateEntry writes back a *)
(* counter its caller read earlier, so it needs CurrentVersionIsCurrentRow *)
(* (an unchanged version means an unchanged counter); removing a group     *)
(* subtracts two, so it needs GroupHasOneLink; and a newly allocated id    *)
(* must not occur in any table, which is Allocated.                        *)
(***************************************************************************)
EXTENDS MetaStore, FiniteSetTheorems, TLAPS

\* Only allocated ids occur in the tables and the copies; the root is an
\* allocated group and nobody's child.
Allocated ==
    /\ Root \in used /\ entry[Root].isGroup
    /\ \A r \in children : r.parent \in used /\ r.child \in used /\ r.child # Root
    /\ \A r \in Reader : copy[r].id \in used \cup {NoId}

\* The inductive invariant.
IInv ==
    /\ TypeOK
    /\ IsFiniteSet(children)
    /\ Allocated
    /\ GroupHasOneLink
    /\ CurrentVersionIsCurrentRow
    /\ RefCountMatchesLinks

-----------------------------------------------------------------------------

\* The link sets of a finite children table are finite, so counting them gives
\* natural numbers.
LEMMA CountsAreNat ==
    ASSUME IsFiniteSet(children), NEW x
    PROVE  /\ IsFiniteSet(LinksOf(x)) /\ Cardinality(LinksOf(x)) \in Nat
           /\ IsFiniteSet(SubgroupsOf(x)) /\ Cardinality(SubgroupsOf(x)) \in Nat
  <1>1. LinksOf(x) \in SUBSET children /\ SubgroupsOf(x) \in SUBSET children
    BY Zenon DEF LinksOf, SubgroupsOf
  <1>2. IsFiniteSet(LinksOf(x)) /\ IsFiniteSet(SubgroupsOf(x))
    BY <1>1, FS_Subset
  <1> QED
    BY <1>2, FS_CardinalityType

\* Adding a new element to a finite set.
LEMMA AddedCount ==
    ASSUME NEW S, NEW T, NEW x, IsFiniteSet(S), x \notin S, T = S \cup {x}
    PROVE  Cardinality(T) = Cardinality(S) + 1
  BY FS_AddElement

\* Removing an element of a finite set.
LEMMA RemovedCount ==
    ASSUME NEW S, NEW T, NEW x, IsFiniteSet(S), x \in S, T = S \ {x}
    PROVE  Cardinality(T) = Cardinality(S) - 1
  BY FS_RemoveElement

\* Exchanging an element of a finite set for a new one.
LEMMA ReplacedCount ==
    ASSUME NEW S, NEW T, NEW x, NEW y, IsFiniteSet(S), x \in S, y \notin S,
           T = (S \ {x}) \cup {y}
    PROVE  Cardinality(T) = Cardinality(S)
  <1>1. IsFiniteSet(S \ {x}) /\ Cardinality(S \ {x}) = Cardinality(S) - 1
    BY FS_RemoveElement
  <1>2. Cardinality(T) = Cardinality(S \ {x}) + 1
    BY Zenon, <1>1, AddedCount
  <1>3. Cardinality(S) \in Nat
    BY FS_CardinalityType
  <1> QED
    BY <1>1, <1>2, <1>3

\* What InitNewEntry makes of a kind is a row.
LEMMA NewRowType ==
    ASSUME NEW g \in BOOLEAN
    PROVE  NewRow(g) \in Row
  BY DEF NewRow, Row

\* An empty place is not a copy of any row.
LEMMA NoCopyType == NoCopy \in [id : Id \cup {NoId}, row : Row] /\ NoCopy.id = NoId
  BY Zenon, NewRowType DEF NoCopy

\* Rewriting the counter, the size and the version of a row gives a row of the
\* same kind.
LEMMA BumpType ==
    ASSUME NEW row \in Row, NEW ref \in Int, NEW size \in Nat
    PROVE  /\ Bump(row, ref, size) \in Row
           /\ Bump(row, ref, size).isGroup = row.isGroup
           /\ Bump(row, ref, size).refCount = ref
           /\ Bump(row, ref, size).version = row.version + 1
  BY DEF Bump, Row

\* Adding k to the counter of one row of a table changes that counter and the
\* row's version, and nothing else the invariants look at.
LEMMA AddRefTable ==
    ASSUME NEW f \in [Id -> Row], NEW e \in Id, NEW k \in Int
    PROVE  /\ AddRef(f, e, k) \in [Id -> Row]
           /\ \A x \in Id :
                /\ AddRef(f, e, k)[x].isGroup = f[x].isGroup
                /\ AddRef(f, e, k)[x].refCount = f[x].refCount + (IF x = e THEN k ELSE 0)
                /\ AddRef(f, e, k)[x].version = f[x].version + (IF x = e THEN 1 ELSE 0)
                /\ x # e => AddRef(f, e, k)[x] = f[x]
  <1> DEFINE row == Bump(f[e], f[e].refCount + k, f[e].size)
  <1>1. /\ row \in Row /\ row.isGroup = f[e].isGroup
        /\ row.refCount = f[e].refCount + k /\ row.version = f[e].version + 1
    BY DEF Bump, Row
  <1> HIDE DEF row
  <1>2. AddRef(f, e, k) = [f EXCEPT ![e] = row]
    BY Zenon DEF AddRef, row
  <1>3. \A x \in Id : f[x].version \in Nat /\ f[x].refCount \in Int
    BY Zenon DEF Row
  <1> QED
    BY <1>1, <1>2, <1>3

\* Every initial state satisfies the invariant: the root alone, counted twice.
LEMMA InitIInv == Init => IInv
  <1> SUFFICES ASSUME Init PROVE IInv
    BY Zenon
  <1> USE DEF Init
  <1>1. TypeOK
    <2>1. \A e \in Id : NewRow(e = Root) \in Row
      BY Zenon, NewRowType
    <2>2. NoCopy \in [id : Id \cup {NoId}, row : Row]
      BY Zenon, NoCopyType
    <2>3. entry \in [Id -> Row]
      BY Zenon, <2>1
    <2>4. copy \in [Reader -> [id : Id \cup {NoId}, row : Row]]
      BY Zenon, <2>2
    <2> QED
      BY Zenon, <2>3, <2>4, RootAssumption DEF TypeOK
  <1>2. IsFiniteSet(children)
    BY FS_EmptySet
  <1>3. Allocated
    BY Zenon, RootAssumption, NoCopyType DEF Allocated, NewRow
  <1>4. GroupHasOneLink
    BY Zenon DEF GroupHasOneLink
  <1>5. CurrentVersionIsCurrentRow
    <2>1. \A r \in Reader : copy[r].id = NoId
      BY Zenon, NoCopyType
    <2>2. NoId \notin rows
      BY Zenon, RootAssumption
    <2> HIDE DEF Init
    <2> QED
      BY Zenon, <2>1, <2>2 DEF CurrentVersionIsCurrentRow
  <1>6. RefCountMatchesLinks
    <2>1. LinksOf(Root) = {} /\ SubgroupsOf(Root) = {}
      BY Zenon DEF LinksOf, SubgroupsOf
    <2>2. entry[Root].refCount = 2 /\ entry[Root].isGroup
      BY Zenon, RootAssumption DEF NewRow
    <2>3. Cardinality({}) = 0
      BY FS_EmptySet
    <2> QED
      BY <2>1, <2>2, <2>3 DEF RefCountMatchesLinks, LinkCount
  <1> QED
    BY Zenon, <1>1, <1>2, <1>3, <1>4, <1>5, <1>6 DEF IInv

-----------------------------------------------------------------------------
(* One lemma per transaction. *)

\* CreateEntry adds one row, counted by the new entry and, for a group, by its
\* parent.
LEMMA CreateEntryIInv ==
    ASSUME IInv, NEW p \in used, NEW e \in Id, NEW n \in Name, NEW g \in BOOLEAN,
           CreateEntry(p, e, n, g)
    PROVE  IInv'
  <1> DEFINE new == [parent |-> p, name |-> n, child |-> e]
             k == IF g THEN 1 ELSE 0
  <1>1. /\ e \notin used /\ p \in rows /\ p # e /\ p \in Id
        /\ rows' = rows \cup {e} /\ used' = used \cup {e}
        /\ children' = children \cup {new} /\ new \notin children
        /\ unlinked' = unlinked /\ copy' = copy
    BY Zenon DEF IInv, CreateEntry, TypeOK, Allocated
  <1>2. entry \in [Id -> Row] /\ entry[p] \in Row
    BY Zenon, <1>1 DEF IInv, TypeOK
  <1>3. /\ entry' \in [Id -> Row]
        /\ entry'[e] = NewRow(g)
        /\ entry'[p].isGroup = entry[p].isGroup
        /\ entry'[p].refCount = entry[p].refCount + k
        /\ entry'[p].version = entry[p].version + 1
        /\ \A x \in Id : x # e /\ x # p => entry'[x] = entry[x]
    <2> DEFINE f == [entry EXCEPT ![e] = NewRow(g)]
    <2>1. NewRow(g) \in Row
      BY Zenon, NewRowType
    <2>2. /\ f \in [Id -> Row] /\ f[e] = NewRow(g)
          /\ \A x \in Id : x # e => f[x] = entry[x]
      BY Zenon, <1>2, <2>1
    <2>3. entry' = AddRef(f, p, k) /\ k \in Int
      BY DEF CreateEntry
    <2> HIDE DEF k, f
    <2>4. /\ AddRef(f, p, k) \in [Id -> Row]
          /\ \A x \in Id :
                /\ AddRef(f, p, k)[x].isGroup = f[x].isGroup
                /\ AddRef(f, p, k)[x].refCount = f[x].refCount + (IF x = p THEN k ELSE 0)
                /\ AddRef(f, p, k)[x].version = f[x].version + (IF x = p THEN 1 ELSE 0)
                /\ x # p => AddRef(f, p, k)[x] = f[x]
      BY <1>1, <2>2, <2>3, AddRefTable
    <2> QED
      BY Zenon, <1>1, <2>2, <2>3, <2>4
  <1> HIDE DEF new, k
  <1>4. TypeOK'
    BY <1>1, <1>3 DEF IInv, TypeOK, ChildRow, new
  <1>5. IsFiniteSet(children)'
    BY <1>1, FS_AddElement DEF IInv
  <1>6. Allocated'
    BY <1>1, <1>3, RootAssumption DEF IInv, Allocated, new
  <1>7. \A r \in children : entry'[r.child].isGroup = entry[r.child].isGroup /\ r.child # e /\ r.parent # e
    BY Zenon, <1>1, <1>3 DEF IInv, Allocated, TypeOK
  <1>8. GroupHasOneLink'
    BY <1>1, <1>7 DEF IInv, GroupHasOneLink, new, Allocated
  <1>9. CurrentVersionIsCurrentRow'
    <2> SUFFICES ASSUME NEW r \in Reader, copy[r].id \in rows'
                 PROVE  /\ copy[r].row.version <= entry'[copy[r].id].version
                        /\ copy[r].row.version = entry'[copy[r].id].version =>
                             copy[r].row.refCount = entry'[copy[r].id].refCount
      BY Zenon, <1>1 DEF CurrentVersionIsCurrentRow
    <2>1. copy[r].id \in rows /\ copy[r].id # e
      BY Zenon, <1>1, RootAssumption DEF IInv, Allocated
    <2>2. CASE copy[r].id = p
      BY <2>1, <2>2, <1>2, <1>3 DEF IInv, CurrentVersionIsCurrentRow, TypeOK, Row
    <2>3. CASE copy[r].id # p
      BY Zenon, <2>1, <2>3, <1>3 DEF IInv, CurrentVersionIsCurrentRow, TypeOK
    <2> QED
      BY Zenon, <2>2, <2>3
  <1>10. RefCountMatchesLinks'
    <2> SUFFICES ASSUME NEW x \in rows'
                 PROVE  entry'[x].refCount =
                          (IF entry'[x].isGroup THEN 2 * LinkCount(x)' ELSE LinkCount(x)')
                          + Cardinality(SubgroupsOf(x)')
      BY Zenon DEF RefCountMatchesLinks
    <2>0. /\ IsFiniteSet(LinksOf(x)) /\ Cardinality(LinksOf(x)) \in Nat
          /\ IsFiniteSet(SubgroupsOf(x)) /\ Cardinality(SubgroupsOf(x)) \in Nat
      BY Zenon, CountsAreNat DEF IInv
    <2>1. LinksOf(x)' = IF x = e THEN LinksOf(x) \cup {new} ELSE LinksOf(x)
      BY <1>1 DEF LinksOf, new
    <2>2. SubgroupsOf(x)' = IF x = p /\ g THEN SubgroupsOf(x) \cup {new} ELSE SubgroupsOf(x)
      BY <1>1, <1>3, <1>7 DEF SubgroupsOf, new, NewRow
    <2>3. new \notin LinksOf(x) /\ new \notin SubgroupsOf(x)
      BY Zenon, <1>1 DEF LinksOf, SubgroupsOf
    <2>4. Cardinality(LinksOf(x)') = Cardinality(LinksOf(x)) + (IF x = e THEN 1 ELSE 0)
      <3>1. CASE x = e
        BY Zenon, <3>1, <2>0, <2>1, <2>3, AddedCount
      <3>2. CASE x # e
        BY <3>2, <2>0, <2>1
      <3> QED
        BY Zenon, <3>1, <3>2
    <2>5. Cardinality(SubgroupsOf(x)') = Cardinality(SubgroupsOf(x)) + (IF x = p THEN k ELSE 0)
      <3>1. CASE x = p /\ g
        BY Zenon, <3>1, <2>0, <2>2, <2>3, AddedCount DEF k
      <3>2. CASE ~(x = p /\ g)
        BY <3>2, <2>0, <2>2 DEF k
      <3> QED
        BY Zenon, <3>1, <3>2
    <2>6. CASE x = e
      <3>1. LinksOf(x) = {} /\ SubgroupsOf(x) = {} /\ x # Root /\ x # p
        BY Zenon, <2>6, <1>1, <1>7 DEF IInv, LinksOf, SubgroupsOf, Allocated
      <3>2. Cardinality(LinksOf(x)') = 1 /\ Cardinality(SubgroupsOf(x)') = 0
        BY <3>1, <2>4, <2>5, <2>6, FS_EmptySet
      <3>3. entry'[x].refCount = (IF g THEN 2 ELSE 1) /\ entry'[x].isGroup = g
        BY <2>6, <1>3 DEF NewRow
      <3> QED
        BY <3>1, <3>2, <3>3 DEF LinkCount
    <2>7. CASE x # e
      <3>1. x \in rows /\ x \in Id
        BY Zenon, <2>7, <1>1 DEF IInv, TypeOK
      <3>2. /\ entry'[x].isGroup = entry[x].isGroup
            /\ entry'[x].refCount = entry[x].refCount + (IF x = p THEN k ELSE 0)
        BY <2>7, <3>1, <1>3, <1>2 DEF Row
      <3>3. LinkCount(x)' = LinkCount(x)
        BY <2>4, <2>7, CountsAreNat DEF IInv, LinkCount
      <3>4. Cardinality(LinksOf(x)) \in Nat /\ Cardinality(SubgroupsOf(x)) \in Nat
        BY Zenon, CountsAreNat DEF IInv
      <3> QED
        BY <3>1, <3>2, <3>3, <3>4, <2>5 DEF IInv, RefCountMatchesLinks, LinkCount, k
    <2> QED
      BY Zenon, <2>6, <2>7
  <1> QED
    BY Zenon, <1>4, <1>5, <1>6, <1>8, <1>9, <1>10 DEF IInv

\* RemoveEntry takes one row away and never reaches its clamp at zero: a file
\* it unlinks has a link to count, a group exactly its own two.
LEMMA RemoveEntryIInv ==
    ASSUME IInv, NEW p \in used, NEW e \in used, NEW n \in Name, RemoveEntry(p, e, n)
    PROVE  IInv'
  <1> DEFINE old == [parent |-> p, name |-> n, child |-> e]
             k == IF entry[e].isGroup THEN 1 ELSE 0
  <1>1. /\ e \in rows /\ p \in rows /\ p # e /\ p \in Id /\ e \in Id /\ e # Root
        /\ rows' = rows /\ used' = used /\ copy' = copy
        /\ children' = children \ {old} /\ old \in children
        /\ unlinked' = unlinked \cup {e}
        /\ entry[e].isGroup => ChildrenOf(e) = {}
    BY Zenon DEF IInv, RemoveEntry, Removable, TypeOK, Allocated
  <1>2. entry \in [Id -> Row] /\ entry[p] \in Row /\ entry[e] \in Row
    BY Zenon, <1>1 DEF IInv, TypeOK
  <1>3. \A x : /\ IsFiniteSet(LinksOf(x)) /\ Cardinality(LinksOf(x)) \in Nat
               /\ IsFiniteSet(SubgroupsOf(x)) /\ Cardinality(SubgroupsOf(x)) \in Nat
    BY Zenon, CountsAreNat DEF IInv
  <1>4. old \in LinksOf(e)
    BY Zenon, <1>1 DEF LinksOf
  <1>5. Cardinality(LinksOf(e)) >= 1
    BY <1>3, <1>4, FS_EmptySet
  <1>6. entry[e].isGroup => LinksOf(e) = {old} /\ SubgroupsOf(e) = {}
    BY <1>1 DEF IInv, GroupHasOneLink, LinksOf, SubgroupsOf, ChildrenOf
  <1>7. entry[e].isGroup => Cardinality(LinksOf(e)) = 1 /\ Cardinality(SubgroupsOf(e)) = 0
    BY Zenon, <1>6, FS_EmptySet, FS_Singleton
  <1>8. entry[e].refCount - k - 1 >= 0
    BY <1>1, <1>2, <1>3, <1>5, <1>7 DEF IInv, RefCountMatchesLinks, LinkCount, Row
  <1>9. /\ entry' \in [Id -> Row]
        /\ \A x \in Id : entry'[x].isGroup = entry[x].isGroup
        /\ entry'[p].refCount = entry[p].refCount - k
        /\ entry'[p].version = entry[p].version + 1
        /\ entry'[e].refCount = entry[e].refCount - k - 1
        /\ entry'[e].version = entry[e].version + 1
        /\ \A x \in Id : x # e /\ x # p => entry'[x] = entry[x]
    <2> DEFINE ref == entry[e].refCount - k - 1
    <2> DEFINE f == AddRef(entry, p, -k)
               row == Bump(f[e], ref, f[e].size)
    <2>1. ref >= 0 /\ ref \in Int /\ -k \in Int
      BY <1>2, <1>8 DEF Row
    <2>2. entry' = [f EXCEPT ![e] = Bump(@, IF ref < 0 THEN 0 ELSE ref, @.size)]
      BY Zenon DEF RemoveEntry
    <2>3. entry' = [f EXCEPT ![e] = row]
      BY <2>1, <2>2
    <2>4. /\ f \in [Id -> Row]
          /\ \A x \in Id :
                /\ f[x].isGroup = entry[x].isGroup
                /\ f[x].refCount = entry[x].refCount + (IF x = p THEN -k ELSE 0)
                /\ f[x].version = entry[x].version + (IF x = p THEN 1 ELSE 0)
                /\ x # p => f[x] = entry[x]
      BY <1>1, <1>2, <2>1, AddRefTable
    <2> HIDE DEF f
    <2>5. /\ row \in Row /\ row.isGroup = f[e].isGroup
          /\ row.refCount = ref /\ row.version = f[e].version + 1
      BY <1>1, <2>1, <2>4 DEF Bump, Row
    <2> HIDE DEF row
    <2>6. entry' \in [Id -> Row] /\ entry'[e] = row /\ \A x \in Id : x # e => entry'[x] = f[x]
      BY Zenon, <1>1, <2>3, <2>4, <2>5
    <2>7. \A x \in Id : entry[x].refCount \in Int
      BY Zenon, <1>2 DEF Row
    <2> QED
      BY Zenon, <1>1, <2>1, <2>4, <2>5, <2>6, <2>7
  <1> HIDE DEF old, k
  <1>10. TypeOK'
    BY Zenon, <1>1, <1>9 DEF IInv, TypeOK
  <1>11. IsFiniteSet(children)'
    BY <1>1, FS_RemoveElement DEF IInv
  <1>12. Allocated'
    BY Zenon, <1>1, <1>9, RootAssumption DEF IInv, Allocated
  <1>13. GroupHasOneLink'
    BY Zenon, <1>1, <1>9 DEF IInv, GroupHasOneLink, TypeOK, ChildRow
  <1>14. CurrentVersionIsCurrentRow'
    <2> SUFFICES ASSUME NEW r \in Reader, copy[r].id \in rows
                 PROVE  /\ copy[r].row.version <= entry'[copy[r].id].version
                        /\ copy[r].row.version = entry'[copy[r].id].version =>
                             copy[r].row.refCount = entry'[copy[r].id].refCount
      BY Zenon, <1>1 DEF CurrentVersionIsCurrentRow
    <2>1. copy[r].id \in Id /\ copy[r].row.version \in Nat /\ entry[copy[r].id].version \in Nat
      BY Zenon DEF IInv, TypeOK, Row
    <2> QED
      BY <2>1, <1>9 DEF IInv, CurrentVersionIsCurrentRow
  <1>15. RefCountMatchesLinks'
    <2> SUFFICES ASSUME NEW x \in rows
                 PROVE  entry'[x].refCount =
                          (IF entry'[x].isGroup THEN 2 * LinkCount(x)' ELSE LinkCount(x)')
                          + Cardinality(SubgroupsOf(x)')
      BY Zenon, <1>1 DEF RefCountMatchesLinks
    <2>1. LinksOf(x)' = IF x = e THEN LinksOf(x) \ {old} ELSE LinksOf(x)
      BY <1>1 DEF LinksOf, old
    <2>2. SubgroupsOf(x)' = IF x = p /\ entry[e].isGroup THEN SubgroupsOf(x) \ {old} ELSE SubgroupsOf(x)
      BY <1>1, <1>9 DEF IInv, SubgroupsOf, old, TypeOK, ChildRow
    <2>3. old \in SubgroupsOf(p) \/ ~entry[e].isGroup
      BY Zenon, <1>1 DEF SubgroupsOf, old
    <2>4. Cardinality(LinksOf(x)') = Cardinality(LinksOf(x)) - (IF x = e THEN 1 ELSE 0)
      <3>1. CASE x = e
        BY Zenon, <3>1, <1>3, <1>4, <2>1, RemovedCount
      <3>2. CASE x # e
        BY <3>2, <1>3, <2>1
      <3> QED
        BY Zenon, <3>1, <3>2
    <2>5. Cardinality(SubgroupsOf(x)') = Cardinality(SubgroupsOf(x)) - (IF x = p THEN k ELSE 0)
      <3>1. CASE x = p /\ entry[e].isGroup
        BY Zenon, <3>1, <1>3, <2>2, <2>3, RemovedCount DEF k
      <3>2. CASE ~(x = p /\ entry[e].isGroup)
        BY <3>2, <1>3, <2>2 DEF k
      <3> QED
        BY Zenon, <3>1, <3>2
    <2>6. /\ entry[x].refCount =
               (IF entry[x].isGroup THEN 2 * LinkCount(x) ELSE LinkCount(x))
               + Cardinality(SubgroupsOf(x))
          /\ entry'[x].isGroup = entry[x].isGroup
          /\ entry[x].refCount \in Int
      BY Zenon, <1>1, <1>9 DEF IInv, RefCountMatchesLinks, TypeOK, Row
    <2>7. /\ Cardinality(LinksOf(x)) \in Nat /\ Cardinality(SubgroupsOf(x)) \in Nat
      BY Zenon, <1>3
    <2>8. CASE x = e
      BY <2>8, <1>1, <1>7, <1>9, <2>4, <2>5, <2>6, <2>7 DEF LinkCount, k
    <2>9. CASE x = p
      BY <2>9, <1>1, <1>9, <2>4, <2>5, <2>6, <2>7 DEF LinkCount, k
    <2>10. CASE x # e /\ x # p
      BY <2>10, <1>1, <1>9, <2>4, <2>5, <2>6, <2>7 DEF IInv, LinkCount, TypeOK
    <2> QED
      BY Zenon, <2>8, <2>9, <2>10
  <1> QED
    BY Zenon, <1>10, <1>11, <1>12, <1>13, <1>14, <1>15 DEF IInv

\* A row whose reference count is zero has lost its links: the orphan scan may
\* take it.
LEMMA NoLinks ==
    ASSUME IInv, NEW e \in rows, entry[e].refCount = 0
    PROVE  ~Linked(e)
  <1>1. /\ Cardinality(LinksOf(e)) \in Nat /\ Cardinality(SubgroupsOf(e)) \in Nat
        /\ IsFiniteSet(LinksOf(e))
    BY Zenon, CountsAreNat DEF IInv
  <1>2. (IF entry[e].isGroup THEN 2 * LinkCount(e) ELSE LinkCount(e)) + Cardinality(SubgroupsOf(e)) = 0
    BY Zenon DEF IInv, RefCountMatchesLinks
  <1>3. Cardinality(LinksOf(e)) = 0 /\ e # Root
    BY <1>1, <1>2 DEF LinkCount
  <1>4. LinksOf(e) = {}
    BY <1>1, <1>3, FS_EmptySet
  <1> QED
    BY Zenon, <1>3, <1>4 DEF Linked

\* What at most deletes rows keeps the counts.
LEMMA RefCountStutter ==
    ASSUME RefCountMatchesLinks, rows' \subseteq rows, UNCHANGED <<entry, children>>
    PROVE  RefCountMatchesLinks'
  <1>1. ASSUME NEW e
        PROVE  LinkCount(e)' = LinkCount(e) /\ SubgroupsOf(e)' = SubgroupsOf(e)
    BY Zenon DEF LinkCount, LinksOf, SubgroupsOf
  <1>2. SUFFICES ASSUME NEW e \in rows'
                 PROVE  entry'[e].refCount =
                            (IF entry'[e].isGroup THEN 2 * LinkCount(e)' ELSE LinkCount(e)')
                            + Cardinality(SubgroupsOf(e)')
    BY Zenon DEF RefCountMatchesLinks
  <1> QED
    BY <1>1, <1>2, Zenon DEF RefCountMatchesLinks

\* A transaction that rewrites one row without touching its reference count,
\* and leaves every copy's id, counter and version alone.
LEMMA RowUpdateIInv ==
    ASSUME IInv, NEW e \in rows, NEW size \in Nat,
           entry' = [entry EXCEPT ![e] = Bump(entry[e], entry[e].refCount, size)],
           UNCHANGED <<rows, used, children, unlinked>>,
           copy' \in [Reader -> [id : Id \cup {NoId}, row : Row]],
           \A r \in Reader : \/ /\ copy'[r].id = copy[r].id
                                /\ copy'[r].row.version = copy[r].row.version
                                /\ copy'[r].row.refCount = copy[r].row.refCount
                             \/ copy'[r] = [id |-> e, row |-> entry'[e]]
    PROVE  IInv'
  <1>1. entry \in [Id -> Row] /\ e \in Id /\ entry[e] \in Row
    BY Zenon DEF IInv, TypeOK
  <1>2. /\ entry' \in [Id -> Row]
        /\ \A x \in Id : /\ entry'[x].isGroup = entry[x].isGroup
                         /\ entry'[x].refCount = entry[x].refCount
                         /\ entry'[x].version = entry[x].version + (IF x = e THEN 1 ELSE 0)
    <2>1. /\ Bump(entry[e], entry[e].refCount, size) \in Row
          /\ Bump(entry[e], entry[e].refCount, size).isGroup = entry[e].isGroup
          /\ Bump(entry[e], entry[e].refCount, size).refCount = entry[e].refCount
          /\ Bump(entry[e], entry[e].refCount, size).version = entry[e].version + 1
      BY <1>1, BumpType DEF Row
    <2>2. entry'[e] = Bump(entry[e], entry[e].refCount, size)
      BY Zenon, <1>1
    <2>3. entry' \in [Id -> Row]
      BY Zenon, <1>1, <2>1
    <2>4. \A x \in Id : x # e => entry'[x] = entry[x]
      BY Zenon, <1>1
    <2>5. \A x \in Id : entry[x].version \in Nat
      BY Zenon, <1>1 DEF Row
    <2> QED
      BY <2>1, <2>2, <2>3, <2>4, <2>5
  <1>3. TypeOK'
    BY Zenon, <1>2 DEF IInv, TypeOK
  <1>4. IsFiniteSet(children)' /\ Allocated'
    BY <1>2, RootAssumption DEF IInv, Allocated, TypeOK
  <1>5. GroupHasOneLink'
    BY <1>2 DEF IInv, GroupHasOneLink, TypeOK, ChildRow
  <1>6. CurrentVersionIsCurrentRow'
    <2> SUFFICES ASSUME NEW r \in Reader, copy'[r].id \in rows
                 PROVE  /\ copy'[r].row.version <= entry'[copy'[r].id].version
                        /\ copy'[r].row.version = entry'[copy'[r].id].version =>
                             copy'[r].row.refCount = entry'[copy'[r].id].refCount
      BY Zenon DEF CurrentVersionIsCurrentRow
    <2>0. CASE copy'[r] = [id |-> e, row |-> entry'[e]]
      <3>1. entry'[e] \in Row
        BY Zenon, <1>1, <1>2
      <3>2. entry'[e].version \in Nat
        BY Zenon, <3>1 DEF Row
      <3> QED
        BY <2>0, <3>2
    <2>1. CASE copy'[r] # [id |-> e, row |-> entry'[e]]
      <3>1. copy[r].id \in Id /\ copy[r].row.version \in Nat /\ entry[copy[r].id].version \in Nat
        BY Zenon, <2>1 DEF IInv, TypeOK, Row
      <3> QED
        BY <2>1, <3>1, <1>2 DEF IInv, CurrentVersionIsCurrentRow
    <2> QED
      BY Zenon, <2>0, <2>1
  <1>7. RefCountMatchesLinks'
    <2> SUFFICES ASSUME NEW x \in rows
                 PROVE  entry'[x].refCount =
                          (IF entry'[x].isGroup THEN 2 * LinkCount(x)' ELSE LinkCount(x)')
                          + Cardinality(SubgroupsOf(x)')
      BY Zenon DEF RefCountMatchesLinks
    <2>1. LinksOf(x)' = LinksOf(x) /\ SubgroupsOf(x)' = SubgroupsOf(x)
      BY <1>2 DEF LinksOf, SubgroupsOf, TypeOK, ChildRow
    <2>2. x \in Id /\ LinkCount(x)' = LinkCount(x)
      BY Zenon, <2>1 DEF IInv, LinkCount, TypeOK
    <2> QED
      BY <2>1, <2>2, <1>2 DEF IInv, RefCountMatchesLinks
  <1> QED
    BY Zenon, <1>3, <1>4, <1>5, <1>6, <1>7 DEF IInv

\* Open and Flush rewrite the size of one row.
LEMMA SizeStepIInv ==
    ASSUME IInv, NEW e \in used, NEW s \in 0..MaxSize, NEW trunc \in BOOLEAN,
           Open(e, trunc) \/ Flush(e, s)
    PROVE  IInv'
  <1>1. /\ e \in rows /\ e \in Id /\ entry[e] \in Row /\ s \in Nat
        /\ UNCHANGED <<rows, used, children, unlinked, copy>>
        /\ copy \in [Reader -> [id : Id \cup {NoId}, row : Row]]
    BY BoundsAssumption DEF Open, Flush, IInv, TypeOK
  <1>2. PICK size \in Nat : entry' = [entry EXCEPT ![e] = Bump(entry[e], entry[e].refCount, size)]
    <2>1. entry[e].size \in Nat
      BY Zenon, <1>1 DEF Row
    <2>2. CASE Open(e, trunc)
      BY Zenon, <2>1, <2>2 DEF Open
    <2>3. CASE Flush(e, s)
      BY Zenon, <1>1, <2>3 DEF Flush
    <2> QED
      BY Zenon, <2>2, <2>3
  <1> QED
    BY Zenon, <1>1, <1>2, RowUpdateIInv

\* AppendSegments rewrites a size and hands out the row it wrote.
LEMMA AppendSegmentsIInv ==
    ASSUME IInv, NEW r \in Reader, NEW e \in used, NEW s \in 0..MaxSize,
           AppendSegments(r, e, s)
    PROVE  IInv'
  <1> DEFINE size == GrownSize(entry[e].size, s)
  <1>1. /\ e \in rows /\ e \in Id /\ entry \in [Id -> Row] /\ s \in Nat
        /\ UNCHANGED <<rows, used, children, unlinked>>
        /\ copy \in [Reader -> [id : Id \cup {NoId}, row : Row]]
    BY BoundsAssumption DEF AppendSegments, IInv, TypeOK
  <1>2. size \in Nat
    BY Zenon, <1>1 DEF GrownSize, Row
  <1>3. entry' = [entry EXCEPT ![e] = Bump(entry[e], entry[e].refCount, size)]
    BY Zenon, <1>1 DEF AppendSegments
  <1>4. Bump(entry[e], entry[e].refCount, size) \in Row
    BY Zenon, <1>1, <1>2, BumpType DEF Row
  <1> HIDE DEF size
  <1>5. entry'[e] \in Row
    BY Zenon, <1>1, <1>3, <1>4
  <1>6. copy' = [copy EXCEPT ![r] = [id |-> e, row |-> entry'[e]]]
    BY Zenon DEF AppendSegments
  <1>7. copy' \in [Reader -> [id : Id \cup {NoId}, row : Row]]
    BY Zenon, <1>1, <1>5, <1>6
  <1>8. \A q \in Reader : \/ /\ copy'[q].id = copy[q].id
                             /\ copy'[q].row.version = copy[q].row.version
                             /\ copy'[q].row.refCount = copy[q].row.refCount
                          \/ copy'[q] = [id |-> e, row |-> entry'[e]]
    BY Zenon, <1>1, <1>6
  <1> QED
    BY Zenon, <1>1, <1>2, <1>3, <1>7, <1>8, RowUpdateIInv

\* UpdateEntry commits only a copy whose version is current, and such a copy
\* carries the current reference count.
LEMMA UpdateEntryIInv ==
    ASSUME IInv, NEW r \in Reader, NEW s \in 0..MaxSize, UpdateEntry(r, s)
    PROVE  IInv'
  <1> DEFINE e == copy[r].id
  <1>1. /\ UNCHANGED <<rows, used, children, unlinked>>
        /\ copy \in [Reader -> [id : Id \cup {NoId}, row : Row]]
        /\ copy' = [copy EXCEPT ![r].row.size = s]
        /\ s \in Nat
    BY BoundsAssumption DEF UpdateEntry, IInv, TypeOK
  <1>2. /\ copy' \in [Reader -> [id : Id \cup {NoId}, row : Row]]
        /\ \A q \in Reader : /\ copy'[q].id = copy[q].id
                             /\ copy'[q].row.version = copy[q].row.version
                             /\ copy'[q].row.refCount = copy[q].row.refCount
    BY <1>1 DEF Row
  <1>3. CASE /\ e \in rows
             /\ entry[e].version = copy[r].row.version
             /\ entry' = [entry EXCEPT ![e] = Bump(@, copy[r].row.refCount, s)]
    <2>1. copy[r].row.refCount = entry[e].refCount
      BY Zenon, <1>3 DEF IInv, CurrentVersionIsCurrentRow
    <2>2. entry' = [entry EXCEPT ![e] = Bump(entry[e], entry[e].refCount, s)]
      BY Zenon, <1>3, <2>1
    <2> QED
      BY Zenon, <1>1, <1>2, <1>3, <2>2, RowUpdateIInv
  <1>4. CASE UNCHANGED entry
    <2>1. TypeOK' /\ IsFiniteSet(children)' /\ Allocated' /\ GroupHasOneLink'
      BY <1>1, <1>2, <1>4 DEF IInv, TypeOK, Allocated, GroupHasOneLink
    <2>2. CurrentVersionIsCurrentRow'
      BY <1>1, <1>2, <1>4 DEF IInv, CurrentVersionIsCurrentRow
    <2>3. RefCountMatchesLinks'
      BY Zenon, <1>1, <1>4, RefCountStutter DEF IInv
    <2> QED
      BY Zenon, <2>1, <2>2, <2>3 DEF IInv
  <1> QED
    BY Zenon, <1>3, <1>4 DEF UpdateEntry

\* GetEntry hands out a current copy.
LEMMA GetEntryIInv ==
    ASSUME IInv, NEW r \in Reader, NEW e \in used, GetEntry(r, e)
    PROVE  IInv'
  <1>1. /\ UNCHANGED <<rows, used, entry, children, unlinked>>
        /\ copy' = [copy EXCEPT ![r] = [id |-> e, row |-> entry[e]]]
        /\ e \in Id /\ entry[e] \in Row
        /\ copy \in [Reader -> [id : Id \cup {NoId}, row : Row]]
    BY Zenon DEF GetEntry, IInv, TypeOK
  <1>2. TypeOK' /\ IsFiniteSet(children)' /\ GroupHasOneLink'
    BY Zenon, <1>1 DEF IInv, TypeOK, GroupHasOneLink
  <1>3. Allocated'
    BY Zenon, <1>1 DEF IInv, Allocated
  <1>4. CurrentVersionIsCurrentRow'
    BY <1>1 DEF IInv, CurrentVersionIsCurrentRow, Row
  <1>5. RefCountMatchesLinks'
    BY Zenon, <1>1, RefCountStutter DEF IInv
  <1> QED
    BY Zenon, <1>2, <1>3, <1>4, <1>5 DEF IInv

\* Drop leaves fewer copies.
LEMMA DropIInv ==
    ASSUME IInv, NEW S \in SUBSET Reader, Drop(S)
    PROVE  IInv'
  <1>1. /\ UNCHANGED <<rows, used, entry, children, unlinked>>
        /\ copy' = [r \in Reader |-> IF r \in S THEN NoCopy ELSE copy[r]]
        /\ copy \in [Reader -> [id : Id \cup {NoId}, row : Row]]
    BY Zenon DEF Drop, IInv, TypeOK
  <1>2. NoCopy \in [id : Id \cup {NoId}, row : Row] /\ NoCopy.id = NoId
    BY Zenon, NoCopyType
  <1>3. TypeOK' /\ IsFiniteSet(children)' /\ GroupHasOneLink'
    BY Zenon, <1>1, <1>2 DEF IInv, TypeOK, GroupHasOneLink
  <1>4. Allocated'
    BY Zenon, <1>1, <1>2 DEF IInv, Allocated
  <1>5. CurrentVersionIsCurrentRow'
    <2>1. rows \subseteq Id
      BY Zenon DEF IInv, TypeOK
    <2> QED
      BY Zenon, <1>1, <1>2, <2>1, RootAssumption DEF IInv, CurrentVersionIsCurrentRow
  <1>6. RefCountMatchesLinks'
    BY Zenon, <1>1, RefCountStutter DEF IInv
  <1> QED
    BY Zenon, <1>3, <1>4, <1>5, <1>6 DEF IInv

\* DeleteRemovedEntry leaves fewer rows to account for.
LEMMA DeleteRemovedEntryIInv ==
    ASSUME IInv, NEW e \in unlinked, DeleteRemovedEntry(e)
    PROVE  IInv'
  <1>1. UNCHANGED <<used, entry, children, unlinked, copy>> /\ rows' = rows \ {e}
    BY Zenon DEF DeleteRemovedEntry
  <1>2. TypeOK' /\ IsFiniteSet(children)' /\ GroupHasOneLink' /\ Allocated'
    BY Zenon, <1>1 DEF IInv, TypeOK, GroupHasOneLink, Allocated
  <1>3. CurrentVersionIsCurrentRow'
    BY Zenon, <1>1 DEF IInv, CurrentVersionIsCurrentRow
  <1>4. RefCountMatchesLinks'
    BY Zenon, <1>1, RefCountStutter DEF IInv
  <1> QED
    BY Zenon, <1>2, <1>3, <1>4 DEF IInv

\* Everything but the counts, for a step that edits the children table: kinds
\* stay, versions only grow, and a counter changes only with its version.
LEMMA TreeEditIInv ==
    ASSUME IInv,
           entry' \in [Id -> Row],
           \A x \in Id : /\ entry'[x].isGroup = entry[x].isGroup
                         /\ entry'[x].version >= entry[x].version
                         /\ entry'[x].version = entry[x].version => entry'[x].refCount = entry[x].refCount,
           UNCHANGED <<rows, used, unlinked, copy>>,
           NEW Del, NEW new \in ChildRow,
           children' = (children \ Del) \cup {new},
           new.child \in used, new.parent \in used, new.child # Root,
           entry[new.child].isGroup => \A r \in children \ Del : r.child # new.child
    PROVE  /\ TypeOK' /\ IsFiniteSet(children)' /\ Allocated' /\ GroupHasOneLink'
           /\ CurrentVersionIsCurrentRow'
  <1>1. TypeOK'
    BY Zenon DEF IInv, TypeOK
  <1>2. IsFiniteSet(children)'
    <2>1. IsFiniteSet(children \ Del)
      BY FS_Subset DEF IInv
    <2> QED
      BY <2>1, FS_AddElement
  <1>3. Allocated'
    BY Zenon, RootAssumption DEF IInv, Allocated
  <1>4. GroupHasOneLink'
    <2>1. \A r \in children' : entry'[r.child].isGroup = entry[r.child].isGroup
      BY Zenon DEF IInv, TypeOK, ChildRow
    <2> QED
      BY <2>1 DEF IInv, GroupHasOneLink
  <1>5. CurrentVersionIsCurrentRow'
    <2> SUFFICES ASSUME NEW r \in Reader, copy[r].id \in rows
                 PROVE  /\ copy[r].row.version <= entry'[copy[r].id].version
                        /\ copy[r].row.version = entry'[copy[r].id].version =>
                             copy[r].row.refCount = entry'[copy[r].id].refCount
      BY Zenon DEF CurrentVersionIsCurrentRow
    <2>1. /\ copy[r].id \in Id /\ copy[r].row.version \in Nat
          /\ entry[copy[r].id].version \in Nat /\ entry'[copy[r].id].version \in Nat
      BY Zenon DEF IInv, TypeOK, Row
    <2> QED
      BY <2>1 DEF IInv, CurrentVersionIsCurrentRow
  <1> QED
    BY Zenon, <1>1, <1>2, <1>3, <1>4, <1>5

\* MirrorEntry adds a link to a file and counts it in the file's row.
LEMMA MirrorEntryIInv ==
    ASSUME IInv, NEW e \in used, NEW p \in used, NEW n \in Name, MirrorEntry(e, p, n)
    PROVE  IInv'
  <1> DEFINE new == [parent |-> p, name |-> n, child |-> e]
  <1>1. /\ e \in rows /\ p \in rows /\ e \in Id /\ p \in Id /\ p # e
        /\ ~entry[e].isGroup
        /\ children' = children \cup {new} /\ new \notin children
        /\ UNCHANGED <<rows, used, unlinked, copy>>
        /\ entry \in [Id -> Row]
    BY DEF IInv, MirrorEntry, Mirrorable, TypeOK, FindEntry
  <1>2. /\ entry' \in [Id -> Row]
        /\ \A x \in Id : /\ entry'[x].isGroup = entry[x].isGroup
                         /\ entry'[x].refCount = entry[x].refCount + (IF x = e THEN 1 ELSE 0)
                         /\ entry'[x].version = entry[x].version + (IF x = e \/ x = p THEN 1 ELSE 0)
    <2> DEFINE f == AddRef(entry, e, 1)
    <2>1. entry' = AddRef(f, p, 0)
      BY Zenon DEF MirrorEntry
    <2>2. /\ f \in [Id -> Row]
          /\ \A x \in Id : /\ f[x].isGroup = entry[x].isGroup
                           /\ f[x].refCount = entry[x].refCount + (IF x = e THEN 1 ELSE 0)
                           /\ f[x].version = entry[x].version + (IF x = e THEN 1 ELSE 0)
      BY <1>1, AddRefTable
    <2> HIDE DEF f
    <2>3. /\ entry' \in [Id -> Row]
          /\ \A x \in Id : /\ entry'[x].isGroup = f[x].isGroup
                           /\ entry'[x].refCount = f[x].refCount + (IF x = p THEN 0 ELSE 0)
                           /\ entry'[x].version = f[x].version + (IF x = p THEN 1 ELSE 0)
      BY <1>1, <2>1, <2>2, AddRefTable
    <2>4. \A x \in Id : /\ entry[x].version \in Nat /\ entry[x].refCount \in Int
                        /\ f[x].version \in Nat /\ f[x].refCount \in Int
      BY Zenon, <1>1, <2>2 DEF Row
    <2> QED
      BY <1>1, <2>2, <2>3, <2>4
  <1>3. \A x \in Id : entry[x].version \in Nat /\ entry[x].refCount \in Int
    BY Zenon, <1>1 DEF Row
  <1>4. /\ new \in ChildRow /\ new.child = e /\ new.parent = p /\ e # Root
        /\ children' = (children \ {}) \cup {new}
    BY Zenon, <1>1 DEF IInv, ChildRow, Allocated
  <1> HIDE DEF new
  <1>5. TypeOK' /\ IsFiniteSet(children)' /\ Allocated' /\ GroupHasOneLink' /\ CurrentVersionIsCurrentRow'
    <2>1. \A x \in Id : /\ entry'[x].isGroup = entry[x].isGroup
                        /\ entry'[x].version >= entry[x].version
                        /\ entry'[x].version = entry[x].version => entry'[x].refCount = entry[x].refCount
      BY <1>2, <1>3
    <2>2. entry[new.child].isGroup => \A r \in children \ {} : r.child # new.child
      BY Zenon, <1>1, <1>4
    <2> QED
      BY Zenon, <1>1, <1>2, <1>4, <2>1, <2>2, TreeEditIInv
  <1>6. RefCountMatchesLinks'
    <2> SUFFICES ASSUME NEW x \in rows
                 PROVE  entry'[x].refCount =
                          (IF entry'[x].isGroup THEN 2 * LinkCount(x)' ELSE LinkCount(x)')
                          + Cardinality(SubgroupsOf(x)')
      BY Zenon, <1>1 DEF RefCountMatchesLinks
    <2>1. /\ IsFiniteSet(LinksOf(x)) /\ Cardinality(LinksOf(x)) \in Nat
          /\ IsFiniteSet(SubgroupsOf(x)) /\ Cardinality(SubgroupsOf(x)) \in Nat
      BY Zenon, CountsAreNat DEF IInv
    <2>2. LinksOf(x)' = (IF x = e THEN LinksOf(x) \cup {new} ELSE LinksOf(x)) /\ new \notin LinksOf(x)
      BY Zenon, <1>1, <1>4 DEF LinksOf
    <2>3. SubgroupsOf(x)' = SubgroupsOf(x)
      BY Zenon, <1>1, <1>2, <1>4 DEF IInv, SubgroupsOf, TypeOK, ChildRow
    <2>4. Cardinality(LinksOf(x)') = Cardinality(LinksOf(x)) + (IF x = e THEN 1 ELSE 0)
      <3>1. CASE x = e
        BY Zenon, <3>1, <2>1, <2>2, AddedCount
      <3>2. CASE x # e
        BY <3>2, <2>1, <2>2
      <3> QED
        BY Zenon, <3>1, <3>2
    <2>5. x \in Id
      BY Zenon DEF IInv, TypeOK
    <2> QED
      BY <1>1, <1>2, <1>3, <2>1, <2>3, <2>4, <2>5 DEF IInv, RefCountMatchesLinks, LinkCount
  <1> QED
    BY Zenon, <1>5, <1>6 DEF IInv

\* ChangeEntryParent replaces one row by another; a group that changes parent
\* takes its ".." along.
LEMMA ChangeEntryParentIInv ==
    ASSUME IInv, NEW e \in used, NEW op \in used, NEW np \in used,
           NEW on \in Name, NEW nn \in Name, ChangeEntryParent(e, op, np, on, nn)
    PROVE  IInv'
  <1> DEFINE old == [parent |-> op, name |-> on, child |-> e]
             new == [parent |-> np, name |-> nn, child |-> e]
             k == IF entry[e].isGroup /\ op # np THEN 1 ELSE 0
  <1>1. /\ e \in rows /\ e \in Id /\ op \in Id /\ np \in Id /\ old \in children
        /\ UNCHANGED <<rows, used, unlinked, copy>>
        /\ entry \in [Id -> Row] /\ e # Root
    BY Zenon DEF IInv, ChangeEntryParent, TypeOK, Allocated
  <1>2. \A x \in Id : entry[x].version \in Nat /\ entry[x].refCount \in Int /\ entry[x].size \in Nat
    BY Zenon, <1>1 DEF Row
  <1>3. CASE old = new
    <2>1. entry' = AddRef(entry, e, 0) /\ UNCHANGED children
      BY Zenon, <1>3 DEF ChangeEntryParent
    <2>2. entry' = [entry EXCEPT ![e] = Bump(entry[e], entry[e].refCount, entry[e].size)]
      <3>1. entry[e].refCount + 0 = entry[e].refCount
        BY <1>1, <1>2
      <3> QED
        BY Zenon, <2>1, <3>1 DEF AddRef
    <2>3. copy' \in [Reader -> [id : Id \cup {NoId}, row : Row]]
      BY Zenon, <1>1 DEF IInv, TypeOK
    <2> QED
      BY Zenon, <1>1, <1>2, <2>1, <2>2, <2>3, RowUpdateIInv
  <1>4. CASE old # new
    <2>1. children' = (children \ {old}) \cup {new} /\ new \notin children
      BY <1>4 DEF ChangeEntryParent, FindEntry
    <2>2. /\ entry' \in [Id -> Row]
          /\ \A x \in Id : /\ entry'[x].isGroup = entry[x].isGroup
                           /\ entry'[x].version >= entry[x].version
                           /\ (x = op \/ x = np) /\ k = 1 => entry'[x].version > entry[x].version
                           /\ entry'[x].refCount = entry[x].refCount
                                + (IF x = np THEN k ELSE 0) - (IF x = op THEN k ELSE 0)
      <3> DEFINE f == AddRef(entry, e, 0)
                 h == AddRef(f, np, 1)
      <3>1. entry' = IF k = 1 THEN AddRef(h, op, -1) ELSE AddRef(f, op, 0)
        BY <1>4 DEF ChangeEntryParent
      <3>2. /\ f \in [Id -> Row]
            /\ \A x \in Id : /\ f[x].isGroup = entry[x].isGroup
                             /\ f[x].refCount = entry[x].refCount + (IF x = e THEN 0 ELSE 0)
                             /\ f[x].version = entry[x].version + (IF x = e THEN 1 ELSE 0)
        BY <1>1, AddRefTable
      <3> HIDE DEF IInv, old, new, f
      <3>3. /\ h \in [Id -> Row]
            /\ \A x \in Id : /\ h[x].isGroup = f[x].isGroup
                             /\ h[x].refCount = f[x].refCount + (IF x = np THEN 1 ELSE 0)
                             /\ h[x].version = f[x].version + (IF x = np THEN 1 ELSE 0)
        BY <1>1, <3>2, AddRefTable
      <3> HIDE DEF h
      <3>4. \A x \in Id : /\ f[x].version \in Nat /\ f[x].refCount \in Int
                          /\ h[x].version \in Nat /\ h[x].refCount \in Int
        BY Zenon, <3>2, <3>3 DEF Row
      <3>5. CASE k = 1
        <4>1. /\ entry' \in [Id -> Row]
              /\ \A x \in Id : /\ entry'[x].isGroup = h[x].isGroup
                               /\ entry'[x].refCount = h[x].refCount + (IF x = op THEN -1 ELSE 0)
                               /\ entry'[x].version = h[x].version + (IF x = op THEN 1 ELSE 0)
          BY <1>1, <3>1, <3>3, <3>5, AddRefTable
        <4> HIDE DEF k
        <4> QED
          BY <1>2, <3>2, <3>3, <3>4, <3>5, <4>1
      <3>6. CASE k = 0
        <4>1. /\ entry' \in [Id -> Row]
              /\ \A x \in Id : /\ entry'[x].isGroup = f[x].isGroup
                               /\ entry'[x].refCount = f[x].refCount + (IF x = op THEN 0 ELSE 0)
                               /\ entry'[x].version = f[x].version + (IF x = op THEN 1 ELSE 0)
          BY <1>1, <3>1, <3>2, <3>6, AddRefTable
        <4> HIDE DEF k
        <4> QED
          BY <1>2, <3>2, <3>4, <3>6, <4>1
      <3> QED
        BY Zenon, <3>5, <3>6
    <2>3. /\ new \in ChildRow /\ new.child = e /\ new.parent = np
          /\ old.child = e /\ old.parent = op
      BY Zenon, <1>1 DEF ChildRow
    <2>4. op = np => k = 0
      BY Zenon
    <2>5. entry[e].isGroup => \A r \in children : r.child = e => r = old
      BY Zenon, <1>1 DEF IInv, GroupHasOneLink
    <2>6. k \in {0, 1} /\ (~entry[e].isGroup => k = 0) /\ (entry[e].isGroup /\ op # np => k = 1)
      BY Zenon
    <2> HIDE DEF old, new, k
    <2>7. TypeOK' /\ IsFiniteSet(children)' /\ Allocated' /\ GroupHasOneLink' /\ CurrentVersionIsCurrentRow'
      <3>1. \A x \in Id : /\ entry'[x].isGroup = entry[x].isGroup
                          /\ entry'[x].version >= entry[x].version
                          /\ entry'[x].version = entry[x].version => entry'[x].refCount = entry[x].refCount
        <4>1. \A x \in Id : entry'[x].version \in Nat
          BY Zenon, <2>2 DEF Row
        <4> QED
          BY <1>2, <2>2, <2>6, <4>1
      <3>2. entry[new.child].isGroup => \A r \in children \ {old} : r.child # new.child
        BY Zenon, <2>3, <2>5
      <3> QED
        BY ZenonT(60), <1>1, <2>1, <2>2, <2>3, <3>1, <3>2, TreeEditIInv
    <2>8. RefCountMatchesLinks'
      <3> SUFFICES ASSUME NEW x \in rows
                   PROVE  entry'[x].refCount =
                            (IF entry'[x].isGroup THEN 2 * LinkCount(x)' ELSE LinkCount(x)')
                            + Cardinality(SubgroupsOf(x)')
        BY Zenon, <1>1 DEF RefCountMatchesLinks
      <3>1. /\ IsFiniteSet(LinksOf(x)) /\ Cardinality(LinksOf(x)) \in Nat
            /\ IsFiniteSet(SubgroupsOf(x)) /\ Cardinality(SubgroupsOf(x)) \in Nat
        BY Zenon, CountsAreNat DEF IInv
      <3>2. LinksOf(x)' = IF x = e THEN (LinksOf(x) \ {old}) \cup {new} ELSE LinksOf(x)
        BY Zenon, <1>1, <2>1, <2>3 DEF LinksOf
      <3>3. Cardinality(LinksOf(x)') = Cardinality(LinksOf(x))
        <4>1. CASE x = e
          <5>1. old \in LinksOf(x) /\ new \notin LinksOf(x)
            BY Zenon, <4>1, <1>1, <2>1, <2>3 DEF LinksOf
          <5> QED
            BY Zenon, <4>1, <5>1, <3>1, <3>2, ReplacedCount
        <4>2. CASE x # e
          BY Zenon, <4>2, <3>2
        <4> QED
          BY Zenon, <4>1, <4>2
      <3>4. \A r \in children' : entry'[r.child].isGroup = entry[r.child].isGroup
        BY Zenon, <1>1, <2>1, <2>2, <2>3 DEF IInv, TypeOK, ChildRow
      <3>5. Cardinality(SubgroupsOf(x)') =
               Cardinality(SubgroupsOf(x)) + (IF x = np THEN k ELSE 0) - (IF x = op THEN k ELSE 0)
        <4>1. CASE ~entry[e].isGroup
          <5>1. SubgroupsOf(x)' = SubgroupsOf(x)
            BY Zenon, <4>1, <2>1, <2>3, <3>4 DEF SubgroupsOf
          <5> QED
            BY <4>1, <5>1, <2>6, <3>1
        <4>2. CASE entry[e].isGroup /\ op # np /\ x = np
          <5>1. SubgroupsOf(x)' = SubgroupsOf(x) \cup {new} /\ new \notin SubgroupsOf(x)
            BY Zenon, <4>2, <2>1, <2>3, <3>4 DEF SubgroupsOf
          <5> QED
            BY <4>2, <5>1, <2>6, <3>1, AddedCount
        <4>3. CASE entry[e].isGroup /\ op # np /\ x = op
          <5>1. SubgroupsOf(x)' = SubgroupsOf(x) \ {old} /\ old \in SubgroupsOf(x)
            BY <4>3, <1>1, <2>1, <2>3, <3>4 DEF SubgroupsOf
          <5> QED
            BY <4>3, <5>1, <2>6, <3>1, RemovedCount
        <4>4. CASE x # op /\ x # np
          <5>1. SubgroupsOf(x)' = SubgroupsOf(x)
            BY Zenon, <4>4, <2>1, <2>3, <3>4 DEF SubgroupsOf
          <5> QED
            BY <4>4, <5>1, <3>1
        <4>5. CASE entry[e].isGroup /\ op = np /\ x = op
          <5>1. /\ SubgroupsOf(x)' = (SubgroupsOf(x) \ {old}) \cup {new}
                /\ old \in SubgroupsOf(x) /\ new \notin SubgroupsOf(x)
            BY Zenon, <4>5, <1>1, <2>1, <2>3, <3>4 DEF SubgroupsOf
          <5>2. Cardinality(SubgroupsOf(x)') = Cardinality(SubgroupsOf(x))
            BY Zenon, <5>1, <3>1, ReplacedCount
          <5> QED
            BY <4>5, <5>2, <2>4, <3>1
        <4> QED
          BY Zenon, <4>1, <4>2, <4>3, <4>4, <4>5
      <3>6. x \in Id
        BY Zenon DEF IInv, TypeOK
      <3>7. /\ entry[x].refCount =
                 (IF entry[x].isGroup THEN 2 * LinkCount(x) ELSE LinkCount(x))
                 + Cardinality(SubgroupsOf(x))
            /\ LinkCount(x)' = LinkCount(x) /\ LinkCount(x) \in Nat
        BY <3>1, <3>3 DEF IInv, RefCountMatchesLinks, LinkCount
      <3> DEFINE d == (IF x = np THEN k ELSE 0) - (IF x = op THEN k ELSE 0)
      <3>8. entry'[x].isGroup = entry[x].isGroup /\ entry'[x].refCount = entry[x].refCount + d /\ d \in Int
        BY <1>2, <2>2, <2>6, <3>6
      <3>9. Cardinality(SubgroupsOf(x)') = Cardinality(SubgroupsOf(x)) + d
        BY Zenon, <2>6, <3>1, <3>5
      <3> HIDE DEF d
      <3> QED
        BY <3>1, <3>7, <3>8, <3>9
    <2> QED
      BY Zenon, <2>7, <2>8 DEF IInv
  <1> QED
    BY Zenon, <1>3, <1>4

-----------------------------------------------------------------------------
(* The invariant is inductive, hence the theorems. *)

\* Every transaction preserves the invariant.
LEMMA NextIInv == IInv /\ [Next]_vars => IInv'
  <1> SUFFICES ASSUME IInv, [Next]_vars PROVE IInv'
    BY Zenon
  <1>1. ASSUME NEW p \in used, NEW e \in Id, NEW n \in Name, NEW g \in BOOLEAN, CreateEntry(p, e, n, g)
        PROVE  IInv'
    BY Zenon, <1>1, CreateEntryIInv
  <1>2. ASSUME NEW p \in used, NEW e \in used, NEW n \in Name, RemoveEntry(p, e, n)
        PROVE  IInv'
    BY Zenon, <1>2, RemoveEntryIInv
  <1>3. ASSUME NEW e \in unlinked, DeleteRemovedEntry(e)
        PROVE  IInv'
    BY Zenon, <1>3, DeleteRemovedEntryIInv
  <1>4. ASSUME NEW e \in used, NEW p \in used, NEW n \in Name, MirrorEntry(e, p, n)
        PROVE  IInv'
    BY Zenon, <1>4, MirrorEntryIInv
  <1>5. ASSUME NEW e \in used, NEW op \in used, NEW np \in used, NEW on \in Name, NEW nn \in Name,
               ChangeEntryParent(e, op, np, on, nn)
        PROVE  IInv'
    BY Zenon, <1>5, ChangeEntryParentIInv
  <1>6. ASSUME NEW e \in used, NEW trunc \in BOOLEAN, Open(e, trunc)
        PROVE  IInv'
    <2>1. 0 \in 0..MaxSize
      BY BoundsAssumption
    <2> QED
      BY Zenon, <1>6, <2>1, SizeStepIInv
  <1>7. ASSUME NEW e \in used, NEW s \in 0..MaxSize, Flush(e, s)
        PROVE  IInv'
    BY Zenon, <1>7, SizeStepIInv
  <1>8. ASSUME NEW r \in Reader, NEW e \in used, GetEntry(r, e)
        PROVE  IInv'
    BY Zenon, <1>8, GetEntryIInv
  <1>13. ASSUME NEW r \in Reader, NEW e \in used, NEW s \in 0..MaxSize, AppendSegments(r, e, s)
        PROVE  IInv'
    BY Zenon, <1>13, AppendSegmentsIInv
  <1>14. ASSUME NEW S \in SUBSET Reader, Drop(S)
        PROVE  IInv'
    BY Zenon, <1>14, DropIInv
  <1>9. ASSUME NEW r \in Reader, NEW s \in 0..MaxSize, UpdateEntry(r, s)
        PROVE  IInv'
    BY Zenon, <1>9, UpdateEntryIInv
  <1>10. CASE UNCHANGED vars
    <2>1. UNCHANGED <<rows, used, entry, children, unlinked, copy>>
      BY Zenon, <1>10 DEF vars
    <2>2. TypeOK' /\ IsFiniteSet(children)' /\ Allocated' /\ GroupHasOneLink'
      BY Zenon, <2>1 DEF IInv, TypeOK, Allocated, GroupHasOneLink
    <2>3. CurrentVersionIsCurrentRow'
      BY Zenon, <2>1 DEF IInv, CurrentVersionIsCurrentRow
    <2>4. RefCountMatchesLinks'
      BY Zenon, <2>1, RefCountStutter DEF IInv
    <2> QED
      BY Zenon, <2>2, <2>3, <2>4 DEF IInv
  <1>11. CASE TreeStep
    <2>1. CASE \E p \in used, e \in Id, n \in Name, g \in BOOLEAN : CreateEntry(p, e, n, g)
      BY Zenon, <1>1, <2>1
    <2>2. CASE \E p, e \in used, n \in Name : RemoveEntry(p, e, n)
      BY Zenon, <1>2, <2>2
    <2>3. CASE \E e \in unlinked : DeleteRemovedEntry(e)
      BY Zenon, <1>3, <2>3
    <2>4. CASE \E e, p \in used, n \in Name : MirrorEntry(e, p, n)
      BY Zenon, <1>4, <2>4
    <2>5. CASE \E e, op, np \in used, on, nn \in Name : ChangeEntryParent(e, op, np, on, nn)
      BY Zenon, <1>5, <2>5
    <2> QED
      BY Zenon, <1>11, <2>1, <2>2, <2>3, <2>4, <2>5 DEF TreeStep
  <1>12. CASE RowStep
    BY Zenon, <1>6, <1>7, <1>8, <1>9, <1>12, <1>13, <1>14 DEF RowStep
  <1> QED
    BY Zenon, <1>10, <1>11, <1>12 DEF Next

\* IInv holds in every reachable state.
THEOREM Invariance == Spec => []IInv
  BY InitIInv, NextIInv, PTL DEF Spec

\* Type correctness of the tables, for any constants.
THEOREM TypeCorrect == Spec => []TypeOK
  <1>1. IInv => TypeOK
    BY Zenon DEF IInv
  <1> QED
    BY <1>1, Invariance, PTL

\* The reference counts the transactions maintain, and write back through
\* UpdateEntry, are the link counts of the children table.
THEOREM RefCountCorrect == Spec => []RefCountMatchesLinks
  <1>1. IInv => RefCountMatchesLinks
    BY Zenon DEF IInv
  <1> QED
    BY <1>1, Invariance, PTL

\* The version column lets no stale counter through.
THEOREM OptimisticLockCorrect == Spec => []CurrentVersionIsCurrentRow
  <1>1. IInv => CurrentVersionIsCurrentRow
    BY Zenon DEF IInv
  <1> QED
    BY <1>1, Invariance, PTL

\* No sequence of transactions gives a group two names.
THEOREM GroupLinkCorrect == Spec => []GroupHasOneLink
  <1>1. IInv => GroupHasOneLink
    BY Zenon DEF IInv
  <1> QED
    BY <1>1, Invariance, PTL

\* A group loses its name only when it is empty, and for good: the only new
\* children rows are for a fresh id, for a file, or in exchange for an old row.
LEMMA GroupUnlinkNext == IInv /\ [Next]_vars => [GroupUnlinkStep]_vars
  <1> SUFFICES ASSUME IInv, Next, NEW g \in used, entry[g].isGroup
               PROVE  /\ Linked(g) /\ ~Linked(g)' => ChildrenOf(g)' = {}
                      /\ ~Linked(g) => ~Linked(g)'
    BY Zenon DEF GroupUnlinkStep
  <1> USE DEF Linked, LinksOf
  <1>1. ASSUME NEW p \in used, NEW e \in Id, NEW n \in Name, NEW k \in BOOLEAN, CreateEntry(p, e, n, k)
        PROVE  (Linked(g) => Linked(g)') /\ (~Linked(g) => ~Linked(g)')
    BY <1>1 DEF CreateEntry
  <1>2. ASSUME NEW p \in used, NEW e \in used, NEW n \in Name, RemoveEntry(p, e, n)
        PROVE  /\ Linked(g) /\ ~Linked(g)' => ChildrenOf(g)' = {}
               /\ ~Linked(g) => ~Linked(g)'
    <2>1. children' = children \ {[parent |-> p, name |-> n, child |-> e]}
      BY Zenon, <1>2 DEF RemoveEntry
    <2>2. CASE g = e
      <3>1. ChildrenOf(g) = {}
        BY Zenon, <1>2, <2>2 DEF RemoveEntry, Removable
      <3> QED
        BY Zenon, <2>1, <3>1 DEF ChildrenOf
    <2>3. CASE g # e
      <3>1. LinksOf(g)' = LinksOf(g)
        BY <2>1, <2>3
      <3> QED
        BY Zenon, <3>1
    <2> QED
      BY Zenon, <2>2, <2>3
  <1>3. ASSUME NEW e \in used, NEW p \in used, NEW n \in Name, MirrorEntry(e, p, n)
        PROVE  (Linked(g) => Linked(g)') /\ (~Linked(g) => ~Linked(g)')
    BY <1>3 DEF MirrorEntry, Mirrorable
  <1>4. ASSUME NEW e \in used, NEW op \in used, NEW np \in used, NEW on \in Name, NEW nn \in Name,
               ChangeEntryParent(e, op, np, on, nn)
        PROVE  (Linked(g) => Linked(g)') /\ (~Linked(g) => ~Linked(g)')
    BY <1>4 DEF ChangeEntryParent
  <1>5. CASE UNCHANGED children
    BY Zenon, <1>5
  <1>6. CASE TreeStep
    <2>1. CASE \E p \in used, e \in Id, n \in Name, k \in BOOLEAN : CreateEntry(p, e, n, k)
      BY Zenon, <1>1, <2>1
    <2>2. CASE \E p, e \in used, n \in Name : RemoveEntry(p, e, n)
      BY Zenon, <1>2, <2>2
    <2>3. CASE \E e \in unlinked : DeleteRemovedEntry(e)
      BY Zenon, <1>5, <2>3 DEF DeleteRemovedEntry
    <2>4. CASE \E e, p \in used, n \in Name : MirrorEntry(e, p, n)
      BY Zenon, <1>3, <2>4
    <2>5. CASE \E e, op, np \in used, on, nn \in Name : ChangeEntryParent(e, op, np, on, nn)
      BY Zenon, <1>4, <2>5
    <2> QED
      BY Zenon, <1>6, <2>1, <2>2, <2>3, <2>4, <2>5 DEF TreeStep
  <1>7. CASE RowStep
    <2>1. UNCHANGED children
      BY Zenon, <1>7 DEF RowStep, Open, Flush, AppendSegments, GetEntry, Drop, UpdateEntry
    <2> QED
      BY Zenon, <1>5, <2>1
  <1> QED
    BY Zenon, <1>6, <1>7 DEF Next

\* Unlinking a group is final, for any constants.
THEOREM GroupUnlinkCorrect == Spec => GroupUnlinkIsFinal
  <1>1. IInv /\ [Next]_vars => [GroupUnlinkStep]_vars
    BY Zenon, GroupUnlinkNext
  <1> QED
    BY <1>1, Invariance, PTL DEF Spec, GroupUnlinkIsFinal
=============================================================================
