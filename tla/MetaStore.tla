------------------------------ MODULE MetaStore ------------------------------
(***************************************************************************)
(* The entry and children tables of the SQL metastore                      *)
(* (pkg/metastore/sql.go) for one namespace.                               *)
(*                                                                         *)
(* Every exported method of sqlMetaStore that touches the tables runs one  *)
(* transaction.  SQLite serialises them with bigLock; on PostgreSQL each   *)
(* one takes the rows it rewrites FOR UPDATE.  One action here is one      *)
(* committed transaction; a transaction that returns an error rolls back   *)
(* and is a stuttering step.                                               *)
(*                                                                         *)
(* The rows a caller has read are modelled too: core keeps them in its     *)
(* entry cache and writes a whole row back with UpdateEntry, so a row that *)
(* was read before somebody else's transaction may come back after it.     *)
(***************************************************************************)
EXTENDS Integers, FiniteSets

CONSTANTS
    Id,          \* entry identifiers (snowflake ids: never allocated twice)
    Name,        \* names of directory entries
    Root,        \* the root entry of the namespace
    Reader,      \* places a row is kept in after it was read: types.Entry objects
    NoId,        \* the id of a place that holds no row
    MaxVersion,  \* bound on the version column
    MaxSize      \* bound on the size column

ASSUME RootAssumption == Root \in Id /\ NoId \notin Id

ASSUME BoundsAssumption == MaxVersion \in Nat /\ MaxSize \in Nat

VARIABLES
    rows,      \* ids that have a row in the entry table
    used,      \* ids that were ever allocated
    entry,     \* the row of an id (the last one, when it was deleted)
    children,  \* the children table
    unlinked,  \* ids some committed RemoveEntry named: cleanup may destroy them
    copy       \* the row each place holds

vars == <<rows, used, entry, children, unlinked, copy>>

Row == [isGroup : BOOLEAN, refCount : Int, version : Nat, size : Nat]

ChildRow == [parent : Id, name : Name, child : Id]

-----------------------------------------------------------------------------
(* What the queries count. *)

\* children rows that name e
LinksOf(e) == {r \in children : r.child = e}

\* children rows under p that name a group
SubgroupsOf(p) == {r \in children : r.parent = p /\ entry[r.child].isGroup}

ChildrenOf(p) == {r \in children : r.parent = p}

\* FindEntry, GetChild: the row under the primary key (parent, name)
FindEntry(p, n) == {r \in children : r.parent = p /\ r.name = n}

\* The namespace root hangs off the file system root, outside this table.
Linked(e) == e = Root \/ LinksOf(e) # {}

LinkCount(e) == Cardinality(LinksOf(e)) + (IF e = Root THEN 1 ELSE 0)

-----------------------------------------------------------------------------

\* Variants marked "mutant" carry a plausible bug; the properties must notice it.

\* mutant: the own link of a group is forgotten
NewRowNoDot(g) == [isGroup |-> g, refCount |-> 1, version |-> 1, size |-> 0]

\* NewEntry: a group counts its parent's link and its own "."
NewRow(g) == [isGroup |-> g, refCount |-> IF g THEN 2 ELSE 1, version |-> 1, size |-> 0]

\* updateEntryModelWithVersion on a row read in the same transaction: the
\* WHERE version = ? clause matches, the version column moves on by one.
Bump(row, ref, size) ==
    [isGroup |-> row.isGroup, refCount |-> ref, version |-> row.version + 1, size |-> size]

\* The entry table after one update that adds k to e's reference count.
AddRef(table, e, k) == [table EXCEPT ![e] = Bump(@, @.refCount + k, @.size)]

\* What is in a place before a row is read into it.
NoCopy == [id |-> NoId, row |-> NewRow(FALSE)]

\* MaxVersion bounds the updates of a row.
HasRoom(S) == \A e \in S : entry[e].version < MaxVersion

Init ==
    /\ rows = {Root}
    /\ used = {Root}
    /\ entry = [e \in Id |-> NewRow(e = Root)]
    /\ children = {}
    /\ unlinked = {}
    /\ copy = [r \in Reader |-> NoCopy]

\* The caller found p by path and is not told when p is removed before this
\* transaction: nothing here looks at p's kind or reference count.
CreateEntry(p, e, n, g) ==
    /\ e \notin used
    /\ p \in rows
    /\ FindEntry(p, n) = {}
    /\ HasRoom({p})
    /\ rows' = rows \cup {e}
    /\ used' = used \cup {e}
    /\ children' = children \cup {[parent |-> p, name |-> n, child |-> e]}
    /\ entry' = AddRef([entry EXCEPT ![e] = NewRow(g)], p, IF g THEN 1 ELSE 0)
    /\ UNCHANGED <<unlinked, copy>>

\* mutant: the children are not counted in the transaction
AnyGroup(e) == TRUE

\* Only an empty group may go.
Removable(e) == entry[e].isGroup => ChildrenOf(e) = {}

\* The entry's row is read before the parent's is written: for an entry that
\* is its own parent the last update finds a newer version and rolls back.
RemoveEntry(p, e, n) ==
    /\ e \in rows
    /\ [parent |-> p, name |-> n, child |-> e] \in children
    /\ p \in rows
    /\ p # e
    /\ Removable(e)
    /\ HasRoom({p, e})
    /\ LET k   == IF entry[e].isGroup THEN 1 ELSE 0
           ref == entry[e].refCount - k - 1
       IN  entry' = [AddRef(entry, p, -k) EXCEPT
                       ![e] = Bump(@, IF ref < 0 THEN 0 ELSE ref, @.size)]
    /\ children' = children \ {[parent |-> p, name |-> n, child |-> e]}
    /\ unlinked' = unlinked \cup {e}
    /\ UNCHANGED <<rows, used, copy>>

\* A reference count above zero is logged for a group and otherwise ignored.
DeleteRemovedEntry(e) ==
    /\ e \in rows
    /\ rows' = rows \ {e}
    /\ UNCHANGED <<used, entry, children, unlinked, copy>>

\* The checks of core.MirrorEntry: a file goes into a group.
Mirrorable(e, p) == ~entry[e].isGroup /\ entry[p].isGroup

\* The file and the group were resolved by core before this transaction; either
\* may have lost its last link since.
MirrorEntry(e, p, n) ==
    /\ Mirrorable(e, p)
    /\ {e, p} \subseteq rows
    /\ FindEntry(p, n) = {}
    /\ HasRoom({p, e})
    /\ entry' = AddRef(AddRef(entry, e, 1), p, 0)
    /\ children' = children \cup {[parent |-> p, name |-> n, child |-> e]}
    /\ UNCHANGED <<rows, used, unlinked, copy>>

\* The destination parent's row is only read when a group changes parent.
ChangeEntryParent(e, op, np, on, nn) ==
    LET old == [parent |-> op, name |-> on, child |-> e]
        new == [parent |-> np, name |-> nn, child |-> e]
        moved == entry[e].isGroup /\ op # np
    IN  /\ old \in children
        /\ e \in rows
        /\ HasRoom({e, op, np})
        /\ \/ /\ old = new
              /\ entry' = AddRef(entry, e, 0)
              /\ UNCHANGED children
           \/ /\ old # new
              /\ FindEntry(np, nn) = {}
              /\ op \in rows
              /\ moved => np \in rows
              /\ children' = (children \ {old}) \cup {new}
              /\ entry' = IF moved
                          THEN AddRef(AddRef(AddRef(entry, e, 0), np, 1), op, -1)
                          ELSE AddRef(AddRef(entry, e, 0), op, 0)
        /\ UNCHANGED <<rows, used, unlinked, copy>>

\* Open with O_TRUNC sets the size to zero.
Open(e, trunc) ==
    /\ e \in rows
    /\ ~entry[e].isGroup
    /\ HasRoom({e})
    /\ entry' = [entry EXCEPT ![e] = Bump(@, @.refCount, IF trunc THEN 0 ELSE @.size)]
    /\ UNCHANGED <<rows, used, children, unlinked, copy>>

\* Flush stores the size its caller passes.
Flush(e, size) ==
    /\ e \in rows
    /\ HasRoom({e})
    /\ entry' = [entry EXCEPT ![e] = Bump(@, @.refCount, size)]
    /\ UNCHANGED <<rows, used, children, unlinked, copy>>

\* The size after a segment that ends at end.
GrownSize(size, end) == IF end > size THEN end ELSE size

\* The caller gets the row as this transaction wrote it.
AppendSegments(r, e, end) ==
    /\ e \in rows
    /\ HasRoom({e})
    /\ entry' = [entry EXCEPT ![e] = Bump(@, @.refCount, GrownSize(@.size, end))]
    /\ copy' = [copy EXCEPT ![r] = [id |-> e, row |-> entry'[e]]]
    /\ UNCHANGED <<rows, used, children, unlinked>>

\* GetEntry hands its caller a copy of the row.
GetEntry(r, e) ==
    /\ e \in rows
    /\ copy' = [copy EXCEPT ![r] = [id |-> e, row |-> entry[e]]]
    /\ UNCHANGED <<rows, used, entry, children, unlinked>>

\* The last reference to each place in S is gone.
Drop(S) ==
    /\ copy' = [r \in Reader |-> IF r \in S THEN NoCopy ELSE copy[r]]
    /\ UNCHANGED <<rows, used, entry, children, unlinked>>

\* core.UpdateEntry edits the row it holds in place and passes it down; the
\* store writes every column of it, the reference count included (the kind of
\* an entry never changes), provided the version column still has the value
\* that was read.  On a conflict, or when
\* the database fails, the edited copy stays with its reader.
UpdateEntry(r, size) ==
    LET e == copy[r].id
    IN  /\ e # NoId
        /\ copy' = [copy EXCEPT ![r].row.size = size]
        /\ \/ /\ e \in rows
              /\ entry[e].version = copy[r].row.version
              /\ HasRoom({e})
              /\ entry' = [entry EXCEPT ![e] = Bump(@, copy[r].row.refCount, size)]
           \/ UNCHANGED entry
        /\ UNCHANGED <<rows, used, children, unlinked>>

-----------------------------------------------------------------------------

TreeStep ==
    \/ \E p \in used, e \in Id, n \in Name, g \in BOOLEAN : CreateEntry(p, e, n, g)
    \/ \E p, e \in used, n \in Name : RemoveEntry(p, e, n)
    \/ \E e \in unlinked : DeleteRemovedEntry(e)
    \/ \E e, p \in used, n \in Name : MirrorEntry(e, p, n)
    \/ \E e, op, np \in used, on, nn \in Name : ChangeEntryParent(e, op, np, on, nn)

RowStep ==
    \/ \E S \in SUBSET Reader : Drop(S)
    \/ \E e \in used, trunc \in BOOLEAN : Open(e, trunc)
    \/ \E e \in used, s \in 0..MaxSize : Flush(e, s)
    \/ \E r \in Reader, e \in used, s \in 0..MaxSize : AppendSegments(r, e, s)
    \/ \E r \in Reader, e \in used : GetEntry(r, e)
    \/ \E r \in Reader, s \in 0..MaxSize : UpdateEntry(r, s)

Next == RowStep \/ TreeStep

Spec == Init /\ [][Next]_vars

-----------------------------------------------------------------------------
(* Properties. *)

\* Type correctness of the two tables and of the copies.
TypeOK ==
    /\ rows \subseteq used
    /\ used \subseteq Id
    /\ entry \in [Id -> Row]
    /\ children \subseteq ChildRow
    /\ unlinked \subseteq used
    /\ copy \in [Reader -> [id : Id \cup {NoId}, row : Row]]

\* The reference count of every row equals the links the children table holds:
\* one per link of a file, two for a linked group (its parent's link and "."),
\* and one for every subgroup's "..".  The six transactions that edit the
\* children table adjust counters they read in the same transaction, and
\* UpdateEntry writes back a counter read in another one.
RefCountMatchesLinks ==
    \A e \in rows :
        entry[e].refCount =
            (IF entry[e].isGroup THEN 2 * LinkCount(e) ELSE LinkCount(e))
            + Cardinality(SubgroupsOf(e))

\* A copy whose version is current carries the current reference count:
\* the version check of updateEntryModelWithVersion lets no UpdateEntry
\* undo a link count another transaction has changed since the row was read.
CurrentVersionIsCurrentRow ==
    \A r \in Reader :
        LET c == copy[r]
        IN  c.id \in rows =>
              /\ c.row.version <= entry[c.id].version
              /\ c.row.version = entry[c.id].version => c.row.refCount = entry[c.id].refCount

\* No group ever has two names, and the root has none: MirrorEntry is refused
\* for groups and ChangeEntryParent deletes the old row with the new insert.
GroupHasOneLink ==
    \A r, s \in children :
        entry[r.child].isGroup => r.child # Root /\ (r.child = s.child => r = s)

\* A step that takes away a group's only link leaves nothing under the group,
\* and a group that lost its link never gets one again (RemoveEntry counts the
\* children in its transaction; MirrorEntry and ChangeEntryParent cannot link
\* an unlinked group).
GroupUnlinkStep ==
    \A g \in used :
        entry[g].isGroup =>
            /\ Linked(g) /\ ~Linked(g)' => ChildrenOf(g)' = {}
            /\ ~Linked(g) => ~Linked(g)'

\* Every step of the store obeys that (RemoveEntry, MirrorEntry, ChangeEntryParent).
GroupUnlinkIsFinal == [][GroupUnlinkStep]_vars
=============================================================================
