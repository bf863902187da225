---------------------------- MODULE SegmentTree ----------------------------
(***************************************************************************)
(* The tree a segment reader builds over the segments of one chunk, in the *)
(* order in which they were appended, to find for every byte the segment   *)
(* that wrote it last (pkg/bio/chunk.go, segTree).                         *)
(*                                                                         *)
(* cut edits the tree in place and hands out pointers into it, so that the *)
(* two halves it returns may share nodes.  The nodes therefore live in a   *)
(* heap: a sequence of nodes, a pointer being an index, Nil the nil        *)
(* pointer.                                                                *)
(***************************************************************************)
EXTENDS Integers, Sequences, FiniteSetsExt

CONSTANTS
    DataEnd,     \* the chunk's bytes are 0 .. DataEnd - 1
    MaxSegments  \* how many segments are appended

ASSUME TreeAssumption == DataEnd \in Nat \ {0} /\ MaxSegments \in Nat

VARIABLES
    segList,  \* the segments of the chunk, by append_at
    st        \* the tree that buildSegmentTree makes of them

segVars == <<segList, st>>

Byte == 0 .. DataEnd - 1

Nil == 0

ChunkSegment == {s \in [off : Byte, len : 1 .. DataEnd] : s.off + s.len <= DataEnd}

maxOff(a, b) == IF a > b THEN a ELSE b

minOff(a, b) == IF a < b THEN a ELSE b

-----------------------------------------------------------------------------

(* t.query(start, end): the pieces of [start, end), in the order returned. *)
RECURSIVE Query(_, _, _, _)

Piece(n, start, end) ==
    LET segStart == maxOff(n.start, start)
        segEnd   == minOff(n.end, end)
    IN  IF segEnd > segStart
        THEN <<[id |-> n.id, off |-> segStart,
                pos |-> n.pos + segStart - n.start, len |-> segEnd - segStart]>>
        ELSE <<>>

Query(h, t, start, end) ==
    IF t = Nil THEN <<>>
    ELSE LET n == h[t]
         IN  (IF start < n.start THEN Query(h, n.left, start, minOff(n.start, end)) ELSE <<>>)
             \o Piece(n, start, end)
             \o (IF end > n.end THEN Query(h, n.right, maxOff(n.end, start), end) ELSE <<>>)

\* Mutant: the right half keeps the position of the whole node.
SplitSamePos(h, t, off) ==
    [heap  |-> h \o << [h[t] EXCEPT !.end = off, !.right = Nil],
                       [h[t] EXCEPT !.start = off, !.left = Nil] >>,
     left  |-> Len(h) + 1,
     right |-> Len(h) + 2]

(* The node itself is cut: two new nodes, which share its subtrees.        *)
Split(h, t, off) ==
    [heap  |-> h \o << [h[t] EXCEPT !.end = off, !.right = Nil],
                       [h[t] EXCEPT !.start = off, !.left = Nil,
                                    !.pos = @ + off - h[t].start] >>,
     left  |-> Len(h) + 1,
     right |-> Len(h) + 2]

(* t.cut(off): the heap after the call and the two pointers returned.      *)
RECURSIVE Cut(_, _, _)
Cut(h, t, off) ==
    IF t = Nil THEN [heap |-> h, left |-> Nil, right |-> Nil]
    ELSE
    CASE off < h[t].start ->
           LET c == Cut(h, h[t].left, off)
           IN  [heap |-> c.heap, left |-> c.left, right |-> t]
      [] off > h[t].end ->
           LET c == Cut(h, h[t].right, off)
           IN  [heap |-> [c.heap EXCEPT ![t].right = c.left], left |-> t, right |-> c.right]
      [] off = h[t].start ->
           [heap |-> [h EXCEPT ![t].left = Nil], left |-> h[t].left, right |-> t]
      [] off = h[t].end /\ off # h[t].start ->
           [heap |-> [h EXCEPT ![t].right = Nil], left |-> t, right |-> h[t].right]
      [] OTHER -> Split(h, t, off)

(* One round of buildSegmentTree: the i-th segment becomes the root.  The  *)
(* tree of a list is the tree of its prefix with the last segment inserted.*)
InsertSegment(t, seg, i) ==
    LET l == Cut(t.heap, t.root, seg.off)
        r == Cut(l.heap, l.right, seg.off + seg.len)
    IN  [heap |-> Append(r.heap, [start |-> seg.off, end |-> seg.off + seg.len,
                                  id |-> i, pos |-> 0, left |-> l.left, right |-> r.right]),
         root |-> Len(r.heap) + 1]

(* Bytes no segment has written belong to segment 0, which reads as zeros. *)
EmptyTree == [heap |-> <<[start |-> 0, end |-> DataEnd, id |-> 0, pos |-> 0,
                     left |-> Nil, right |-> Nil]>>,
         root |-> 1]

-----------------------------------------------------------------------------

InitTree == segList = <<>> /\ st = EmptyTree

(* AppendSegments: any range of the chunk may be written next.             *)
AppendSegment(s) ==
    /\ Len(segList) < MaxSegments
    /\ segList' = Append(segList, s)
    /\ st' = InsertSegment(st, s, Len(segList) + 1)

TreeNext == \E s \in ChunkSegment : AppendSegment(s)

TreeSpec == InitTree /\ [][TreeNext]_segVars

-----------------------------------------------------------------------------

Covers(s, o) == s.off <= o /\ o < s.off + s.len

(* The reference: the last segment that wrote a byte, 0 when there is none.*)
LastWriter(o) == Max({0} \cup {i \in DOMAIN segList : Covers(segList[i], o)})

Pieces(start, end) == Query(st.heap, st.root, start, end)

\* The pieces that a query of the page [start, end) returns are in file order
\* and do not overlap, so mergePage copies every byte at most once.
QueryIsOrdered ==
    \A start \in Byte : \A end \in start + 1 .. DataEnd :
        LET q == Pieces(start, end)
        IN  \A i \in 1 .. Len(q) :
                /\ start <= q[i].off /\ q[i].len > 0 /\ q[i].off + q[i].len <= end
                /\ i > 1 => q[i-1].off + q[i-1].len <= q[i].off

\* No query attributes a byte to a segment that was overwritten: whatever
\* piece a byte falls into names the last segment that wrote it, at the
\* place where that segment holds it.
QueryIsNewest ==
    LET q == Pieces(0, DataEnd)
    IN  \A i \in 1 .. Len(q) : \A o \in q[i].off .. q[i].off + q[i].len - 1 :
            /\ q[i].id = LastWriter(o)
            /\ q[i].id # 0 => q[i].pos = q[i].off - segList[q[i].id].off

Found(o) == \E i \in 1 .. Len(Pieces(0, DataEnd)) : Covers(Pieces(0, DataEnd)[i], o)

\* A file that was only ever appended to is found in full: when every segment
\* starts at or after the end of the ones before it, the pieces of a query
\* cover every byte of the chunk, the ones never written included.
AppendOnlyIsFound ==
    (\A i, j \in DOMAIN segList :
        i < j => segList[i].off + segList[i].len <= segList[j].off)
    => \A o \in Byte : Found(o)

\* A query answers with the last writer of each byte it answers for, once and
\* in order, and leaves nothing out of a file that only grew (query, cut).
QueryIsRight == QueryIsOrdered /\ QueryIsNewest /\ AppendOnlyIsFound
=============================================================================
