------------------------------ MODULE MCChunk ------------------------------
(* Small instances of both ends of a file's data path: the reader with its *)
(* page cache and compaction, and the writer.  Each behaviour exercises    *)
(* one of them; the other stays as it is.                                  *)
EXTENDS ChunkReader, TLC

CONSTANTS
    Client, Writers, Ranges, Chunks, CommitLimit, MaxWrites, MaxFlushes, MaxFaults, Cancels

VARIABLES
    part,     \* the module at work
    wsegs, wpages, uncommitted, mux, chunkErr, unready, committing, writerMux, calls,
    preWrites, flushing, commits, store, acked, wbudget, cancelled, wcrashed

writerVars ==
    <<wsegs, wpages, uncommitted, mux, chunkErr, unready, committing, writerMux, calls,
      preWrites, flushing, commits, store, acked, wbudget, cancelled, wcrashed>>

Writer == INSTANCE ChunkWriter WITH segs <- wsegs, pages <- wpages, budget <- wbudget, crashed <- wcrashed

MCInit ==
    /\ part \in {"reader", "writer"}
    /\ Init /\ (part = "writer" => budget = CHOOSE s \in Setting : TRUE)
    /\ Writer!Init

MCNext ==
    /\ \/ part = "reader" /\ Next /\ UNCHANGED writerVars
       \/ part = "writer" /\ Writer!Next /\ UNCHANGED vars
    /\ UNCHANGED part

MCSpec == MCInit /\ [][MCNext]_<<part, vars, writerVars>>

Symmetric == Permutations(Reader)

MCInitRanges  == << <<0, 4>>, <<1, 3>> >>
MCWriteRanges == {<<0, 2>>}

Limits(g, l, r, w, c, f) ==
    [pages |-> g, pool |-> l, readers |-> r, writes |-> w,
     compacts |-> c, faults |-> f]

MCSetting == {Limits(2, 2, 2, 1, 0, 0), Limits(1, 1, 2, 0, 0, 0), Limits(2, 2, 1, 0, 1, 1),
              Limits(2, 2, 0, 2, 1, 0), Limits(2, 2, 0, 1, 2, 1)}

(* Two pages of two bytes: part of the first, and the end of the chunk.    *)
Ends == {<<0, 1>>, <<3, 4>>}

\* What the metastore lists was uploaded in full, and the segments of a chunk are
\* listed in the order they were made (commitSegment, put).
AppendedIsWhole == Writer!AppendedIsUploaded /\ Writer!AppendedInOrder

\* What was acknowledged before an Fsync that returns nil is stored (Fsync).
SyncedIsStored == Writer!SyncedIsStored
=============================================================================
