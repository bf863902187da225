----------------------------- MODULE MCMetaCore -----------------------------
(* Small instances of the metastore under any order of its calls, and of   *)
(* the core with two goroutines above a metastore of its own.  Each        *)
(* behaviour exercises one of them; the other stays as it is.              *)
(* Identifiers, names and goroutines are interchangeable.                  *)
EXTENDS MetaStore, TLC

CONSTANTS
    CoreVersion, Slot, Proc, Op, Symlink, NoObj, Screened, MaxDepth, MaxOps

VARIABLES
    part,   \* the module at work
    crows, cused, centry, cchildren, cunlinked, ccopy, entryCache, childCache, stack, served

coreVars == <<crows, cused, centry, cchildren, cunlinked, ccopy, entryCache, childCache, stack, served>>

Core == INSTANCE Core WITH
    Reader <- Slot, MaxSize <- 0, MaxVersion <- CoreVersion,
    rows <- crows, used <- cused, entry <- centry, children <- cchildren,
    unlinked <- cunlinked, copy <- ccopy

MCInit ==
    /\ part \in {"store", "core"}
    /\ Init /\ Core!Init

MCNext ==
    /\ \/ part = "store" /\ Next /\ UNCHANGED coreVars
       \/ part = "core" /\ Core!Next /\ UNCHANGED vars
    /\ UNCHANGED part

MCSpec == MCInit /\ [][MCNext]_<<part, vars, coreVars>>

Symmetric == Permutations(Id \ {Root}) \cup Permutations(Name) \cup Permutations(Proc)

\* Whatever two goroutines do to each other between a lookup and a commit, their
\* transactions are those of MetaStore (Core).
StoreSpec == Core!StoreSpec
=============================================================================
