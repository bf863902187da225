----------------------------- MODULE MCStorage -----------------------------
(* Small instances of the three modules below the chunks: the local cache, *)
(* the storages and the segment tree.  Each behaviour exercises one of     *)
(* them; the others stay as they are.                                      *)
EXTENDS LocalCache, ObjectStorage, SegmentTree, TLC

VARIABLES
    part   \* the module at work

Init ==
    /\ part \in {"cache", "storage", "tree"}
    /\ InitCache
    /\ InitStorage
    /\ IF part = "storage" THEN cfg.encrypt \/ cfg.kind = "local"   \* one back end without the cipher
       ELSE cfg = CHOOSE c \in Config : TRUE
    /\ InitTree

Next ==
    /\ \/ part = "cache" /\ CacheNext /\ UNCHANGED <<storageVars, segVars>>
       \/ part = "storage" /\ StorageNext /\ UNCHANGED <<cacheVars, segVars>>
       \/ part = "tree" /\ TreeNext /\ UNCHANGED <<cacheVars, storageVars>>
    /\ UNCHANGED part

Spec == Init /\ [][Next]_<<part, cacheVars, storageVars, segVars>>

Symmetric == Permutations(Getter) \cup Permutations(Proc)
=============================================================================
