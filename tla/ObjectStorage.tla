---------------------------- MODULE ObjectStorage ---------------------------
(***************************************************************************)
(* The back ends of the Storage interface (pkg/storage: local, memory, s3, *)
(* oss, minio, webdav) behind CommitTemporaryNode and openDirectNode of    *)
(* LocalCache, from the verification of the configuration that selects one *)
(* (config/verify.go) to the objects it holds.                             *)
(*                                                                         *)
(* An object is found under a name made from its segment and page; Delete  *)
(* works on names: a directory, a listed prefix, or every key of a map     *)
(* with a prefix.  The servers are external: their calls succeed or fail.  *)
(* A page's data is a value; encoding it is pairing it with the stream of  *)
(* the cipher, which depends on segment and page only.                     *)
(***************************************************************************)
EXTENDS Integers, SequencesExt, FiniteSetsExt

CONSTANTS
    Proc,
    Segment,   \* segment ids
    Page,      \* page numbers
    MaxTries   \* writeRetryTimes and readRetryTimes

ASSUME StorageAssumption ==
    Segment \subseteq Nat /\ Page \subseteq Nat /\ 0 \in Page /\ MaxTries \in Nat \ {0}

VARIABLES
    cfg,      \* the configuration of the storage
    status,   \* of the process: configured, running, refused or failed
    store,    \* name -> what the back end holds
    slots,    \* calls inside the limiter of writes
    pr,       \* the goroutines
    commits   \* history: objects whose commit succeeded and that nobody deleted

storageVars == <<cfg, status, store, slots, pr, commits>>

Kind == {"memory", "local", "s3", "minio", "oss", "webdav"}

Setting == {"id", "dir", "endpoint", "region", "access_key", "secret_key", "bucket"}

\* checkStorageConfig: the settings that must not be empty.
Verified(kind) ==
    {"id"} \cup
    CASE kind = "memory" -> {}
      [] kind = "local" -> {"dir"}
      [] kind = "s3" -> {"region", "access_key", "secret_key", "bucket"}
      [] kind \in {"minio", "oss"} -> {"endpoint", "access_key", "secret_key", "bucket"}
      [] kind = "webdav" -> {"endpoint", "access_key", "secret_key"}

\* newS3Storage, newMinioStorage, newOSSStorage, newWebdavStorage and newLocalStorage:
\* the settings the constructor refuses to do without.
NeedsS3 == {"region", "access_key", "secret_key", "bucket"}

NeedsMinio == {"id", "endpoint", "access_key", "secret_key"}

NeedsOSS == {"id", "endpoint", "access_key", "secret_key"}

NeedsWebdav == {"id", "endpoint", "access_key", "secret_key"}

NeedsLocal == {"dir"}

\* NewStorage.
Needs(kind) ==
    CASE kind = "s3" -> NeedsS3 [] kind = "oss" -> NeedsOSS [] kind = "minio" -> NeedsMinio
      [] kind = "webdav" -> NeedsWebdav [] kind = "local" -> NeedsLocal
      [] kind = "memory" -> {}

-----------------------------------------------------------------------------
\* A number as its decimal digits, for the names that are compared by prefix.
Digits(n) == IF n < 10 THEN <<n>> ELSE <<n \div 10, n % 10>>

\* "%d_%d", the last component of every name.  The underscore is no digit: it ends
\* the number of the segment.
Base(s, i) == <<Digits(s), Digits(i)>>

S3Name(s, i) == [dir |-> <<s \div 10, Reverse(Digits(s))>>, base |-> Base(s, i)]

MinioName(s, i) == [dir |-> <<s \div 10000, s \div 100>>, base |-> Base(s, i)]

WebdavName(s, i) == [dir |-> <<s \div 100, s>>, base |-> Base(s, i)]

LocalName(s, i) == [dir |-> <<s>>, base |-> <<Digits(i)>>]

MemoryName(s, i) == [dir |-> <<>>, base |-> Base(s, i)]

Name(s, i) ==
    CASE cfg.kind \in {"s3", "oss"} -> S3Name(s, i)
      [] cfg.kind = "minio" -> MinioName(s, i)
      [] cfg.kind = "webdav" -> WebdavName(s, i)
      [] cfg.kind = "local" -> LocalName(s, i)
      [] cfg.kind = "memory" -> MemoryName(s, i)

\* Delete: the objects each back end finds for a segment.  A directory, ...
FindLocal(s) == {n \in DOMAIN store : n.dir = LocalName(s, 0).dir}

FindWebdav(s) == {n \in DOMAIN store : n.dir = WebdavName(s, 0).dir}

\* ... the names with the prefix "<dir>/<segment>_", ...
WithPrefix(s) == {n \in DOMAIN store : n.dir = Name(s, 0).dir /\ n.base[1] = Digits(s)}

\* Mutant: a prefix that does not end the number of the segment.
FindMinioDigits(s) == {n \in DOMAIN store : n.dir = Name(s, 0).dir /\ IsPrefix(Digits(s), n.base[1])}

FindMinio(s) == WithPrefix(s)

FindOSS(s) == WithPrefix(s)   \* page by page

FindS3(s) == WithPrefix(s)    \* the first page: a segment has fewer objects than it lists

\* ... or every key of the map that begins with the digits of the segment.
FindMemory(s) == {n \in DOMAIN store : IsPrefix(Digits(s), n.base[1])}

Find(s) ==
    CASE cfg.kind = "webdav" -> FindWebdav(s) [] cfg.kind = "local" -> FindLocal(s)
      [] cfg.kind = "memory" -> FindMemory(s) [] cfg.kind = "minio" -> FindMinio(s)
      [] cfg.kind = "oss" -> FindOSS(s) [] cfg.kind = "s3" -> FindS3(s)

\* Put: what a call that fails may have left.  Files are written in place and
\* streamed; the object services store a body whole or not at all.
LeftByLocal == {"torn"}

LeftByWebdav == {"none", "torn", "whole"}

LeftByS3 == {"none", "whole"}

LeftByMinio == {"none", "whole"}

LeftByOSS == {"none", "whole"}

LeftByMemory == {"none"}

Left ==
    CASE cfg.kind = "webdav" -> LeftByWebdav [] cfg.kind = "local" -> LeftByLocal
      [] cfg.kind = "memory" -> LeftByMemory [] cfg.kind = "minio" -> LeftByMinio
      [] cfg.kind = "oss" -> LeftByOSS [] cfg.kind = "s3" -> LeftByS3

\* nodeDataEncode and nodeDataDecode: compression and, if enabled, a stream cipher
\* whose start depends on segment and page; a torn stream does not decode.
Encode(s, i, data) == [data |-> data, key |-> IF cfg.encrypt THEN <<s, i>> ELSE <<>>]

Decode(s, i, raw) ==
    IF raw.key = (IF cfg.encrypt THEN <<s, i>> ELSE <<>>) THEN raw.data ELSE <<>>

\* What a page of a segment contains: it is uploaded once, under a fresh segment id.
Content(s, i) == <<s, i>>

Torn == [data |-> <<>>, key |-> <<"torn">>]

Idle == [pc |-> "idle", seg |-> 0, page |-> 0, tries |-> 0, found |-> {}, result |-> <<>>]

Limiter == 1

\* At most one of the settings is missing.
Config == [kind : Kind, encrypt : BOOLEAN, set : {Setting \ absent : absent \in kSubset(0, Setting) \cup kSubset(1, Setting)}]

InitStorage ==
    /\ cfg \in Config
    /\ status = "configured"
    /\ store = [n \in {} |-> Torn]
    /\ slots = 0
    /\ pr = [p \in Proc |-> Idle]
    /\ commits = {}

\* Verify at start-up, ...
Verify ==
    /\ status = "configured"
    /\ status' = IF Verified(cfg.kind) \subseteq cfg.set THEN "verified" ELSE "refused"
    /\ UNCHANGED <<cfg, store, slots, pr, commits>>

\* ... then NewStorage for the configured storage; initBucket may fail.
NewStorage ==
    /\ status = "verified"
    /\ \/ status' = (IF Needs(cfg.kind) \subseteq cfg.set THEN "running" ELSE "failed")
       \/ cfg.kind \in {"s3", "minio", "oss"} /\ status' = "unreachable"
    /\ cfg' = [cfg EXCEPT !.set = {}]   \* not read any more
    /\ UNCHANGED <<store, slots, pr, commits>>

-----------------------------------------------------------------------------
Limited == cfg.kind \notin {"memory", "local"}

Begin(p, pc, s, i) ==
    /\ status = "running" /\ pr[p].pc = "idle"
    /\ pr' = [pr EXCEPT ![p] = [Idle EXCEPT !.pc = pc, !.seg = s, !.page = i]]

\* CommitTemporaryNode of a page that nobody committed: segment ids are never reused.
Commit(p, s, i) ==
    /\ Name(s, i) \notin DOMAIN store
    /\ \A q \in Proc : pr[q].pc = "idle" \/ pr[q].seg # s \/ (pr[q].pc # "delete" /\ pr[q].page # i)
    /\ Begin(p, "upload", s, i)
    /\ UNCHANGED <<cfg, status, store, slots, commits>>

\* ParallelLimiter.Acquire, before a call to a server; webdav then makes the directory.
Acquire(p) ==
    /\ pr[p].pc = "upload"
    /\ Limited => slots < Limiter
    /\ slots' = IF Limited THEN slots + 1 ELSE slots
    /\ pr' = [pr EXCEPT ![p].pc = "put"]
    /\ UNCHANGED <<cfg, status, store, commits>>

With(n, object) == [m \in DOMAIN store \cup {n} |-> IF m = n THEN object ELSE store[m]]

Stored(s, i) == With(Name(s, i), Encode(s, i, Content(s, i)))

\* local.Put writes the file in place: it exists, incomplete, before it is written.
PutCreate(p) ==
    /\ pr[p].pc = "put" /\ cfg.kind = "local"
    /\ store' = With(Name(pr[p].seg, pr[p].page), Torn)
    /\ pr' = [pr EXCEPT ![p].pc = "copy"]
    /\ UNCHANGED <<cfg, status, slots, commits>>

Freed == slots' = IF Limited THEN slots - 1 ELSE slots

\* The upload succeeds and the commit returns, ...
PutOk(p) ==
    LET s == pr[p].seg  i == pr[p].page IN
    /\ pr[p].pc = (IF cfg.kind = "local" THEN "copy" ELSE "put")
    /\ store' = Stored(s, i)
    /\ commits' = commits \cup {<<s, i>>}
    /\ pr' = [pr EXCEPT ![p] = Idle]
    /\ Freed /\ UNCHANGED <<cfg, status>>

\* A call that failed is repeated from pc, MaxTries times in all.
Retry(p, pc) ==
    IF pr[p].tries + 1 < MaxTries THEN [pr[p] EXCEPT !.pc = pc, !.tries = @ + 1] ELSE Idle

\* ... or fails, possibly after the object was stored, and is tried again.
PutError(p) ==
    /\ pr[p].pc \in {"put", "copy"}
    /\ \E left \in Left :
        store' = CASE left = "none" -> store
                   [] left = "torn" -> With(Name(pr[p].seg, pr[p].page), Torn)
                   [] left = "whole" -> Stored(pr[p].seg, pr[p].page)
    /\ pr' = [pr EXCEPT ![p] = Retry(p, "upload")]
    /\ Freed /\ UNCHANGED <<cfg, status, commits>>

-----------------------------------------------------------------------------
\* openDirectNode of a page whose segment was appended, that is, committed: Head, ...
OpenDirect(p, s, i) ==
    /\ <<s, i>> \in commits
    /\ Begin(p, "head", s, i)
    /\ UNCHANGED <<cfg, status, store, slots, commits>>

HeadObject(p) ==
    /\ pr[p].pc = "head"
    /\ \/ /\ Name(pr[p].seg, pr[p].page) \in DOMAIN store
          /\ pr' = [pr EXCEPT ![p].pc = "get"]
       \/ pr' = [pr EXCEPT ![p] = Idle]
    /\ UNCHANGED <<cfg, status, store, slots, commits>>

\* Mutant: every page of a segment is decrypted with the stream of its first page.
GetSegmentKey(p) ==
    LET s == pr[p].seg  i == pr[p].page  n == Name(s, i) IN
    /\ pr[p].pc = "get"
    /\ n \in DOMAIN store
    /\ pr' = [pr EXCEPT ![p].pc = "read", ![p].result = Decode(s, 0, store[n])]
    /\ UNCHANGED <<cfg, status, store, slots, commits>>

\* ... Get, retried, and the decoder.
Get(p) ==
    LET s == pr[p].seg  i == pr[p].page  n == Name(s, i) IN
    /\ pr[p].pc = "get"
    /\ \/ /\ n \in DOMAIN store
          /\ pr' = [pr EXCEPT ![p] = [@ EXCEPT !.pc = "read", !.result = Decode(s, i, store[n])]]
       \/ pr' = [pr EXCEPT ![p] = Retry(p, "get")]
    /\ UNCHANGED <<cfg, status, store, slots, commits>>

CloseNode(p) ==
    /\ pr[p].pc = "read"
    /\ pr' = [pr EXCEPT ![p] = Idle]
    /\ UNCHANGED <<cfg, status, store, slots, commits>>

-----------------------------------------------------------------------------
\* Delete of a segment that is no longer referenced: the objects are listed, ...
Delete(p, s) ==
    /\ \E i \in Page : <<s, i>> \in commits
    /\ \A q \in Proc : pr[q].seg # s \/ pr[q].pc = "idle"
    /\ status = "running" /\ pr[p].pc = "idle"
    /\ pr' = [pr EXCEPT ![p] = [Idle EXCEPT !.pc = "delete", !.seg = s, !.found = Find(s)]]
    /\ commits' = commits \ ({s} \X Page)
    /\ UNCHANGED <<cfg, status, store, slots>>

\* ... then deleted, all of them or, when a call fails, some.
DeleteObjects(p) ==
    /\ pr[p].pc = "delete"
    /\ \E gone \in {pr[p].found} \cup (IF Limited THEN SUBSET pr[p].found ELSE {}) :
        store' = [n \in DOMAIN store \ gone |-> store[n]]
    /\ pr' = [pr EXCEPT ![p] = Idle]
    /\ UNCHANGED <<cfg, status, slots, commits>>

Work(p) ==
    \/ \E s \in Segment, i \in Page : Commit(p, s, i) \/ OpenDirect(p, s, i)
    \/ \E s \in Segment : Delete(p, s)
    \/ Acquire(p) \/ PutCreate(p) \/ PutOk(p) \/ PutError(p)
    \/ HeadObject(p) \/ Get(p) \/ CloseNode(p) \/ DeleteObjects(p)

StorageNext == Verify \/ NewStorage \/ \E p \in Proc : Work(p)

StorageSpec == InitStorage /\ [][StorageNext]_storageVars

-----------------------------------------------------------------------------
\* A configuration that Verify accepts has every setting the constructor of the
\* storage needs: the process does not fail after it verified its configuration.
VerifiedStarts == status # "failed"

\* openDirectNode returns the data that was committed for the page, through the
\* names, the compression and the cipher, despite failed and repeated uploads.
ReadIsCommitted ==
    \A p \in Proc : pr[p].pc = "read" => pr[p].result = Content(pr[p].seg, pr[p].page)

ObjectOf(s, i) ==
    IF Name(s, i) \notin DOMAIN store THEN "absent"
    ELSE IF store[Name(s, i)] = Torn THEN "torn" ELSE "whole"

\* memoryStorage.Delete also removes the segments whose number begins with the digits
\* of the deleted one; the other back ends are the ones the interface speaks of.
Objects ==
    [s \in Segment |-> [i \in Page |-> IF cfg.kind = "memory" THEN "absent" ELSE ObjectOf(s, i)]]

CallOf(g) ==
    IF g.pc = "idle" THEN [op |-> "none"]
    ELSE [op |-> CASE g.pc \in {"upload", "put", "copy"} -> "put"
                   [] g.pc \in {"head", "get", "read"} -> "get"
                   [] g.pc = "delete" -> "delete",
          seg |-> g.seg, page |-> g.page]

Calls == [p \in Proc |-> CallOf(pr[p])]

Interface == INSTANCE PageStore WITH object <- Objects, call <- Calls

\* Every back end but the one in memory implements the Storage interface: a Put changes
\* the object it names and a Delete only objects of its segment, in however many calls
\* to the server and with whichever of them failing.
ImplementsStorage == Interface!Spec
=============================================================================
