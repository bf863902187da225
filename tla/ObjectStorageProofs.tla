------------------------- MODULE ObjectStorageProofs -------------------------
(***************************************************************************)
(* Proofs about the back ends of the Storage interface, for any number of  *)
(* goroutines, segments and pages and any number of retries: what is read  *)
(* is what was committed, a verified configuration starts, and every back  *)
(* end but the one in memory implements PageStore.                         *)
(*                                                                         *)
(* The argument rests on the names: the name of an object determines its   *)
(* segment and its page, so an upload touches no other object, and what    *)
(* Delete finds for a segment belongs to that segment.                     *)
(***************************************************************************)
EXTENDS ObjectStorage, TLAPS

\* The object that a successful Put stores.
Whole(s, i) == Encode(s, i, Content(s, i))

\* The names of the objects of all back ends.
Names ==
    {S3Name(s, i) : s \in Segment, i \in Page} \cup {MinioName(s, i) : s \in Segment, i \in Page} \cup
    {WebdavName(s, i) : s \in Segment, i \in Page} \cup {LocalName(s, i) : s \in Segment, i \in Page} \cup
    {MemoryName(s, i) : s \in Segment, i \in Page}

Uploading == {"upload", "put", "copy"}

Reading == {"head", "get", "read"}

Goroutine ==
    [pc : {"idle", "delete"} \cup Uploading \cup Reading, seg : Nat, page : Nat, tries : Nat,
     found : SUBSET Names, result : Seq(Nat)]

\* What the variables hold.
Typed ==
    /\ cfg \in [kind : Kind, encrypt : BOOLEAN, set : SUBSET Setting]
    /\ pr \in [Proc -> Goroutine]
    /\ commits \subseteq Segment \X Page
    /\ DOMAIN store \subseteq Names

\* Objects are what was put under their name, or torn; a committed one is there and whole.
StoreInv ==
    \A s \in Segment, i \in Page :
        /\ Name(s, i) \in DOMAIN store =>
              \/ store[Name(s, i)] = Whole(s, i)
              \/ store[Name(s, i)] = Torn /\ cfg.kind # "memory" /\ <<s, i>> \notin commits
        /\ <<s, i>> \in commits /\ cfg.kind # "memory" => Name(s, i) \in DOMAIN store

\* A page is uploaded by one goroutine, and only before its commit; a segment that is
\* being deleted is used by nobody else.
CallInv ==
    \A p \in Proc :
        /\ pr[p].pc \in Uploading =>
              /\ pr[p].seg \in Segment /\ pr[p].page \in Page
              /\ cfg.kind # "memory" => <<pr[p].seg, pr[p].page>> \notin commits
        /\ pr[p].pc \in Reading => <<pr[p].seg, pr[p].page>> \in commits
        /\ pr[p].pc = "delete" =>
              /\ pr[p].seg \in Segment /\ pr[p].page = 0
              /\ \A i \in Page : <<pr[p].seg, i>> \notin commits
              /\ cfg.kind # "memory" =>
                    \A s \in Segment, i \in Page : Name(s, i) \in pr[p].found => s = pr[p].seg
        /\ \A q \in Proc \ {p} :
              /\ pr[p].pc = "delete" /\ pr[q].pc # "idle" => pr[q].seg # pr[p].seg
              /\ pr[p].pc \in Uploading /\ pr[q].pc \in Uploading =>
                    pr[p].seg # pr[q].seg \/ pr[p].page # pr[q].page

\* The inductive invariant.
StorageInv == Typed /\ StoreInv /\ CallInv /\ ReadIsCommitted

-----------------------------------------------------------------------------
\* The digits of a number determine it: "%d" of two segments or pages differs.
LEMMA DigitsInjective ==
    ASSUME NEW m \in Nat, NEW n \in Nat, Digits(m) = Digits(n)
    PROVE  m = n
  BY DEF Digits

\* The name of an object determines its segment and its page.
LEMMA NameInjective ==
    ASSUME cfg.kind \in Kind, NEW s \in Nat, NEW i \in Nat, NEW t \in Nat, NEW j \in Nat,
           Name(s, i) = Name(t, j)
    PROVE  s = t /\ i = j
  <1>1. CASE cfg.kind = "local"
    <2>1. s = t /\ Digits(i) = Digits(j)
      BY <1>1 DEF Name, LocalName
    <2> QED BY <2>1, DigitsInjective
  <1>2. CASE cfg.kind # "local"
    <2>1. Base(s, i) = Base(t, j)
      BY <1>2 DEF Name, Kind, S3Name, MinioName, WebdavName, MemoryName
    <2>2. Digits(s) = Digits(t) /\ Digits(i) = Digits(j)
      BY <2>1 DEF Base
    <2> QED BY <2>2, DigitsInjective
  <1> QED BY <1>1, <1>2

\* Every back end's path function yields one of the names.
LEMMA NameType ==
    ASSUME cfg.kind \in Kind, NEW s \in Segment, NEW i \in Page
    PROVE  Name(s, i) \in Names
  BY DEF Name, Names, Kind

\* Every back end but the one in memory finds the objects of one segment only.
LEMMA FindIsSegment ==
    ASSUME cfg.kind \in Kind, cfg.kind # "memory", NEW s \in Nat, NEW t \in Nat, NEW i \in Nat,
           Name(t, i) \in Find(s)
    PROVE  s = t
  <1>1. CASE cfg.kind = "local"
    BY <1>1 DEF Find, FindLocal, Name, LocalName
  <1>2. CASE cfg.kind = "webdav"
    BY <1>2 DEF Find, FindWebdav, Name, WebdavName
  <1>3. CASE cfg.kind \in {"s3", "oss", "minio"}
    <2>1. Name(t, i).base[1] = Digits(s)
      BY <1>3 DEF Find, FindS3, FindOSS, FindMinio, WithPrefix
    <2>2. Name(t, i).base[1] = Digits(t)
      BY <1>3 DEF Name, S3Name, MinioName, Base
    <2> QED BY <2>1, <2>2, DigitsInjective, Zenon
  <1> QED BY <1>1, <1>2, <1>3 DEF Kind

\* A completely stored object is distinguished from a torn one.
LEMMA WholeIsNotTorn ==
    ASSUME NEW s, NEW i
    PROVE  Whole(s, i) # Torn
  <1>1. Whole(s, i).data = <<s, i>> /\ Torn.data = <<>>
    BY DEF Whole, Encode, Content, Torn
  <1>2. <<s, i>> # <<>>
    OBVIOUS
  <1> QED BY <1>1, <1>2

\* Names and encoded objects depend on the kind of the storage and its encryption only.
LEMMA SameNames ==
    ASSUME cfg'.kind = cfg.kind, cfg'.encrypt = cfg.encrypt
    PROVE  \A s, i : Name(s, i)' = Name(s, i) /\ Whole(s, i)' = Whole(s, i)
  BY DEF Name, Whole, Encode, Content

\* A goroutine outside of the storage.
LEMMA IdleType ==
    /\ Idle \in Goroutine
    /\ Idle.pc = "idle" /\ Idle.seg = 0 /\ Idle.page = 0 /\ Idle.found = {} /\ Idle.result = <<>>
  BY DEF Idle, Goroutine, Uploading, Reading

-----------------------------------------------------------------------------
\* The invariant holds before the storage is constructed.
LEMMA InitImpliesInv ==
    InitStorage => StorageInv
  <1> SUFFICES ASSUME InitStorage PROVE StorageInv
    OBVIOUS
  <1> USE DEF InitStorage
  <1>1. Typed
    <2>1. cfg \in [kind : Kind, encrypt : BOOLEAN, set : SUBSET Setting]
      BY DEF Config, Setting
    <2>2. Idle \in Goroutine
      BY DEF Idle, Goroutine, Uploading, Reading
    <2> QED BY <2>1, <2>2 DEF Typed
  <1>2. StoreInv
    BY DEF StoreInv
  <1>3. CallInv /\ ReadIsCommitted
    BY DEF CallInv, ReadIsCommitted, Idle, Uploading, Reading
  <1> QED BY <1>1, <1>2, <1>3 DEF StorageInv

\* A step of one goroutine that leaves the objects and the commits alone.
LEMMA PrivateStep ==
    ASSUME StorageInv, NEW p \in Proc, NEW g \in Goroutine, pr' = [pr EXCEPT ![p] = g],
           UNCHANGED <<cfg, store, commits>>,
           \/ g.pc = "idle"
           \/ g.pc \in Uploading /\ pr[p].pc \in Uploading /\ g.seg = pr[p].seg /\ g.page = pr[p].page
           \/ /\ g.pc \in Reading /\ pr[p].pc \in Reading /\ g.seg = pr[p].seg /\ g.page = pr[p].page
              /\ g.pc = "read" => g.result = Content(g.seg, g.page)
    PROVE  StorageInv'
  <1>1. Typed /\ StoreInv /\ CallInv /\ ReadIsCommitted
    BY DEF StorageInv
  <1>2. pr'[p] = g /\ \A q \in Proc \ {p} : pr'[q] = pr[q]
    BY <1>1 DEF Typed
  <1>3. \A s, i : Name(s, i)' = Name(s, i) /\ Whole(s, i)' = Whole(s, i)
    BY SameNames
  <1>4. Typed'
    BY <1>1 DEF Typed
  <1>5. StoreInv'
    BY <1>1, <1>3, Zenon DEF StoreInv
  <1>6. CallInv'
    BY <1>1, <1>2, <1>3 DEF CallInv, Uploading, Reading
  <1>7. ReadIsCommitted'
    BY <1>1, <1>2 DEF ReadIsCommitted, Content, Uploading, Reading
  <1> QED BY <1>4, <1>5, <1>6, <1>7 DEF StorageInv

\* The record of a goroutine after a step that changes some of its fields.
LEMMA GoroutineType ==
    ASSUME NEW g \in Goroutine, NEW pc \in {"idle", "delete"} \cup Uploading \cup Reading,
           NEW n \in Nat, NEW r \in Seq(Nat)
    PROVE  /\ [g EXCEPT !.pc = pc] \in Goroutine
           /\ [g EXCEPT !.tries = n] \in Goroutine
           /\ [g EXCEPT !.pc = pc, !.tries = n] \in Goroutine
           /\ [g EXCEPT !.pc = pc, !.result = r] \in Goroutine
  BY Zenon DEF Goroutine

\* CommitTemporaryNode or openDirectNode begins.
LEMMA BeginStep ==
    ASSUME StorageInv, NEW p \in Proc, NEW s \in Segment, NEW i \in Page,
           NEW pc \in {"upload", "head"}, Begin(p, pc, s, i), UNCHANGED <<cfg, store, commits>>,
           pc = "head" => <<s, i>> \in commits,
           pc = "upload" =>
               /\ Name(s, i) \notin DOMAIN store
               /\ \A q \in Proc : pr[q].pc = "idle" \/ pr[q].seg # s \/ (pr[q].pc # "delete" /\ pr[q].page # i)
    PROVE  StorageInv'
  <1> DEFINE g == [Idle EXCEPT !.pc = pc, !.seg = s, !.page = i]
  <1>1. Typed /\ StoreInv /\ CallInv /\ ReadIsCommitted /\ s \in Nat /\ i \in Nat
    BY StorageAssumption DEF StorageInv
  <1>2. g \in Goroutine /\ g.pc = pc /\ g.seg = s /\ g.page = i
    BY <1>1, IdleType, Zenon DEF Goroutine, Uploading, Reading
  <1>3. pr'[p] = g /\ \A q \in Proc \ {p} : pr'[q] = pr[q]
    BY <1>1 DEF Typed, Begin
  <1>4. \A t, j : Name(t, j)' = Name(t, j) /\ Whole(t, j)' = Whole(t, j)
    BY SameNames
  <1>5. Typed'
    BY <1>1, <1>2 DEF Typed, Begin
  <1>6. StoreInv'
    BY <1>1, <1>4, Zenon DEF StoreInv
  <1>7. cfg.kind # "memory" /\ pc = "upload" => <<s, i>> \notin commits
    BY <1>1 DEF StoreInv
  <1> HIDE DEF g
  <1>8. CallInv'
    BY <1>1, <1>2, <1>3, <1>4, <1>7 DEF CallInv, Uploading, Reading
  <1>9. ReadIsCommitted'
    BY <1>1, <1>2, <1>3 DEF ReadIsCommitted, Content
  <1> QED BY <1>5, <1>6, <1>8, <1>9 DEF StorageInv

\* A goroutine that is uploading stores something under the name of its page, and goes
\* on, gives up or, when all of it was stored, commits.
LEMMA WriteStep ==
    ASSUME StorageInv, NEW p \in Proc, pr[p].pc \in Uploading, NEW g \in Goroutine,
           pr' = [pr EXCEPT ![p] = g], UNCHANGED cfg,
           g.pc = "idle" \/ (g.pc \in Uploading /\ g.seg = pr[p].seg /\ g.page = pr[p].page),
           NEW object,
           \/ object = Torn /\ cfg.kind # "memory" /\ commits' = commits
           \/ object = Whole(pr[p].seg, pr[p].page) /\ commits' = commits
           \/ /\ object = Whole(pr[p].seg, pr[p].page) /\ g.pc = "idle"
              /\ commits' = commits \cup {<<pr[p].seg, pr[p].page>>},
           store' = With(Name(pr[p].seg, pr[p].page), object)
    PROVE  StorageInv'
  <1> DEFINE s == pr[p].seg  i == pr[p].page
  <1>1. Typed /\ StoreInv /\ CallInv /\ ReadIsCommitted
    BY DEF StorageInv
  <1>2. s \in Segment /\ i \in Page /\ (cfg.kind # "memory" => <<s, i>> \notin commits)
    BY <1>1 DEF CallInv
  <1>3. pr'[p] = g /\ \A q \in Proc \ {p} : pr'[q] = pr[q]
    BY <1>1 DEF Typed
  <1>4. \A t, j : Name(t, j)' = Name(t, j) /\ Whole(t, j)' = Whole(t, j)
    BY SameNames
  <1>5. cfg.kind \in Kind
    BY <1>1 DEF Typed
  <1>6. \A t \in Segment, j \in Page : Name(t, j) = Name(s, i) => t = s /\ j = i
    <2> SUFFICES ASSUME NEW t \in Segment, NEW j \in Page, Name(t, j) = Name(s, i)
                 PROVE  t = s /\ j = i
      OBVIOUS
    <2>1. s \in Nat /\ i \in Nat /\ t \in Nat /\ j \in Nat
      BY <1>2, StorageAssumption, Zenon
    <2> HIDE DEF s, i
    <2> QED BY <2>1, <1>5, NameInjective
  <1>7. DOMAIN store' = DOMAIN store \cup {Name(s, i)} /\ store'[Name(s, i)] = object
        /\ \A n \in DOMAIN store \ {Name(s, i)} : store'[n] = store[n]
    BY DEF With
  <1> HIDE DEF s, i
  <1>8. Typed'
    <2>1. Name(s, i) \in Names
      BY <1>2, <1>5, NameType
    <2>2. <<s, i>> \in Segment \X Page
      BY <1>2
    <2> QED BY <1>1, <1>7, <2>1, <2>2 DEF Typed, s, i
  <1>9. StoreInv'
    <2> SUFFICES ASSUME NEW t \in Segment, NEW j \in Page
                 PROVE  /\ Name(t, j) \in DOMAIN store' =>
                              \/ store'[Name(t, j)] = Whole(t, j)
                              \/ store'[Name(t, j)] = Torn /\ cfg.kind # "memory" /\ <<t, j>> \notin commits'
                        /\ <<t, j>> \in commits' /\ cfg.kind # "memory" => Name(t, j) \in DOMAIN store'
      BY <1>4, Zenon DEF StoreInv
    <2>1. CASE t = s /\ j = i
      BY <2>1, <1>2, <1>7 DEF s, i
    <2>2. CASE ~(t = s /\ j = i)
      <3>1. Name(t, j) # Name(s, i)
        BY <2>2, <1>6
      <3>2. <<t, j>> \in commits' <=> <<t, j>> \in commits
        BY <2>2 DEF s, i
      <3> QED BY <3>1, <3>2, <1>1, <1>7 DEF StoreInv
    <2> QED BY <2>1, <2>2
  <1>10. CallInv'
    BY <1>1, <1>2, <1>3, <1>4, SMTT(30) DEF CallInv, Uploading, Reading, s, i
  <1>11. ReadIsCommitted'
    BY <1>1, <1>3 DEF ReadIsCommitted, Content, Uploading
  <1> QED BY <1>8, <1>9, <1>10, <1>11 DEF StorageInv

\* Delete lists the objects of a segment, none of which is committed any more.
LEMMA DeleteStep ==
    ASSUME StorageInv, NEW p \in Proc, NEW s \in Segment, Delete(p, s)
    PROVE  StorageInv'
  <1> DEFINE g == [Idle EXCEPT !.pc = "delete", !.seg = s, !.found = Find(s)]
  <1>1. Typed /\ StoreInv /\ CallInv /\ ReadIsCommitted /\ s \in Nat
    BY StorageAssumption DEF StorageInv
  <1>2. Find(s) \subseteq DOMAIN store
    BY <1>1 DEF Typed, Kind, Find, FindLocal, FindWebdav, FindMemory, FindMinio, FindOSS, FindS3, WithPrefix
  <1>3. g \in Goroutine /\ g.pc = "delete" /\ g.seg = s /\ g.page = 0 /\ g.found = Find(s)
    <2>1. Find(s) \in SUBSET Names
      BY <1>1, <1>2 DEF Typed
    <2> QED BY <1>1, <2>1, IdleType, Zenon DEF Goroutine, Uploading, Reading
  <1>4. pr'[p] = g /\ \A q \in Proc \ {p} : pr'[q] = pr[q]
    BY <1>1 DEF Typed, Delete
  <1>5. /\ commits' = commits \ ({s} \X Page) /\ UNCHANGED <<cfg, store>>
        /\ \A q \in Proc : pr[q].seg # s \/ pr[q].pc = "idle"
    BY DEF Delete
  <1>6. \A t, j : Name(t, j)' = Name(t, j) /\ Whole(t, j)' = Whole(t, j)
    BY <1>5, SameNames
  <1>7. Typed'
    BY <1>1, <1>3, <1>5 DEF Typed, Delete
  <1>8. StoreInv'
    BY <1>1, <1>5, <1>6, Zenon DEF StoreInv
  <1>9. cfg.kind # "memory" => \A t \in Segment, i \in Page : Name(t, i) \in Find(s) => t = s
    <2> SUFFICES ASSUME cfg.kind # "memory", NEW t \in Segment, NEW i \in Page, Name(t, i) \in Find(s)
                 PROVE  t = s
      OBVIOUS
    <2>1. t \in Nat /\ i \in Nat /\ cfg.kind \in Kind
      BY <1>1, StorageAssumption DEF Typed
    <2> QED BY <2>1, <1>1, FindIsSegment
  <1> HIDE DEF g
  <1>10. CallInv'
    BY <1>1, <1>3, <1>4, <1>5, <1>6, <1>9 DEF CallInv, Uploading, Reading
  <1>11. ReadIsCommitted'
    BY <1>1, <1>3, <1>4 DEF ReadIsCommitted, Content
  <1> QED BY <1>7, <1>8, <1>10, <1>11 DEF StorageInv

\* Delete removes listed objects: no committed one is among them.
LEMMA DeleteObjectsStep ==
    ASSUME StorageInv, NEW p \in Proc, DeleteObjects(p)
    PROVE  StorageInv'
  <1>1. Typed /\ StoreInv /\ CallInv /\ ReadIsCommitted
    BY DEF StorageInv
  <1>2. PICK gone \in SUBSET pr[p].found : store' = [n \in DOMAIN store \ gone |-> store[n]]
    BY <1>1 DEF DeleteObjects
  <1>3. DOMAIN store' = DOMAIN store \ gone /\ \A n \in DOMAIN store \ gone : store'[n] = store[n]
    BY <1>2
  <1>4. pr'[p] = Idle /\ \A q \in Proc \ {p} : pr'[q] = pr[q]
    BY <1>1 DEF Typed, DeleteObjects
  <1>5. UNCHANGED <<cfg, commits>> /\ pr[p].pc = "delete"
    BY DEF DeleteObjects
  <1>6. \A t, j : Name(t, j)' = Name(t, j) /\ Whole(t, j)' = Whole(t, j)
    BY <1>5, SameNames
  <1>7. Typed'
    BY <1>1, <1>3, <1>5, IdleType DEF Typed, DeleteObjects
  <1>8. StoreInv'
    <2>1. cfg.kind # "memory" =>
              \A s \in Segment, i \in Page : <<s, i>> \in commits => Name(s, i) \notin gone
      BY <1>1, <1>2, <1>5, Zenon DEF CallInv
    <2> QED BY <1>1, <1>3, <1>5, <1>6, <2>1, Zenon DEF StoreInv
  <1>9. CallInv'
    BY <1>1, <1>4, <1>5, <1>6, IdleType DEF CallInv, Uploading, Reading
  <1>10. ReadIsCommitted'
    BY <1>1, <1>4, IdleType DEF ReadIsCommitted, Content
  <1> QED BY <1>7, <1>8, <1>9, <1>10 DEF StorageInv

-----------------------------------------------------------------------------
\* Every step of the storage preserves the invariant.
LEMMA NextPreservesInv ==
    StorageInv /\ [StorageNext]_storageVars => StorageInv'
  <1> SUFFICES ASSUME StorageInv, [StorageNext]_storageVars PROVE StorageInv'
    OBVIOUS
  <1>0. Typed /\ StoreInv /\ CallInv /\ ReadIsCommitted
    BY DEF StorageInv
  <1>1. CASE UNCHANGED storageVars
    <2>1. \A t, j : Name(t, j)' = Name(t, j) /\ Whole(t, j)' = Whole(t, j)
      BY <1>1, SameNames DEF storageVars
    <2>2. Typed' /\ ReadIsCommitted'
      BY <1>0, <1>1 DEF storageVars, Typed, ReadIsCommitted, Content
    <2>3. StoreInv' /\ CallInv'
      BY <1>0, <1>1, <2>1 DEF storageVars, StoreInv, CallInv
    <2> QED BY <2>2, <2>3 DEF StorageInv
  <1>2. CASE Verify \/ NewStorage
    <2>1. /\ cfg'.kind = cfg.kind /\ cfg'.encrypt = cfg.encrypt /\ UNCHANGED <<store, pr, commits>>
          /\ cfg' \in [kind : Kind, encrypt : BOOLEAN, set : SUBSET Setting]
      BY <1>0, <1>2 DEF Verify, NewStorage, Typed
    <2>2. \A t, j : Name(t, j)' = Name(t, j) /\ Whole(t, j)' = Whole(t, j)
      BY <2>1, SameNames
    <2>3. Typed' /\ ReadIsCommitted'
      BY <1>0, <2>1 DEF Typed, ReadIsCommitted, Content
    <2>4. StoreInv' /\ CallInv'
      BY <1>0, <2>1, <2>2 DEF StoreInv, CallInv
    <2> QED BY <2>3, <2>4 DEF StorageInv
  <1>3. ASSUME NEW p \in Proc, Work(p) PROVE StorageInv'
    <2>0. pr[p] \in Goroutine /\ pr[p].tries + 1 \in Nat
      BY <1>0 DEF Typed, Goroutine
    <2>1. ASSUME NEW s \in Segment, NEW i \in Page, Commit(p, s, i) PROVE StorageInv'
      BY <2>1, BeginStep, Zenon DEF Commit
    <2>2. ASSUME NEW s \in Segment, NEW i \in Page, OpenDirect(p, s, i) PROVE StorageInv'
      BY <2>2, BeginStep DEF OpenDirect
    <2>3. ASSUME NEW s \in Segment, Delete(p, s) PROVE StorageInv'
      BY <2>3, DeleteStep
    <2>4. CASE Acquire(p)
      <3> DEFINE g == [pr[p] EXCEPT !.pc = "put"]
      <3>1. pr' = [pr EXCEPT ![p] = g] /\ UNCHANGED <<cfg, store, commits>> /\ pr[p].pc = "upload"
        BY <2>4 DEF Acquire
      <3>2. g \in Goroutine /\ g.pc = "put" /\ g.seg = pr[p].seg /\ g.page = pr[p].page
        BY <2>0 DEF Goroutine, Uploading
      <3> HIDE DEF g
      <3> QED BY <3>1, <3>2, PrivateStep, Zenon DEF Uploading
    <2>5. CASE PutCreate(p)
      <3> DEFINE g == [pr[p] EXCEPT !.pc = "copy"]
      <3>1. /\ pr' = [pr EXCEPT ![p] = g] /\ UNCHANGED <<cfg, commits>> /\ pr[p].pc = "put"
            /\ store' = With(Name(pr[p].seg, pr[p].page), Torn) /\ cfg.kind = "local"
        BY <2>5 DEF PutCreate
      <3>2. g \in Goroutine /\ g.pc = "copy" /\ g.seg = pr[p].seg /\ g.page = pr[p].page
        BY <2>0 DEF Goroutine, Uploading
      <3> HIDE DEF g
      <3> QED BY <3>1, <3>2, WriteStep, Zenon DEF Uploading
    <2>6. CASE PutOk(p)
      <3>1. /\ pr' = [pr EXCEPT ![p] = Idle] /\ UNCHANGED cfg /\ pr[p].pc \in Uploading
            /\ store' = With(Name(pr[p].seg, pr[p].page), Whole(pr[p].seg, pr[p].page))
            /\ commits' = commits \cup {<<pr[p].seg, pr[p].page>>}
        BY <2>6 DEF PutOk, Stored, Whole, Uploading
      <3> QED BY <3>1, IdleType, WriteStep, Zenon
    <2>7. CASE PutError(p)
      <3> DEFINE g == Retry(p, "upload")
      <3>1. pr' = [pr EXCEPT ![p] = g] /\ UNCHANGED <<cfg, commits>> /\ pr[p].pc \in Uploading
        BY <2>7 DEF PutError, Uploading
      <3>2. /\ g \in Goroutine
            /\ g.pc = "idle" \/ (g.pc \in Uploading /\ g.seg = pr[p].seg /\ g.page = pr[p].page)
        BY <2>0, IdleType, Zenon DEF Retry, Goroutine, Uploading
      <3>3. \/ store' = store
            \/ store' = With(Name(pr[p].seg, pr[p].page), Torn) /\ cfg.kind # "memory"
            \/ store' = With(Name(pr[p].seg, pr[p].page), Whole(pr[p].seg, pr[p].page))
        BY <1>0, <2>7 DEF PutError, Typed, Kind, Left, LeftByWebdav, LeftByLocal, LeftByMemory,
                          LeftByMinio, LeftByOSS, LeftByS3, Stored, Whole
      <3> HIDE DEF g
      <3>4. CASE store' = store
        BY <3>1, <3>2, <3>4, PrivateStep, Zenon
      <3>5. CASE store' = With(Name(pr[p].seg, pr[p].page), Torn) /\ cfg.kind # "memory"
        BY <3>1, <3>2, <3>5, WriteStep, Zenon
      <3>6. CASE store' = With(Name(pr[p].seg, pr[p].page), Whole(pr[p].seg, pr[p].page))
        BY <3>1, <3>2, <3>6, WriteStep, Zenon
      <3> QED BY <3>3, <3>4, <3>5, <3>6
    <2>8. CASE HeadObject(p)
      <3> DEFINE g == [pr[p] EXCEPT !.pc = "get"]
      <3>1. /\ pr' = [pr EXCEPT ![p] = g] \/ pr' = [pr EXCEPT ![p] = Idle]
            /\ UNCHANGED <<cfg, store, commits>> /\ pr[p].pc \in Reading
        BY <2>8 DEF HeadObject, Reading
      <3>2. g \in Goroutine /\ g.pc = "get" /\ g.seg = pr[p].seg /\ g.page = pr[p].page
        BY <2>0 DEF Goroutine, Reading
      <3> HIDE DEF g
      <3> QED BY <3>1, <3>2, IdleType, PrivateStep DEF Reading
    <2>9. CASE Get(p)
      <3> DEFINE s == pr[p].seg
                 i == pr[p].page
                 g == [pr[p] EXCEPT !.pc = "read", !.result = <<s, i>>]
                 h == Retry(p, "get")
      <3>1. UNCHANGED <<cfg, store, commits>> /\ pr[p].pc = "get"
        BY <2>9 DEF Get
      <3>2. <<s, i>> \in commits /\ s \in Nat /\ i \in Nat
        BY <1>0, <2>0, <3>1 DEF CallInv, Reading, Goroutine
      <3>3. s \in Segment /\ i \in Page
        BY <1>0, <3>2 DEF Typed
      <3>4. Name(s, i) \in DOMAIN store => Decode(s, i, store[Name(s, i)]) = <<s, i>>
        <4>1. Name(s, i) \in DOMAIN store => store[Name(s, i)] = Whole(s, i)
          BY <1>0, <3>2, <3>3 DEF StoreInv
        <4>2. Decode(s, i, Whole(s, i)) = <<s, i>>
          BY DEF Whole, Decode, Encode, Content
        <4> QED BY <4>1, <4>2
      <3>5. pr' = [pr EXCEPT ![p] = g] \/ pr' = [pr EXCEPT ![p] = h]
        <4>1. ASSUME Name(s, i) \in DOMAIN store,
                     pr' = [pr EXCEPT ![p] = [pr[p] EXCEPT !.pc = "read", !.result = Decode(s, i, store[Name(s, i)])]]
              PROVE  pr' = [pr EXCEPT ![p] = g]
          BY <4>1, <3>4, Zenon
        <4> QED BY <2>9, <4>1 DEF Get
      <3>6. /\ g \in Goroutine /\ g.pc = "read" /\ g.seg = s /\ g.page = i
            /\ g.result = Content(g.seg, g.page)
        <4>1. <<s, i>> \in Seq(Nat) /\ "read" \in {"idle", "delete"} \cup Uploading \cup Reading
          BY <3>2 DEF Reading
        <4>2. g \in Goroutine
          BY <2>0, <4>1, GoroutineType, Zenon
        <4>3. g.pc = "read" /\ g.seg = s /\ g.page = i /\ g.result = <<s, i>>
          BY <2>0 DEF Goroutine
        <4> QED BY <4>2, <4>3 DEF Content
      <3>7. h \in Goroutine /\ (h.pc = "idle" \/ (h.pc = "get" /\ h.seg = s /\ h.page = i))
        BY <2>0, <3>1, IdleType, Zenon DEF Retry, Goroutine, Reading
      <3> HIDE DEF g, h
      <3> QED BY <3>1, <3>5, <3>6, <3>7, PrivateStep DEF Reading
    <2>10. CASE CloseNode(p)
      BY <2>10, IdleType, PrivateStep, Zenon DEF CloseNode
    <2>11. CASE DeleteObjects(p)
      BY <2>11, DeleteObjectsStep
    <2> QED BY <1>3, <2>1, <2>2, <2>3, <2>4, <2>5, <2>6, <2>7, <2>8, <2>9, <2>10, <2>11 DEF Work
  <1> QED BY <1>1, <1>2, <1>3 DEF StorageNext

\* ReadIsCommitted: openDirectNode returns what CommitTemporaryNode stored, through the
\* names, the compression and the cipher, with uploads that fail and are repeated.
THEOREM ReadsAreCommitted == StorageSpec => []ReadIsCommitted
  <1>1. StorageInv => ReadIsCommitted
    BY DEF StorageInv
  <1> QED BY InitImpliesInv, NextPreservesInv, <1>1, PTL DEF StorageSpec

\* VerifiedStarts: the constructor of the storage that Verify accepted misses no setting.
THEOREM VerifiedConfigurationStarts == StorageSpec => []VerifiedStarts
  <1> DEFINE Inv == /\ VerifiedStarts
                    /\ cfg.kind \in Kind
                    /\ status = "verified" => Verified(cfg.kind) \subseteq cfg.set
                    /\ cfg \in [kind : Kind, encrypt : BOOLEAN, set : SUBSET Setting]
  <1>1. InitStorage => Inv
    BY DEF InitStorage, Config, Setting, VerifiedStarts
  <1>2. Inv /\ [StorageNext]_storageVars => Inv'
    <2> SUFFICES ASSUME Inv, [StorageNext]_storageVars PROVE Inv'
      OBVIOUS
    <2>1. CASE UNCHANGED storageVars
      BY <2>1, Zenon DEF storageVars, VerifiedStarts, Verified
    <2>2. CASE Verify
      BY <2>2, Zenon DEF Verify, VerifiedStarts, Verified
    <2>3. CASE NewStorage
      <3>1. Needs(cfg.kind) \subseteq Verified(cfg.kind)
        BY DEF Kind, Needs, Verified, NeedsS3, NeedsMinio, NeedsOSS, NeedsWebdav, NeedsLocal
      <3> QED BY <2>3, <3>1 DEF NewStorage, VerifiedStarts
    <2>4. ASSUME NEW p \in Proc, Work(p) PROVE Inv'
      <3>1. UNCHANGED <<cfg, status>>
        BY <2>4, Zenon DEF Work, Commit, OpenDirect, Begin, Delete, Acquire, PutCreate, PutOk, PutError,
                    HeadObject, Get, CloseNode, DeleteObjects
      <3> QED BY <3>1, Zenon DEF VerifiedStarts, Verified
    <2> QED BY <2>1, <2>2, <2>3, <2>4 DEF StorageNext
  <1>3. Inv => VerifiedStarts
    OBVIOUS
  <1> QED BY <1>1, <1>2, <1>3, PTL DEF StorageSpec

-----------------------------------------------------------------------------
\* What the interface sees of a goroutine.
LEMMA CallOfGoroutine ==
    ASSUME NEW g \in Goroutine
    PROVE  /\ g.pc = "idle" <=> CallOf(g) = Interface!Idle
           /\ g.pc \in Uploading => CallOf(g) = [op |-> "put", seg |-> g.seg, page |-> g.page]
           /\ g.pc \in Reading => CallOf(g) = [op |-> "get", seg |-> g.seg, page |-> g.page]
           /\ g.pc = "delete" => CallOf(g) = [op |-> "delete", seg |-> g.seg, page |-> g.page]
  <1>1. g.pc \in {"idle", "delete"} \cup Uploading \cup Reading
    BY DEF Goroutine
  <1>2. g.pc \in Uploading => CallOf(g) = [op |-> "put", seg |-> g.seg, page |-> g.page]
    BY DEF CallOf, Uploading
  <1>3. g.pc \in Reading => CallOf(g) = [op |-> "get", seg |-> g.seg, page |-> g.page]
    BY DEF CallOf, Reading
  <1>4. g.pc = "delete" => CallOf(g) = [op |-> "delete", seg |-> g.seg, page |-> g.page]
    BY DEF CallOf
  <1>5. g.pc = "idle" => CallOf(g) = Interface!Idle
    BY DEF CallOf, Interface!Idle
  <1>6. CallOf(g) = Interface!Idle => g.pc = "idle"
    <2>1. Interface!Idle.op = "none"
      BY DEF Interface!Idle
    <2> QED BY <1>1, <1>2, <1>3, <1>4, <2>1
  <1> QED BY <1>2, <1>3, <1>4, <1>5, <1>6

\* A step of one goroutine changes the call of that goroutine only.
LEMMA CallsStep ==
    ASSUME Typed, NEW p \in Proc, NEW g, pr' = [pr EXCEPT ![p] = g]
    PROVE  Calls' = [Calls EXCEPT ![p] = CallOf(g)] /\ Calls[p] = CallOf(pr[p]) /\ DOMAIN Calls = Proc
  BY Zenon DEF Typed, Calls

\* The interface sees no change of the objects unless the store of a back end changes.
LEMMA SameObjects ==
    ASSUME cfg'.kind = cfg.kind, cfg'.encrypt = cfg.encrypt, store' = store \/ cfg.kind = "memory"
    PROVE  Objects' = Objects
  <1>1. \A s, i : Name(s, i)' = Name(s, i)
    BY SameNames
  <1> QED BY <1>1 DEF Objects, ObjectOf

\* A step of one goroutine that the interface does not see, or sees as a return.
LEMMA PrivateRefines ==
    ASSUME Typed, NEW p \in Proc, NEW g \in Goroutine, pr' = [pr EXCEPT ![p] = g], Objects' = Objects,
           g.pc = "idle" \/ CallOf(g) = CallOf(pr[p])
    PROVE  [Interface!Next]_<<Objects, Calls>>
  <1>1. Calls' = [Calls EXCEPT ![p] = CallOf(g)] /\ Calls[p] = CallOf(pr[p]) /\ DOMAIN Calls = Proc
    BY CallsStep, Zenon
  <1>2. CASE CallOf(g) = CallOf(pr[p])
    <2>1. Calls' = Calls
      BY <1>1, <1>2 DEF Calls
    <2> QED BY <2>1
  <1>3. CASE g.pc = "idle" /\ CallOf(g) # CallOf(pr[p])
    <2>1. CallOf(g) = Interface!Idle
      BY <1>3, CallOfGoroutine
    <2>2. Interface!Respond(p)
      BY <1>1, <1>3, <2>1 DEF Interface!Respond
    <2> QED BY <2>2 DEF Interface!Next
  <1> QED BY <1>2, <1>3

\* A call that begins.
LEMMA InvokeRefines ==
    ASSUME Typed, NEW p \in Proc, NEW g \in Goroutine, pr' = [pr EXCEPT ![p] = g], Objects' = Objects,
           pr[p].pc = "idle", g.pc # "idle", g.seg \in Segment, g.page \in Page
    PROVE  Interface!Next
  <1>1. Calls' = [Calls EXCEPT ![p] = CallOf(g)] /\ Calls[p] = CallOf(pr[p]) /\ DOMAIN Calls = Proc
    BY CallsStep, Zenon
  <1>2. Calls'[p] = CallOf(g)
    BY <1>1
  <1>3. CallOf(pr[p]) = Interface!Idle /\ CallOf(g) # Interface!Idle
    BY CallOfGoroutine DEF Typed
  <1>4. \E op \in {"put", "get", "delete"} : CallOf(g) = [op |-> op, seg |-> g.seg, page |-> g.page]
    BY CallOfGoroutine DEF Goroutine
  <1>5. Interface!Invoke(p)
    BY <1>1, <1>2, <1>3, <1>4, Zenon DEF Interface!Invoke
  <1> QED BY <1>5 DEF Interface!Next

\* An upload that stored something under the name of its page.
LEMMA WriteRefines ==
    ASSUME StorageInv, NEW p \in Proc, pr[p].pc \in Uploading, NEW g \in Goroutine,
           pr' = [pr EXCEPT ![p] = g], UNCHANGED cfg,
           g.pc = "idle" \/ CallOf(g) = CallOf(pr[p]),
           NEW object, store' = With(Name(pr[p].seg, pr[p].page), object)
    PROVE  [Interface!Next]_<<Objects, Calls>>
  <1> DEFINE s == pr[p].seg
             i == pr[p].page
             state == IF object = Torn THEN "torn" ELSE "whole"
  <1>1. Typed /\ CallInv
    BY DEF StorageInv
  <1>2. CASE cfg.kind = "memory"
    BY <1>1, <1>2, SameObjects, PrivateRefines, Zenon
  <1>3. CASE cfg.kind # "memory"
    <2>1. s \in Segment /\ i \in Page /\ cfg.kind \in Kind
      BY <1>1, Zenon DEF CallInv, Typed
    <2>2. \A t, j : Name(t, j)' = Name(t, j)
      BY SameNames
    <2>3. \A t \in Segment, j \in Page : Name(t, j) = Name(s, i) => t = s /\ j = i
      <3> SUFFICES ASSUME NEW t \in Segment, NEW j \in Page, Name(t, j) = Name(s, i)
                   PROVE  t = s /\ j = i
        OBVIOUS
      <3>1. s \in Nat /\ i \in Nat /\ t \in Nat /\ j \in Nat
        BY <2>1, StorageAssumption, Zenon
      <3> HIDE DEF s, i
      <3> QED BY <3>1, <2>1, NameInjective
    <2>4. /\ DOMAIN store' = DOMAIN store \cup {Name(s, i)} /\ store'[Name(s, i)] = object
          /\ \A n \in DOMAIN store \ {Name(s, i)} : store'[n] = store[n]
      BY DEF With
    <2> HIDE DEF s, i
    <2>5. \A t \in Segment, j \in Page :
              ObjectOf(t, j)' = IF t = s /\ j = i THEN state ELSE ObjectOf(t, j)
      BY <2>2, <2>3, <2>4 DEF ObjectOf
    <2>6. Objects' = [t \in Segment |-> [j \in Page |-> IF t = s /\ j = i THEN state ELSE ObjectOf(t, j)]]
      BY <1>3, <2>5 DEF Objects
    <2>7. Objects = [t \in Segment |-> [j \in Page |-> ObjectOf(t, j)]]
      BY <1>3 DEF Objects
    <2>8. Objects' = [Objects EXCEPT ![s][i] = state] /\ Objects'[s][i] = state
      BY <2>1, <2>6, <2>7
    <2>9. Calls' = [Calls EXCEPT ![p] = CallOf(g)] /\ Calls[p] = CallOf(pr[p]) /\ DOMAIN Calls = Proc
      BY <1>1, CallsStep, Zenon
    <2>10. CallOf(pr[p]) = [op |-> "put", seg |-> s, page |-> i]
      BY <1>1, CallOfGoroutine DEF Typed, s, i
    <2>11. Calls' \in {Calls, [Calls EXCEPT ![p] = Interface!Idle]}
      <3>1. CASE g.pc = "idle"
        BY <3>1, <2>9, CallOfGoroutine, Zenon
      <3>2. CASE CallOf(g) = CallOf(pr[p])
        BY <3>2, <2>9 DEF Calls
      <3> QED BY <3>1, <3>2
    <2>12. state \in {"torn", "whole"}
      OBVIOUS
    <2> HIDE DEF state
    <2>13. Calls[p].op = "put" /\ Calls[p].seg = s /\ Calls[p].page = i
      BY <2>9, <2>10
    <2>14. Interface!Write(p)
      BY <2>8, <2>11, <2>12, <2>13, Zenon DEF Interface!Write
    <2> QED BY <2>14 DEF Interface!Next
  <1> QED BY <1>2, <1>3

\* The objects that a Delete listed are removed.
LEMMA DeleteRefines ==
    ASSUME StorageInv, NEW p \in Proc, DeleteObjects(p)
    PROVE  [Interface!Next]_<<Objects, Calls>>
  <1> DEFINE s == pr[p].seg
             left == Objects'[s]
  <1>1. Typed /\ CallInv /\ pr[p].pc = "delete" /\ pr' = [pr EXCEPT ![p] = Idle] /\ UNCHANGED cfg
    BY DEF StorageInv, DeleteObjects
  <1>2. CASE cfg.kind = "memory"
    BY <1>1, <1>2, IdleType, SameObjects, PrivateRefines, Zenon
  <1>3. CASE cfg.kind # "memory"
    <2>1. PICK gone \in SUBSET pr[p].found : store' = [n \in DOMAIN store \ gone |-> store[n]]
      BY <1>1 DEF DeleteObjects
    <2>2. DOMAIN store' = DOMAIN store \ gone /\ \A n \in DOMAIN store \ gone : store'[n] = store[n]
      BY <2>1
    <2>3. \A t, j : Name(t, j)' = Name(t, j)
      BY <1>1, SameNames
    <2>4. s \in Segment /\ \A t \in Segment, j \in Page : Name(t, j) \in gone => t = s
      BY <1>1, <1>3, Zenon DEF CallInv
    <2> HIDE DEF s
    <2>5. \A t \in Segment, j \in Page :
              /\ t # s => ObjectOf(t, j)' = ObjectOf(t, j)
              /\ ObjectOf(t, j)' \in {ObjectOf(t, j), "absent"}
      BY <2>2, <2>3, <2>4 DEF ObjectOf
    <2>6. Objects' = [t \in Segment |-> [j \in Page |-> ObjectOf(t, j)']]
      BY <1>1, <1>3 DEF Objects
    <2>7. Objects = [t \in Segment |-> [j \in Page |-> ObjectOf(t, j)]]
      BY <1>3 DEF Objects
    <2>8. Objects' = [Objects EXCEPT ![s] = left]
      BY <2>4, <2>5, <2>6, <2>7
    <2>9. \A j \in Page : left[j] \in {Objects[s][j], "absent"}
      BY <2>4, <2>5, <2>6, <2>7
    <2>10. Calls' = [Calls EXCEPT ![p] = Interface!Idle] /\ Calls[p] = CallOf(pr[p])
      <3>1. CallOf(Idle) = Interface!Idle
        BY IdleType, CallOfGoroutine
      <3>2. Calls' = [Calls EXCEPT ![p] = CallOf(Idle)] /\ Calls[p] = CallOf(pr[p])
        BY <1>1, CallsStep, Zenon
      <3> QED BY <3>1, <3>2
    <2>11. CallOf(pr[p]) = [op |-> "delete", seg |-> s, page |-> pr[p].page]
      BY <1>1, CallOfGoroutine DEF Typed, s
    <2>12. Interface!Remove(p)
      BY <2>8, <2>9, <2>10, <2>11 DEF Interface!Remove
    <2> QED BY <2>12 DEF Interface!Next
  <1> QED BY <1>2, <1>3

\* Every step of the storage is a step of the interface, or one that it does not see.
LEMMA StepRefines ==
    StorageInv /\ [StorageNext]_storageVars => [Interface!Next]_<<Objects, Calls>>
  <1> SUFFICES ASSUME StorageInv, [StorageNext]_storageVars PROVE [Interface!Next]_<<Objects, Calls>>
    OBVIOUS
  <1>0. Typed /\ CallInv
    BY DEF StorageInv
  <1>1. CASE UNCHANGED storageVars \/ Verify \/ NewStorage
    <2>1. cfg'.kind = cfg.kind /\ cfg'.encrypt = cfg.encrypt /\ store' = store /\ pr' = pr
      BY <1>0, <1>1 DEF storageVars, Verify, NewStorage, Typed
    <2>2. Objects' = Objects
      BY <2>1, SameObjects
    <2>3. Calls' = Calls
      BY <2>1 DEF Calls
    <2> QED BY <2>2, <2>3
  <1>2. ASSUME NEW p \in Proc, Work(p) PROVE [Interface!Next]_<<Objects, Calls>>
    <2>0. pr[p] \in Goroutine /\ pr[p].tries + 1 \in Nat
      BY <1>0 DEF Typed, Goroutine
    <2>1. ASSUME NEW s \in Segment, NEW i \in Page, NEW pc \in {"upload", "head"},
                 Begin(p, pc, s, i), UNCHANGED <<cfg, store>>
          PROVE  Interface!Next
      <3> DEFINE g == [Idle EXCEPT !.pc = pc, !.seg = s, !.page = i]
      <3>1. s \in Nat /\ i \in Nat
        BY StorageAssumption
      <3>2. g \in Goroutine /\ g.pc = pc /\ g.seg = s /\ g.page = i
        BY <3>1, IdleType, Zenon DEF Goroutine, Uploading, Reading
      <3>3. pr' = [pr EXCEPT ![p] = g] /\ pr[p].pc = "idle"
        BY <2>1 DEF Begin
      <3>4. Objects' = Objects
        BY <2>1, SameObjects
      <3> HIDE DEF g
      <3> QED BY <1>0, <3>2, <3>3, <3>4, InvokeRefines, Zenon
    <2>2. ASSUME NEW s \in Segment, Delete(p, s) PROVE Interface!Next
      <3> DEFINE g == [Idle EXCEPT !.pc = "delete", !.seg = s, !.found = Find(s)]
      <3>1. /\ pr' = [pr EXCEPT ![p] = g] /\ pr[p].pc = "idle" /\ UNCHANGED <<cfg, store>>
        BY <2>2 DEF Delete
      <3>2. Find(s) \in SUBSET Names /\ s \in Nat
        BY <1>0, StorageAssumption
           DEF Typed, Kind, Find, FindLocal, FindWebdav, FindMemory, FindMinio, FindOSS, FindS3, WithPrefix
      <3>3. g \in Goroutine /\ g.pc = "delete" /\ g.seg = s /\ g.page = 0
        BY <3>2, IdleType, Zenon DEF Goroutine
      <3>4. Objects' = Objects
        BY <3>1, SameObjects
      <3> HIDE DEF g
      <3> QED BY <1>0, <3>1, <3>3, <3>4, StorageAssumption, InvokeRefines, Zenon
    <2>3. ASSUME NEW g \in Goroutine, pr' = [pr EXCEPT ![p] = g], UNCHANGED <<cfg, store>>,
                 g.pc = "idle" \/ CallOf(g) = CallOf(pr[p])
          PROVE  [Interface!Next]_<<Objects, Calls>>
      <3>1. Objects' = Objects
        BY <2>3, SameObjects
      <3> QED BY <1>0, <2>3, <3>1, PrivateRefines, Zenon
    <2>4. \A set \in {Uploading, Reading}, g \in Goroutine :
              pr[p].pc \in set /\ g.pc \in set /\ g.seg = pr[p].seg /\ g.page = pr[p].page
              => CallOf(g) = CallOf(pr[p])
      BY <2>0, CallOfGoroutine
    <2>5. CASE Acquire(p)
      <3> DEFINE g == [pr[p] EXCEPT !.pc = "put"]
      <3>1. pr' = [pr EXCEPT ![p] = g] /\ UNCHANGED <<cfg, store>> /\ pr[p].pc = "upload"
        BY <2>5 DEF Acquire
      <3>2. g \in Goroutine /\ g.pc = "put" /\ g.seg = pr[p].seg /\ g.page = pr[p].page
        BY <2>0 DEF Goroutine, Uploading
      <3> HIDE DEF g
      <3>3. CallOf(g) = CallOf(pr[p])
        BY <2>4, <3>1, <3>2 DEF Uploading
      <3> QED BY <2>3, <3>1, <3>2, <3>3, Zenon
    <2>6. CASE PutCreate(p)
      <3> DEFINE g == [pr[p] EXCEPT !.pc = "copy"]
      <3>1. /\ pr' = [pr EXCEPT ![p] = g] /\ UNCHANGED cfg /\ pr[p].pc \in Uploading
            /\ store' = With(Name(pr[p].seg, pr[p].page), Torn)
        BY <2>6 DEF PutCreate, Uploading
      <3>2. g \in Goroutine /\ g.pc \in Uploading /\ g.seg = pr[p].seg /\ g.page = pr[p].page
        BY <2>0 DEF Goroutine, Uploading
      <3> HIDE DEF g
      <3>3. CallOf(g) = CallOf(pr[p])
        BY <2>4, <3>1, <3>2
      <3> QED BY <3>1, <3>2, <3>3, WriteRefines, Zenon
    <2>7. CASE PutOk(p)
      <3>1. /\ pr' = [pr EXCEPT ![p] = Idle] /\ UNCHANGED cfg /\ pr[p].pc \in Uploading
            /\ store' = With(Name(pr[p].seg, pr[p].page), Whole(pr[p].seg, pr[p].page))
        BY <2>7 DEF PutOk, Stored, Whole, Uploading
      <3> QED BY <3>1, IdleType, WriteRefines, Zenon
    <2>8. CASE PutError(p)
      <3> DEFINE g == Retry(p, "upload")
      <3>1. pr' = [pr EXCEPT ![p] = g] /\ UNCHANGED cfg /\ pr[p].pc \in Uploading
        BY <2>8 DEF PutError, Uploading
      <3>2. g \in Goroutine /\ (g.pc = "idle" \/ CallOf(g) = CallOf(pr[p]))
        <4>1. /\ g \in Goroutine
              /\ g.pc = "idle" \/ (g.pc \in Uploading /\ g.seg = pr[p].seg /\ g.page = pr[p].page)
          BY <2>0, IdleType, Zenon DEF Retry, Goroutine, Uploading
        <4> HIDE DEF g
        <4> QED BY <2>4, <3>1, <4>1
      <3>3. store' = store \/ \E object : store' = With(Name(pr[p].seg, pr[p].page), object)
        BY <1>0, <2>8 DEF PutError, Typed, Kind, Left, LeftByWebdav, LeftByLocal, LeftByMemory,
                          LeftByMinio, LeftByOSS, LeftByS3, Stored
      <3> HIDE DEF g
      <3> QED BY <2>3, <3>1, <3>2, <3>3, WriteRefines, Zenon
    <2>9. CASE HeadObject(p)
      <3> DEFINE g == [pr[p] EXCEPT !.pc = "get"]
      <3>1. /\ pr' = [pr EXCEPT ![p] = g] \/ pr' = [pr EXCEPT ![p] = Idle]
            /\ UNCHANGED <<cfg, store>> /\ pr[p].pc = "head"
        BY <2>9 DEF HeadObject
      <3>2. g \in Goroutine /\ g.pc = "get" /\ g.seg = pr[p].seg /\ g.page = pr[p].page
        BY <2>0 DEF Goroutine, Reading
      <3> HIDE DEF g
      <3>3. CallOf(g) = CallOf(pr[p])
        BY <2>4, <3>1, <3>2 DEF Reading
      <3> QED BY <2>3, <3>1, <3>2, <3>3, IdleType
    <2>10. CASE Get(p)
      <3> DEFINE g == [pr[p] EXCEPT !.pc = "read", !.result = Decode(pr[p].seg, pr[p].page, store[Name(pr[p].seg, pr[p].page)])]
                 h == Retry(p, "get")
      <3>1. /\ pr' = [pr EXCEPT ![p] = g] \/ pr' = [pr EXCEPT ![p] = h]
            /\ UNCHANGED <<cfg, store>> /\ pr[p].pc = "get"
        BY <2>10 DEF Get
      <3>2. h \in Goroutine /\ (h.pc = "idle" \/ CallOf(h) = CallOf(pr[p]))
        <4>1. h \in Goroutine /\ (h.pc = "idle" \/ (h.pc = "get" /\ h.seg = pr[p].seg /\ h.page = pr[p].page))
          BY <2>0, IdleType, Zenon DEF Retry, Goroutine, Reading
        <4> HIDE DEF h
        <4> QED BY <2>4, <3>1, <4>1 DEF Reading
      <3>3. CASE pr' = [pr EXCEPT ![p] = h]
        BY <2>3, <3>1, <3>2, <3>3, Zenon
      <3>4. CASE pr' = [pr EXCEPT ![p] = g]
        <4>1. g.pc = "read" /\ g.seg = pr[p].seg /\ g.page = pr[p].page
          BY <2>0 DEF Goroutine
        <4>2. StorageInv'
          BY NextPreservesInv
        <4>3. g \in Goroutine
          BY <1>0, <3>4, <4>2 DEF StorageInv, Typed
        <4> HIDE DEF g
        <4>4. CallOf(g) = CallOf(pr[p])
          BY <2>4, <3>1, <4>1, <4>3 DEF Reading
        <4> QED BY <2>3, <3>1, <3>4, <4>3, <4>4, Zenon
      <3> QED BY <3>1, <3>3, <3>4
    <2>11. CASE CloseNode(p)
      BY <2>3, <2>11, IdleType, Zenon DEF CloseNode
    <2>12. CASE DeleteObjects(p)
      BY <2>12, DeleteRefines
    <2> QED BY <1>2, <2>1, <2>2, <2>5, <2>6, <2>7, <2>8, <2>9, <2>10, <2>11, <2>12, Zenon
            DEF Work, Commit, OpenDirect
  <1> QED BY <1>1, <1>2 DEF StorageNext

\* ImplementsStorage: every back end but the one in memory implements the Storage
\* interface, whichever calls to its server fail.
THEOREM BackEndsImplementStorage == StorageSpec => ImplementsStorage
  <1>1. InitStorage => Interface!Init
    <2> SUFFICES ASSUME InitStorage PROVE Interface!Init
      OBVIOUS
    <2>1. Calls = [p \in Proc |-> Interface!Idle]
      BY IdleType, CallOfGoroutine DEF InitStorage, Calls
    <2>2. Objects = [s \in Segment |-> [i \in Page |-> "absent"]]
      BY DEF InitStorage, Objects, ObjectOf
    <2> QED BY <2>1, <2>2 DEF Interface!Init
  <1> QED BY <1>1, InitImpliesInv, NextPreservesInv, StepRefines, PTL
          DEF StorageSpec, ImplementsStorage, Interface!Spec
=============================================================================
