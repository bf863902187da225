---------------------------- MODULE EntryService ----------------------------
(***************************************************************************)
(* The REST handlers for entries, groups and files                         *)
(* (cmd/apps/apis/rest/v1: base.go, entries.go, groups.go, files.go).      *)
(*                                                                         *)
(* Every request runs in a goroutine of its own.  A handler is a short     *)
(* sequence of calls to core and to the metastore; each call is one step   *)
(* here (Core checks what happens inside them), and between two calls the  *)
(* other requests and the cleanup of removed entries go on.  What a        *)
(* handler read before a call may therefore be stale after it: the path    *)
(* deduced from an id, the entry whose permissions were checked, and the   *)
(* property record that is written back as a whole.                        *)
(*                                                                         *)
(* NoURI is the empty string.  The REST interface cannot make links.       *)
(* Body, wording and layout of the answers are left out.                   *)
(***************************************************************************)
EXTENDS EntryTree

VARIABLES
  queue,        \* ids for which an index event was published
  done,         \* process -> URIs it reports as deleted (DeleteEntries)
  kept,         \* ghost: <<id, type, field>> -> value last acknowledged
  raced,        \* ghost: <<id, type>> whose updates overlapped
  removed,      \* ghost: process -> set of [id, top, sel]: entries it unlinked,
                \* with the entry and the URI it unlinked them for
  stale,        \* ghost: processes during whose requests the tree changed
  odd           \* ghost: something was put below a file or, by way of a
                \* trailing slash, below itself

entryVars == <<treeVars, queue, done, kept, raced, removed, stale, odd>>

\* at[p] is [id, kind, uri, n, rec, out, buf]: the entry looked up, its URI, its size or
\* a loop counter, the record, the listing or the bytes read.

NoURI == <<"">>

----------------------------------------------------------------------------
(* Steps of a handler. *)

Same == UNCHANGED <<entry, prop, data, queue>>
Ghosts == UNCHANGED <<kept, raced, removed, odd>>
Rest == UNCHANGED <<req, done>>

\* The rights a handler asks for.  WriteFile names the owner's right three times.
Needs(p) ==
  CASE Op(p) \in {"update", "delete", "setdoc", "setprop", "setgroup"} -> All("w")
    [] Op(p) = "write" -> {<<"owner", "w">>}
    [] Op(p) \in {"details", "property", "friday", "getgroup", "read", "markdown"} -> All("r")

\* requireEntryWithPermission.  When the path of the entry cannot be deduced an
\* error is written, and the handler continues with an empty URI.
requireEntryWithPermission(p) ==
  LET sel == req[p].sel
      e == IF sel.uri # NoURI THEN GetEntryByPath(sel.uri) ELSE sel.id
      known == Linked(e)
      hold(uri) == at' = [at EXCEPT ![p].id = e, ![p].kind = entry[e].kind, ![p].uri = uri,
                                    ![p].n = Len(data[e])]
  IN  /\ pc[p] = "enter"
      /\ Same /\ Ghosts /\ Rest
      /\ \/ /\ Fine
            /\ ~known
            /\ Reply(p, 404) /\ UNCHANGED at
         \/ /\ Fail
            /\ Reply(p, 400) /\ UNCHANGED at
         \/ /\ Fine
            /\ known
            /\ ~HasAllPermissions(entry[e].acc, Caller(p).uid, Caller(p).gid, Needs(p))
            /\ Reply(p, 400) /\ UNCHANGED at
         \/ /\ known
            /\ HasAllPermissions(entry[e].acc, Caller(p).uid, Caller(p).gid, Needs(p))
            /\ Goto(p, "body")
            /\ \/ Fine /\ UNCHANGED resp
                  /\ hold(IF sel.uri # NoURI THEN sel.uri ELSE ProbableEntryPath(e))
               \/ sel.uri = NoURI /\ Fail /\ Answer(p, 400) /\ hold(NoURI)

Body(p, op) == pc[p] = "body" /\ Op(p) = op

\* getEntryDetails with checkAndTriggerIndexEvent: TRUE when the row is there.
getEntryDetails(e) ==
  queue' = IF /\ Linked(e) /\ entry[e].kind \notin Groups
              /\ GetEntryProperties(e, "prop")["index"] # "current"
           THEN queue \cup {e} ELSE queue

----------------------------------------------------------------------------
(* entries.go *)

\* The attributes of a new entry: pdKind2EntryKind, setupRssConfig and
\* setupGroupFilterConfig, which makes a smart group and replaces the feed.
NewAttr(p) ==
  [kind |-> IF req[p].filter # "" THEN "smart"
            ELSE IF req[p].kind \in Groups THEN req[p].kind ELSE "raw",
   group |-> CASE req[p].filter # "" -> [filter |-> req[p].filter, rss |-> ""]
               [] req[p].filter = "" -> [filter |-> "", rss |-> req[p].rss]]

\* CreateEntry: look up the parent, create the entry, then write its document.
CheckParent(p) ==
  LET dir == GetEntryByPath(Front(req[p].sel.uri))
  IN  /\ pc[p] = "enter" /\ Op(p) = "create"
      /\ Same /\ Rest /\ Ghosts /\ UNCHANGED at
      /\ \/ Fail /\ Reply(p, 400)
         \/ /\ Fine
            /\ IF dir # None /\ HasAllPermissions(entry[dir].acc, Caller(p).uid, Caller(p).gid, All("w"))
               THEN Goto(p, "body") /\ UNCHANGED resp
               ELSE Reply(p, 400)

CreateEntry(p) ==
  LET dir == GetEntryByPath(Front(req[p].sel.uri))
      name == Last(req[p].sel.uri)
      attr == NewAttr(p)
      new == CHOOSE e \in Ids : e \notin Live
      isGroup == attr.kind \in Groups
      config == isGroup /\ (req[p].rss # "" \/ req[p].filter # "")
      refused == \/ dir = None
                 \/ dir # None /\ Child(dir, name) # None
                 \/ attr.kind = "smart" /\ attr.group.filter = ""
  IN  /\ Body(p, "create")
      /\ Rest /\ UNCHANGED <<data, queue, kept, raced, removed>>
      /\ \/ /\ IF refused THEN Fine ELSE Fail
            /\ Reply(p, 400) /\ UNCHANGED <<entry, prop, at, odd>>
         \/ /\ ~refused
            /\ Ids # Live
            /\ entry' = Put(entry, new, [kind |-> attr.kind, up |-> dir, name |-> name,
                                         acc |-> entry[dir].acc, alias |-> ""])
            /\ at' = [at EXCEPT ![p].id = new]
            /\ odd' = (odd \/ entry[dir].kind \notin Groups)
            /\ \/ /\ Fine
                  /\ prop' = IF config THEN Put(prop, <<new, "group">>, attr.group) ELSE prop
                  /\ IF req[p].doc # "" /\ ~isGroup
                     THEN Goto(p, "document") /\ UNCHANGED resp
                     ELSE Reply(p, 201)
               \/ config /\ Fail /\ UNCHANGED prop /\ Reply(p, 400)

CreateDocument(p) ==
  /\ pc[p] = "document"
  /\ Rest /\ Ghosts /\ UNCHANGED <<entry, data, queue, at>>
  /\ \/ /\ Fine
        /\ UpdateEntryProperties(at[p].id, "doc", [title |-> req[p].doc, unread |-> ""])
        /\ Reply(p, 201)
     \/ Fail /\ UNCHANGED prop /\ Reply(p, 400)

\* The answer is 200 even when the details cannot be read after the update.
UpdateEntry(p) ==
  LET live == at[p].id \in Live
  IN  /\ Body(p, "update")
      /\ Rest /\ Ghosts /\ UNCHANGED <<prop, data, at>>
      /\ \/ /\ live
            /\ entry' = [entry EXCEPT ![at[p].id].alias = req[p].val]
            /\ \/ Fine /\ getEntryDetails(at[p].id)
               \/ Fail /\ UNCHANGED queue
            /\ Reply(p, 200)
         \/ /\ IF live THEN Fail ELSE Fine
            /\ UNCHANGED <<entry, queue>> /\ Reply(p, 400)

\* deleteEntry, first part: the entry at the URI and its parent allow it.
MayDelete(p, uri) ==
  LET e == GetEntryByPath(uri)
      d == IF uri = <<>> THEN Root ELSE GetEntryByPath(Front(uri))
      uid == Caller(p).uid
  IN  /\ e # None
      /\ HasAllPermissions(entry[e].acc, uid, 0, All("w"))
      /\ HasAllPermissions(entry[d].acc, uid, 0, All("w"))
      /\ IsAccess(entry[d].acc, uid, 0, {"w"})
      /\ uid \in {0, entry[e].acc.uid, entry[d].acc.uid} \/ <<"sticky", "">> \notin entry[d].acc.perm

\* Mutant: the parent of the two entries found is removed.
RemoveEntryParent(p, uri, ok) ==
  LET e == GetEntryByPath(Front(uri))
      es == {e} \cup Below(e)
  IN  /\ ok /\ Fine /\ e \notin {None, Root}
      /\ entry' = Unlink(es)
      /\ removed' = [removed EXCEPT ![p] = @ \cup {[id |-> c, top |-> e, sel |-> uri] : c \in es}]

\* deleteEntry, second part: RemoveEntry resolves the URI again and removes the
\* children first; after a failure some of them are gone and the group is not.
RemoveEntry(p, uri, ok) ==
  LET e == GetEntryByPath(uri)
      gone(es) == /\ entry' = Unlink(es)
                  /\ removed' = [removed EXCEPT ![p] = @ \cup {[id |-> c, top |-> e, sel |-> uri] : c \in es}]
  IN  IF ok THEN e # None /\ uri # <<>> /\ Fine /\ gone({e} \cup Below(e))
      ELSE \/ (e = None \/ uri = <<>>) /\ Fine /\ gone({})
           \/ /\ e # None /\ uri # <<>> /\ Fail
              /\ \E es \in SUBSET Below(e) :
                   /\ \A c \in es : Below(c) \subseteq es
                   /\ gone(es)

DeleteEntry(p) ==
  /\ Op(p) = "delete"
  /\ Rest /\ UNCHANGED <<prop, data, queue, at, kept, raced, odd>>
  /\ \/ /\ pc[p] = "body"
        /\ UNCHANGED <<entry, removed>> /\ Fine
        /\ IF MayDelete(p, at[p].uri) THEN Goto(p, "remove") /\ UNCHANGED resp ELSE Reply(p, 400)
     \/ /\ pc[p] = "remove"
        /\ \E ok \in BOOLEAN :
             RemoveEntry(p, at[p].uri, ok) /\ Reply(p, IF ok THEN 200 ELSE 400)

\* One URI of the list after the other; at[p].n counts them.
DeleteEntries(p) ==
  LET i == at[p].n
      uri == req[p].list[i]
      code(ds) == IF ds = <<>> THEN 400 ELSE 200
      next(ds) ==
        /\ done' = [done EXCEPT ![p] = ds]
        /\ IF i < Len(req[p].list)
           THEN /\ at' = [at EXCEPT ![p].n = i + 1]
                /\ Goto(p, "enter") /\ UNCHANGED resp
           ELSE UNCHANGED at /\ Reply(p, code(ds))
  IN  /\ Op(p) = "deletes"
      /\ UNCHANGED <<req, prop, data, queue, kept, raced, odd>>
      /\ \/ /\ pc[p] = "enter"
            /\ UNCHANGED <<entry, removed>> /\ Fine
            /\ IF MayDelete(p, uri) THEN Goto(p, "remove") /\ UNCHANGED <<at, done, resp>>
               ELSE next(done[p])
         \/ /\ pc[p] = "remove"
            /\ \E ok \in BOOLEAN :
                 RemoveEntry(p, uri, ok) /\ next(IF ok THEN Append(done[p], uri) ELSE done[p])

\* A URI with a trailing slash escapes the test for descendants, here and in core.
IsDescendant(uri, slash, dir) == ~slash /\ Len(dir) >= Len(uri) /\ SubSeq(dir, 1, Len(uri)) = uri

\* An empty new name keeps the old one.  The children of a smart group are what
\* its filter matches, so it may or may not be empty.
ChangeParent(p) ==
  LET uri == req[p].sel.uri
      slash == req[p].slash
      dir == Front(req[p].new)
      name == IF Last(req[p].new) # "" THEN Last(req[p].new) ELSE Last(uri)
      e == GetEntryByPath(uri)
      d == GetEntryByPath(dir)
      over == IF d = None THEN None ELSE Child(d, name)
      may(x) == HasAllPermissions(entry[x].acc, Caller(p).uid, Caller(p).gid, All("w"))
      unsupported == uri = <<>> \/ e = None \/ d = None
      full == entry[over].kind \in Groups /\ \E c \in Live \ {Root} : entry[c].up = over
      occupied == over # None /\ (req[p].replace # "yes" \/ full)
      matched == over # None /\ entry[over].kind = "smart"
      sameFile == ~slash /\ uri = req[p].new
  IN  /\ Op(p) = "move"
      /\ Rest /\ UNCHANGED <<prop, data, queue, at, kept, raced>>
      /\ \/ /\ pc[p] = "enter"
            /\ UNCHANGED <<entry, removed, odd>> /\ Fine
            /\ IF \/ IsDescendant(uri, slash, dir) \/ (slash /\ dir = uri)
                  \/ e = None \/ (e # None /\ ~may(e))
                  \/ (~sameFile /\ (d = None \/ (d # None /\ ~may(d))))
               THEN Reply(p, 400)
               ELSE IF sameFile THEN Reply(p, 200) ELSE Goto(p, "body") /\ UNCHANGED resp
         \/ /\ pc[p] = "body"
            /\ IF uri # <<>> /\ Front(uri) = dir /\ Last(uri) = name /\ ~slash
               THEN Goto(p, "again") /\ Fine /\ UNCHANGED <<entry, resp, removed, odd>>
               ELSE \/ /\ \/ /\ Fine
                             /\ \/ unsupported \/ occupied \/ matched
                                \/ ~unsupported /\ entry[e].kind \in Groups /\ IsDescendant(uri, slash, dir)
                          \/ Fail
                       /\ Reply(p, 400) /\ UNCHANGED <<entry, removed, odd>>
                    \/ /\ ~unsupported /\ ~occupied /\ Fine
                       /\ ~(entry[e].kind \in Groups /\ IsDescendant(uri, slash, dir))
                       /\ entry' = [x \in Live |->
                             IF x = e THEN [entry[x] EXCEPT !.up = d, !.name = name]
                             ELSE IF x = over THEN [entry[x] EXCEPT !.up = None] ELSE entry[x]]
                       /\ removed' = IF over \in {None, e} THEN removed
                                     ELSE [removed EXCEPT ![p] = @ \cup {[id |-> over, top |-> over, sel |-> req[p].new]}]
                       /\ odd' = (odd \/ slash \/ entry[d].kind \notin Groups)
                       /\ Goto(p, "again") /\ UNCHANGED resp
         \/ /\ pc[p] = "again"
            /\ UNCHANGED <<entry, removed, odd>> /\ Fine
            /\ Reply(p, IF GetEntryByPath(IF Last(req[p].new) # "" THEN req[p].new ELSE dir) = None THEN 400 ELSE 200)

\* A handler that answers after one read for the entry found before.
Read(p, op, ok) ==
  /\ Body(p, op)
  /\ Rest /\ Ghosts /\ UNCHANGED <<entry, prop, data, at>>
  /\ \/ Fine /\ Reply(p, IF ok THEN 200 ELSE 400)
     \/ Fail /\ Reply(p, 400)

EntryDetails(p) ==
  /\ Read(p, "details", Linked(at[p].id))
  /\ IF resp'[p] = <<200>> THEN getEntryDetails(at[p].id) ELSE UNCHANGED queue

EntryProperty(p) == Read(p, "property", TRUE) /\ UNCHANGED queue

GetFridayProperty(p) == Read(p, "friday", TRUE) /\ UNCHANGED queue

GetGroupConfig(p) == Read(p, "getgroup", at[p].kind \in Groups) /\ UNCHANGED queue

\* The handlers that list ask for no permission; at[p].out is the answer, a set of
\* pairs of an id and a URI.
Listing(p, op) ==
  Op(p) = op /\ Same /\ Rest /\ Ghosts

\* buildGroupTreeFromChildren: the groups reached from the root over the rows of
\* groups, and the names on the way.
buildGroupTree ==
  {<<e, ProbableEntryPath(e)>> : e \in {e \in Live \ {Root} : entry[e].kind \in Groups /\ e \in Below(Root)}}

GroupTree(p) ==
  /\ Listing(p, "tree") /\ pc[p] = "enter"
  /\ \/ Fine /\ at' = [at EXCEPT ![p].out = buildGroupTree] /\ Reply(p, 200)
     \/ Fail /\ UNCHANGED at /\ Reply(p, 400)

\* FilterEntry: one query for the linked entries that match, then a path for each.
FilterEntry(p) ==
  /\ Listing(p, "filter")
  /\ \/ /\ pc[p] = "enter" /\ Fine
        /\ at' = [at EXCEPT ![p].out = {<<e, <<>>>> : e \in {e \in Live \ {Root} : Linked(e) /\ entry[e].kind = req[p].kind}}]
        /\ Goto(p, "body") /\ UNCHANGED resp
     \/ /\ pc[p] = "body" /\ Fine
        /\ at' = [at EXCEPT ![p].out = {<<x[1], ProbableEntryPath(x[1])>> : x \in {x \in @ : x[1] \in Live}}]
        /\ Reply(p, 200)
     \/ /\ pc[p] = "enter" /\ Fail /\ UNCHANGED at /\ Reply(p, 400)

\* ListGroupChildren names the children below the URI of the request.
ListGroupChildren(p) ==
  LET uri == req[p].sel.uri
      e == IF uri # NoURI THEN GetEntryByPath(uri) ELSE req[p].sel.id
      ok == Linked(e) /\ entry[e].kind \in Groups
  IN  /\ Listing(p, "list") /\ pc[p] = "enter"
      /\ \/ /\ Fine /\ ok
            /\ at' = [at EXCEPT ![p].out =
                        {<<c, (IF uri # NoURI THEN uri ELSE <<>>) \o <<entry[c].name>>>> :
                           c \in {c \in Live \ {Root} : entry[c].up = e}}]
            /\ Reply(p, 200)
         \/ /\ IF ok THEN Fail ELSE Fine
            /\ UNCHANGED at /\ Reply(p, 400)

----------------------------------------------------------------------------
(* Read, modify, write of a property row. *)

RowOf(p) == CASE Op(p) = "setdoc" -> "doc" [] Op(p) = "setprop" -> "prop" [] Op(p) = "setgroup" -> "group"

\* A second handler that read the row before this one writes it.
Overlaps(p, e, t) ==
  \E q \in Procs \ {p} : pc[q] = "put" /\ at[q].id = e /\ RowOf(q) = t

\* Mutant: the record is built from the request alone.
ModifiedOnly(p, rec) == [f \in DOMAIN rec |-> IF f \in req[p].set THEN req[p].val ELSE ""]

\* The fields of the request replace those of the record.
Modified(p, rec) == [f \in DOMAIN rec |-> IF f \in req[p].set THEN req[p].val ELSE rec[f]]

ReadRow(p, ok) ==
  /\ pc[p] = "body" /\ UNCHANGED <<prop, kept>>
  /\ \/ /\ ok /\ Fine
        /\ at' = [at EXCEPT ![p].rec = GetEntryProperties(at[p].id, RowOf(p))]
        /\ raced' = IF Overlaps(p, at[p].id, RowOf(p)) THEN raced \cup {<<at[p].id, RowOf(p)>>} ELSE raced
        /\ Goto(p, "put") /\ UNCHANGED resp
     \/ /\ IF ok THEN Fail ELSE Fine
        /\ Reply(p, 400) /\ UNCHANGED <<at, raced>>

WriteRow(p, rec, set) ==
  LET e == at[p].id
      t == RowOf(p)
  IN  /\ pc[p] = "put" /\ UNCHANGED <<at, raced>>
      /\ \/ /\ Fine
            /\ UpdateEntryProperties(e, t, rec)
            /\ kept' = [k \in DOMAIN kept \cup ({e} \X {t} \X set) |->
                          IF k[1] = e /\ k[2] = t /\ k[3] \in set THEN rec[k[3]] ELSE kept[k]]
            /\ Reply(p, 200)
         \/ Fail /\ UNCHANGED <<prop, kept>> /\ Reply(p, 400)

Update(p, op) == Op(p) = op /\ Rest /\ UNCHANGED <<entry, data, queue, removed, odd>>

UpdateDocumentProperty(p) ==
  /\ Update(p, "setdoc")
  /\ \/ ReadRow(p, at[p].kind \notin Groups)
     \/ WriteRow(p, Modified(p, at[p].rec), req[p].set)

\* Tags and properties are replaced, whether the request has them or not.
UpdateProperty(p) ==
  /\ Update(p, "setprop")
  /\ \/ ReadRow(p, TRUE)
     \/ WriteRow(p, [at[p].rec EXCEPT !["tags"] = IF "tags" \in req[p].set THEN req[p].val ELSE ""], {"tags"})

\* A filter or a feed is replaced only where the group has one already.
SetGroupConfig(p) ==
  /\ Update(p, "setgroup")
  /\ \/ ReadRow(p, at[p].kind \in Groups)
     \/ LET rec == at[p].rec
        IN  WriteRow(p, [f \in DOMAIN rec |-> IF rec[f] # "" THEN Modified(p, rec)[f] ELSE ""],
                     {f \in req[p].set : rec[f] # ""})

----------------------------------------------------------------------------
(* files.go *)

\* Open for writing without truncation, one WriteAt at offset 0, Flush, Close.
\* A reader that has looked up the size already is overtaken.
WriteFile(p) ==
  LET e == at[p].id
      new == req[p].data
      old == data[e]
      ok == e \in Live /\ at[p].kind = "raw"
  IN  /\ Body(p, "write")
      /\ Rest /\ UNCHANGED <<entry, prop, queue, at, kept, removed, odd>>
      /\ \/ /\ ok /\ Fine
            /\ data' = [data EXCEPT ![e] = new \o SubSeq(old, Len(new) + 1, Len(old))]
            /\ raced' = IF \E q \in Procs : pc[q] = "body" /\ Op(q) \in {"read", "markdown"} /\ at[q].id = e
                        THEN raced \cup {<<e, "file">>} ELSE raced
            /\ Reply(p, 200)
         \/ /\ IF ok THEN Fail ELSE Fine
            /\ UNCHANGED <<data, raced>> /\ Reply(p, 400)

Buffer(e, n) == [i \in 1 .. n |-> IF i <= Len(data[e]) THEN data[e][i] ELSE ""]

\* A buffer of the size found by the lookup.
ReadContent(p, op) ==
  LET e == at[p].id
      ok == e \in Live /\ at[p].kind = "raw"
  IN  /\ Body(p, op)
      /\ Same /\ Rest /\ Ghosts
      /\ \/ /\ ok /\ Fine
            /\ at' = [at EXCEPT ![p].buf = Buffer(e, at[p].n)]
            /\ Reply(p, 200)
         \/ /\ IF ok THEN Fail ELSE Fine
            /\ UNCHANGED at /\ Reply(p, 400)

ReadFile(p) == ReadContent(p, "read")

\* The same bytes; the conversion of HTML to text is left out.
ReadMarkdownFile(p) == ReadContent(p, "markdown")

----------------------------------------------------------------------------
(* The cleanup of the dispatcher, see EntryCleanup: row and properties go. *)

DeleteRemovedEntry(e) ==
  /\ e \in Live \ {Root} /\ entry[e].up = None
  /\ entry' = Drop(entry, {e})
  /\ prop' = Drop(prop, {k \in DOMAIN prop : k[1] = e})
  /\ data' = [data EXCEPT ![e] = <<>>]
  /\ kept' = Drop(kept, {k \in DOMAIN kept : k[1] = e})
  /\ UNCHANGED <<handlerVars, queue, done, raced, removed, odd>>

EntryInit ==
  /\ entry = Tree
  /\ prop = [k \in {<<e, "group">> : e \in {e \in DOMAIN Tree : Tree[e].kind = "smart"}} |->
               [filter |-> "old", rss |-> ""]]
  /\ data = [e \in Ids |-> IF e \in DOMAIN Tree /\ Tree[e].kind = "raw" THEN <<"o", "o">> ELSE <<>>]
  /\ queue = {}
  /\ done = [p \in Procs |-> <<>>]
  /\ kept = [k \in {} |-> ""]
  /\ raced = {}
  /\ removed = [p \in Procs |-> {}]
  /\ stale = {}
  /\ odd = FALSE

\* The local variables of a handler.
EntryLocal(r) == [id |-> None, kind |-> "", uri |-> <<>>, n |-> IF r.op = "deletes" THEN 1 ELSE 0,
                  rec |-> [f \in {} |-> ""], out |-> {}, buf |-> <<>>]

Selects(p) == Op(p) \in {"update", "delete", "setdoc", "setprop", "setgroup", "write",
                         "details", "property", "friday", "getgroup", "read", "markdown"}

\* The handlers during whose work the tree changes hold stale paths.
Stale == stale' = IF entry' = entry THEN stale
                  ELSE stale \cup {q \in Procs : pc[q] \in {"body", "remove"} /\ pc'[q] = pc[q]}

EntryStep(p) ==
  /\ \/ Selects(p) /\ requireEntryWithPermission(p)
     \/ CheckParent(p) \/ CreateEntry(p) \/ CreateDocument(p) \/ UpdateEntry(p)
     \/ DeleteEntry(p) \/ DeleteEntries(p) \/ ChangeParent(p)
     \/ EntryDetails(p) \/ EntryProperty(p) \/ GetFridayProperty(p) \/ GetGroupConfig(p)
     \/ GroupTree(p) \/ FilterEntry(p) \/ ListGroupChildren(p)
     \/ UpdateDocumentProperty(p) \/ UpdateProperty(p) \/ SetGroupConfig(p)
     \/ WriteFile(p) \/ ReadFile(p) \/ ReadMarkdownFile(p)
  /\ Stale

EntryCleaned == \E e \in Ids : DeleteRemovedEntry(e) /\ Stale

----------------------------------------------------------------------------
(* Properties. *)

\* Every handler answers, and it answers once; the exception is the handler that
\* goes on with an empty URI after it wrote that the URI cannot be deduced.
AnsweredOnce ==
  \A p \in Procs : pc[p] = "done" =>
    \/ Len(resp[p]) = 1
    \/ Len(resp[p]) = 2 /\ at[p].uri = NoURI

\* A property that UpdateDocumentProperty, UpdateProperty or SetGroupConfig acknowledged
\* stays in the row until a later request sets it, as long as no two of these
\* handlers were between the read and the write of the same row: each writes back
\* the whole record it read.
AcknowledgedIsKept ==
  \A k \in DOMAIN kept : <<k[1], k[2]>> \notin raced =>
    /\ <<k[1], k[2]>> \in DOMAIN prop
    /\ prop[<<k[1], k[2]>>][k[3]] = kept[k]

\* CreateEntry that answers with an error has left no entry behind, unless the
\* entry was there and its document or group properties could not be written.
FailedCreateLeavesNothing ==
  \A p \in Procs : (Op(p) = "create" /\ resp[p] = <<400>> /\ at[p].id # None) => faults > 0

\* DeleteEntry by id removes the entry with this id and what is below it, nothing
\* else, although it deduces a path from the id and resolves the path twice: as
\* long as the tree does not change in between and all of it is below groups.
RemovedIsSelected ==
  \A p \in Procs : (Op(p) = "delete" /\ req[p].sel.uri = NoURI /\ p \notin stale /\ ~odd) =>
    \A r \in removed[p] : r.top = req[p].sel.id

\* DeleteEntries reports a URI only when the entry that was there is unlinked.
ReportedIsRemoved ==
  \A p \in Procs : \A i \in DOMAIN done[p] :
    \E r \in removed[p] : r.sel = done[p][i] /\ r.id # Root

\* ReadFile answers with the content of the file, unless a write came between
\* the lookup, which gives the length of the answer, and the read.
ReadIsWhole ==
  [][\A p \in Procs : (Op(p) \in {"read", "markdown"} /\ resp'[p] # resp[p] /\ 200 \in Range(resp'[p])) =>
       at'[p].buf = data[at[p].id] \/ <<at[p].id, "file">> \in raced]_<<handlerVars, entryVars>>

\* What GroupTree, ListGroupChildren and FilterEntry answer can be looked up: the
\* URI leads to the entry it was reported for.  FilterEntry finds the paths after
\* the query, so a change in between may give it the path of another entry;
\* ListGroupChildren by id reports URIs relative to the group.
ListedIsFound ==
  [][\A p \in Procs :
       (/\ Op(p) \in {"tree", "filter", "list"} /\ resp'[p] = <<200>> /\ resp[p] = <<>>
        /\ ~odd /\ p \notin stale /\ (Op(p) = "list" => req[p].sel.uri # NoURI)) =>
       \A x \in at'[p].out : GetEntryByPath(x[2]) = x[1]]_<<handlerVars, entryVars>>

\* What a handler answers is what happened: one answer, a failed creation left nothing,
\* what was deleted is what the request named and what is reported, content and
\* paths are those of the entries.
AnswerIsTrue ==
  /\ [](AnsweredOnce /\ FailedCreateLeavesNothing /\ RemovedIsSelected /\ ReportedIsRemoved)
  /\ ReadIsWhole /\ ListedIsFound
=============================================================================
