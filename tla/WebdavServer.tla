---------------------------- MODULE WebdavServer ----------------------------
(***************************************************************************)
(* The WebDAV server (cmd/apps/apis/webdav): the FsOperator that           *)
(* golang.org/x/net/webdav calls.  Everything goes by path.                *)
(***************************************************************************)
EXTENDS FileSystem

NoUser == [uid |-> -1, gid |-> -1]

Dav(p, ops, l) == req[p].via = "dav" /\ Op(p) \in ops /\ pc[p] = l

FsErrors == [ok |-> "ok", same |-> "ok", ErrNotFound |-> "fs.ErrNotExist", ErrIsExist |-> "fs.ErrExist",
             ErrNotEmpty |-> "fs.ErrInvalid", ErrNoAccess |-> "fs.ErrPermission",
             ErrNoPerm |-> "fs.ErrPermission", ErrNameTooLong |-> "fs.ErrInvalid"]

error2FsError(err) == IF err \in DOMAIN FsErrors THEN FsErrors[err] ELSE err
DavRet(p, err) == Reply(p, error2FsError(err))

\* Requests of an unknown user, or with a wrong password, reach no operation.
basicAuthHandler(p) ==
  /\ req[p].via = "dav" /\ pc[p] = "enter"
  /\ Fine
  /\ IF Caller(p) = NoUser THEN Reply(p, "401") ELSE Goto(p, Op(p)) /\ UNCHANGED resp
  /\ at' = [at EXCEPT ![p].row = req[p].uri]
  /\ UNCHANGED <<treeVars, fsVars>>

-----------------------------------------------------------------------------
\* MKCOL calls Mkdir with mode 0777, which has no file type: that is a raw file.
mode2EntryAttr(type) ==
  [kind |-> IF type = "S_IFDIR" THEN "group" ELSE "raw",
   acc |-> [uid |-> 0, gid |-> 0, perm |-> All("r") \cup All("w")]]

\* Mkdir makes every missing entry of the path; at[p].row is what is left of it.
Made(p) == SubSeq(req[p].uri, 1, Len(req[p].uri) - Len(at[p].row))

Mkdir(p) ==
  /\ Dav(p, {"mkcol"}, "mkcol")
  /\ Fine
  /\ IF at[p].row = <<>> THEN DavRet(p, "ok") /\ UNCHANGED at
     ELSE LET found == GetEntryByPath(Append(Made(p), Head(at[p].row))) # None
          IN  /\ at' = IF found THEN [at EXCEPT ![p].row = Tail(@)] ELSE at
              /\ Goto(p, IF found THEN "mkcol" ELSE "mkone")
              /\ UNCHANGED resp
  /\ UNCHANGED <<treeVars, fsVars>>

MkdirOne(p) ==
  LET n == Head(at[p].row)
      err == CreateErr(Made(p), n)
  IN  /\ Dav(p, {"mkcol"}, "mkone")
      /\ Fine
      /\ IF err # "ok" THEN DavRet(p, err) /\ UNCHANGED <<at, rowVars, fileVars>>
         ELSE /\ CreateEntry(Made(p), n, mode2EntryAttr("none"))
              /\ at' = [at EXCEPT ![p].row = Tail(@)]
              /\ Goto(p, "mkcol")
              /\ UNCHANGED resp
      /\ UNCHANGED <<prop, tasks, kept, raced>>

\* OpenFile for GET (no flags) and PUT (create and truncate).
OpenFile(p) ==
  LET e == GetEntryByPath(req[p].uri)
  IN  /\ Dav(p, {"get", "put"}, Op(p))
      /\ Fine
      /\ IF e # None THEN /\ at' = [at EXCEPT ![p].id = e, ![p].row = entry[e].acc]
                          /\ Goto(p, "openfile")
                          /\ UNCHANGED resp
         ELSE /\ IF Op(p) = "put" THEN Goto(p, "parent") /\ UNCHANGED resp ELSE DavRet(p, "ErrNotFound")
              /\ UNCHANGED at
      /\ UNCHANGED <<treeVars, fsVars>>

CheckParent(p) ==
  LET d == Parent(req[p].uri)
  IN  /\ Dav(p, {"put"}, "parent")
      /\ Fine
      /\ IF d = None THEN DavRet(p, "ErrNotFound")
         ELSE IF ~HasAllPermissions(entry[d].acc, Caller(p).uid, Caller(p).gid, All("w"))
         THEN Reply(p, "ErrNoAccess")
         ELSE Goto(p, "create") /\ UNCHANGED resp
      /\ UNCHANGED <<at, treeVars, fsVars>>

CreateFile(p) ==
  LET err == CreateErr(Front(req[p].uri), Last(req[p].uri))
  IN  /\ Dav(p, {"put"}, "create")
      /\ Fine
      /\ IF err # "ok" THEN DavRet(p, err) /\ UNCHANGED <<at, rowVars, fileVars>>
         ELSE /\ CreateEntry(Front(req[p].uri), Last(req[p].uri), mode2EntryAttr("none"))
              /\ at' = [at EXCEPT ![p].id = NewId, ![p].row = entry'[NewId].acc]
              /\ Goto(p, "openfile")
              /\ UNCHANGED resp
      /\ UNCHANGED <<prop, tasks, kept, raced>>

\* Access is checked with the row as it was read, the entry is opened by its id.
openFile(p) ==
  LET e == at[p].id
      mask == IF Op(p) = "put" THEN {"r", "w"} ELSE {}
      err == IF IsGroup(e) THEN (IF Linked(e) THEN "ok" ELSE "ErrNotFound") ELSE OpenErr(e)
  IN  /\ Dav(p, {"get", "put"}, "openfile")
      /\ Fine
      /\ IF ~IsAccess(at[p].row, Caller(p).uid, Caller(p).gid, mask)
         THEN Reply(p, "ErrNoAccess") /\ UNCHANGED <<at, raced, rowVars, fileVars>>
         ELSE IF err # "ok" THEN DavRet(p, err) /\ UNCHANGED <<at, raced, rowVars, fileVars>>
         ELSE IF IsGroup(e)
         THEN Reply(p, IF Op(p) = "put" THEN "ErrIsGroup" ELSE "ok") /\ UNCHANGED <<at, raced, rowVars, fileVars>>
         ELSE Open(p, e, Op(p) = "put") /\ Goto(p, "copy") /\ UNCHANGED resp
      /\ UNCHANGED <<prop, tasks, kept>>

\* The handler copies the body and closes the file.
CopyBody(p) ==
  LET e == at[p].id
  IN  /\ Dav(p, {"get", "put"}, "copy")
      /\ Fine
      /\ CASE IsLink(e) -> FlushLink(p, e, IF Op(p) = "put" THEN Overlaid(at[p].buf, req[p].val) ELSE at[p].buf)
           [] ~IsLink(e) /\ Op(p) = "put" -> AppendSegments(p, e, req[p].val)
           [] OTHER -> UNCHANGED <<treeVars, fsVars>>
      /\ DavRet(p, "ok")
      /\ UNCHANGED <<at, tasks, kept>>

-----------------------------------------------------------------------------
\* RemoveAll and Rename act as root, whoever asks.
Su == [uid |-> 0, gid |-> 0]

RemoveAll(p) ==
  LET uri == req[p].uri
      e == GetEntryByPath(uri)
      err == IF e = None THEN "ErrNotFound" ELSE IF uri = <<>> THEN "ErrNoPerm" ELSE "ok"
  IN  /\ Dav(p, {"delete"}, "delete")
      /\ Fine
      /\ IF err # "ok" THEN DavRet(p, err)
         ELSE Goto(p, IF IsGroup(e) THEN "rmgroup" ELSE "unlink") /\ UNCHANGED resp
      /\ UNCHANGED <<at, treeVars, fsVars>>

RmChecked(p) ==
  LET err == IF pc[p] = "unlink" THEN UnlinkErr(req[p].uri, Su) ELSE RmGroupErr(req[p].uri, Su)
  IN  /\ \E l \in {"unlink", "rmgroup"} : Dav(p, {"delete"}, l)
      /\ Fine
      /\ IF err # "ok" THEN DavRet(p, err) ELSE Goto(p, IF pc[p] = "unlink" THEN "rmfile" ELSE "rmall") /\ UNCHANGED resp
      /\ UNCHANGED <<at, treeVars, fsVars>>

RemoveTree(p) ==
  LET err == RemoveErr(req[p].uri, pc[p] = "rmall")
  IN  /\ \E l \in {"rmfile", "rmall"} : Dav(p, {"delete"}, l)
      /\ Fine
      /\ IF err = "ok" THEN RemoveEntry(req[p].uri) ELSE UNCHANGED rowVars
      /\ DavRet(p, err)
      /\ UNCHANGED <<at, prop, fileVars, tasks, kept, raced>>

DavRename(p) ==
  LET uri == req[p].uri
      err == IF GetEntryByPath(uri) = None THEN "ErrNotFound" ELSE IF uri = <<>> THEN "ErrNoPerm"
             ELSE RenameErr(uri, Front(req[p].dst), Last(req[p].dst), Su)
  IN  /\ Dav(p, {"move"}, "move")
      /\ Fine
      /\ IF err # "ok" THEN DavRet(p, err) ELSE Goto(p, "change") /\ UNCHANGED resp
      /\ UNCHANGED <<at, treeVars, fsVars>>

DavMove(p) ==
  LET dst == Front(req[p].dst)
      n == Last(req[p].dst)
      err == ChangeErr(req[p].uri, dst, n, [replace |-> FALSE, exchange |-> FALSE])
  IN  /\ Dav(p, {"move"}, "change")
      /\ Fine
      /\ IF err = "ok" THEN ChangeEntryParent(req[p].uri, dst, n) ELSE UNCHANGED rowVars
      /\ DavRet(p, err)
      /\ UNCHANGED <<at, prop, fileVars, tasks, kept, raced>>

Stat(p) ==
  /\ Dav(p, {"stat"}, "stat")
  /\ Fine
  /\ DavRet(p, IF GetEntryByPath(req[p].uri) = None THEN "ErrNotFound" ELSE "ok")
  /\ UNCHANGED <<at, treeVars, fsVars>>

\* A call to core fails and changes nothing.
DavFails(p) ==
  /\ req[p].via = "dav" /\ pc[p] \notin {"enter", "done"}
  /\ Fail
  /\ Reply(p, "error")
  /\ UNCHANGED <<at, treeVars, fsVars>>

DavStep(p) ==
  /\ \/ basicAuthHandler(p) \/ Mkdir(p) \/ MkdirOne(p) \/ OpenFile(p) \/ CheckParent(p)
     \/ CreateFile(p) \/ openFile(p) \/ CopyBody(p) \/ RemoveAll(p) \/ RmChecked(p)
     \/ RemoveTree(p) \/ DavRename(p) \/ DavMove(p) \/ Stat(p) \/ DavFails(p)
  /\ UNCHANGED req

-----------------------------------------------------------------------------
(* Property.                                                               *)

\* Whatever is linked is below the root: no operation of a mount moves an entry
\* out of reach.  Two defects of the code are excepted: an entry made or moved
\* below a file (CreateEntry and ChangeEntryParent ask no parent whether it is
\* a group) stays behind when the file goes, and an entry whose new parent is
\* the entry itself passes the check for descendants.
LinkedIsReached ==
  \A e \in Live \ {Root} : Linked(e) => \/ Root \in Above(e)
                                        \/ \E a \in Above(e) : ~IsGroup(a)
                                        \/ \E a \in Above(e) \cup {e} : entry[a].up = a
=============================================================================
